--------------------------- MODULE DlmallocProofs ---------------------------
(***************************************************************************)
(* What every call of module Dlmalloc makes of a sound heap, for every     *)
(* value of the constants.                                                 *)
(*                                                                         *)
(* Grown is a heap that has memory: a segment tiled by chunks up to the    *)
(* top chunk, the lists holding the free ones, and the counts of system    *)
(* memory.  Heap is that or a heap that has none yet.  A lemma per         *)
(* function of dlmalloc.i says which chunks the function takes, frees or   *)
(* resizes, and that it leaves the heap sound and all other chunks in use  *)
(* as they were.  They follow the calls: chunks, bins, system memory,      *)
(* malloc(), free(), realloc(), memalign(), independent_comalloc(),        *)
(* bulk_free().                                                            *)
(***************************************************************************)
EXTENDS Dlmalloc, HeapTagsProofs

-----------------------------------------------------------------------------
(* The heap                                                                *)

(* From a to t the chunks tile the segment; then comes the top chunk, of   *)
(* size n, and the fake chunk.                                             *)
Segment(h, f, a, t, n) ==
  /\ Words(h) /\ Tiles(h, f, a, t) /\ h[a].pinuse
  /\ n \in Int /\ n > 0 /\ h[t] = Tag(n, FALSE, TRUE)
  /\ t + n \in DOMAIN h /\ h[t + n] = Tag(TopFoot, FALSE, FALSE)
  /\ \A x \in DOMAIN h : a <= x /\ (x <= t \/ x = t + n)
  /\ HeapStart <= a /\ t + n + TopFoot <= HeapEnd
  /\ \A x \in DOMAIN f : x \in Int /\ a <= x /\ x <= t /\ f[x] \in {Magic} \cup 1 .. HeapSize

UsedIn(h) == {x \in DOMAIN h : h[x].cinuse}
FreeIn(h, t) == {x \in DOMAIN h : x < t /\ ~h[x].cinuse}
SizesKept(h, h2, S) == \A x \in S : h2[x].size = h[x].size

(* The counts that only system allocation and trimming change.             *)
Counted(m) ==
  /\ m.top + m.topsize + TopFoot = m.segbase + m.segsize
  /\ m.segbase + m.segsize = m.brk
  /\ m.segsize \in Int
  /\ m.footprint = m.segsize
  /\ m.max_footprint \in Int /\ m.footprint <= m.max_footprint
  /\ m.trim_check \in {TrimThreshold, MaxSize} /\ m.contiguous \in BOOLEAN

(* Every chunk is where it should be, and the lists hold those of F.       *)
Sound(m, F) ==
  /\ DOMAIN m = HeapFields /\ m.ok = TRUE
  /\ DOMAIN m.bins = MinChunk .. HeapSize
  /\ m.top # NULL
  /\ Segment(m.head, m.foot, m.segbase, m.top, m.topsize)
  /\ Listed(m, F, m.head)
  /\ Counted(m)

(* A heap that has obtained memory, between two calls.                     *)
Grown(m) == Sound(m, FreeIn(m.head, m.top))

(* What a segment has, for the proofs that expand no definition of it.     *)
LEMMA SegmentIs ==
  ASSUME NEW h, NEW f, NEW a, NEW t, NEW n, Segment(h, f, a, t, n)
  PROVE  /\ a \in Int /\ t \in Int /\ n \in Int /\ a <= t /\ a \in DOMAIN h /\ t \in DOMAIN h
         /\ DOMAIN h \subseteq Int /\ DOMAIN f \subseteq Int /\ Words(h) /\ Tiles(h, f, a, t)
         /\ HeapStart <= a /\ t + n + TopFoot <= HeapEnd /\ 0 < n
BY DEF Segment, Tiles, Words

(* The heads of the top chunk and of the fake chunk after it.              *)
LEMMA TopIs ==
  ASSUME NEW h, NEW f, NEW a, NEW t, NEW n, Segment(h, f, a, t, n)
  PROVE  /\ h[t].size = n /\ ~h[t].cinuse /\ h[t].pinuse
         /\ h[t + n].size = TopFoot /\ ~h[t + n].cinuse /\ ~h[t + n].pinuse
BY DEF Segment, Tag

(* A chunk before the top chunk.                                           *)
LEMMA ChunkIs ==
  ASSUME NEW h, NEW f, NEW a, NEW t, NEW n, Segment(h, f, a, t, n),
         NEW p \in DOMAIN h, p < t \/ h[p].cinuse
  PROVE  /\ p \in Int /\ a <= p /\ p < t /\ GoodChunk(h, f, p, t)
         /\ h[p].size \in Int /\ h[p].cinuse \in BOOLEAN /\ h[p].pinuse \in BOOLEAN
         /\ End(h, p) \in DOMAIN h /\ End(h, p) \in Int /\ p < End(h, p) /\ End(h, p) <= t
         /\ h[p].size \in MinChunk .. HeapSize
         /\ HeapStart <= p /\ p < HeapEnd
<1>1. a \in Int /\ t \in Int /\ n \in Int /\ n > 0 /\ HeapStart <= a /\ t + n + TopFoot <= HeapEnd
  BY SegmentIs
<1>2. p \in Int /\ h[p].size \in Int /\ h[p].cinuse \in BOOLEAN /\ h[p].pinuse \in BOOLEAN
  BY DEF Segment, Words
<1>3. a <= p /\ p < t
  <2>1. ~h[t].cinuse /\ ~h[t + n].cinuse
    BY TopIs
  <2>2. a <= p /\ (p <= t \/ p = t + n)
    BY DEF Segment
  <2> QED  BY <1>1, <1>2, <2>1, <2>2
<1>4. GoodChunk(h, f, p, t)
  BY <1>3 DEF Segment, Tiles
<1>5. PICK s \in Int : s = h[p].size
  BY <1>2
<1>6. End(h, p) = p + s /\ p + s \in DOMAIN h /\ p + s <= t /\ s >= MinChunk
  BY <1>4, <1>5 DEF GoodChunk, End
<1>7. HeapEnd = HeapStart + HeapSize /\ HeapStart \in Nat /\ HeapSize \in Nat
  BY HeapAssumption DEF HeapEnd
<1> QED  BY <1>1, <1>2, <1>3, <1>4, <1>5, <1>6, <1>7, ListsAssumption, TagsAssumption

(* A segment of which a span was rewritten.                                *)
LEMMA SegmentRewritten ==
  ASSUME NEW h, NEW f, NEW a, NEW t, NEW n, Segment(h, f, a, t, n), NEW h2, NEW f2,
         NEW p \in DOMAIN h, NEW r \in DOMAIN h, p < r, r <= t,
         Rewrote(h, f, h2, f2, p, r), Tiles(h2, f2, p, r), h2[r].cinuse \/ h2[r].pinuse
  PROVE  /\ Segment(h2, f2, a, t, n)
         /\ \A x \in Int : x < p \/ r <= x =>
              /\ x \in UsedIn(h2) <=> x \in UsedIn(h)
              /\ x \in FreeIn(h2, t) <=> x \in FreeIn(h, t)
              /\ x \in DOMAIN h => h2[x].size = h[x].size
<1>1. /\ a \in Int /\ t \in Int /\ n \in Int /\ a <= t /\ a \in DOMAIN h /\ t \in DOMAIN h
      /\ DOMAIN h \subseteq Int /\ DOMAIN f \subseteq Int
      /\ HeapStart <= a /\ t + n + TopFoot <= HeapEnd /\ 0 < n
      /\ h[t].size = n /\ ~h[t].cinuse /\ h[t].pinuse
  BY SegmentIs, TopIs
<1>2. p \in Int /\ r \in Int /\ a <= p
  BY <1>1 DEF Segment
<1>3. Tiles(h2, f2, a, t)
  BY <1>1, <1>2, Retile DEF Segment
<1>4. Words(h2) /\ h2[a].pinuse
  BY <1>1, <1>2 DEF Rewrote, Segment
<1>5. h2[t] = Tag(n, FALSE, TRUE)
  <2>1. CASE t = r
    <3>1. h2[t].size = n /\ ~h2[t].cinuse /\ h2[t].pinuse /\ t \in DOMAIN h2
      BY <1>1, <2>1 DEF Rewrote
    <3> QED  BY <1>4, <3>1 DEF Words, Tag
  <2>2. CASE t # r
    <3>1. t > r
      BY <1>1, <1>2, <2>2
    <3>2. h2[t] = h[t] /\ h[t] = Tag(n, FALSE, TRUE)
      BY <1>1, <3>1 DEF Rewrote, Segment
    <3> QED  BY <3>2
  <2> QED  BY <2>1, <2>2
<1>6. t + n \in DOMAIN h2 /\ h2[t + n] = Tag(TopFoot, FALSE, FALSE)
  <2>1. t + n > r /\ t + n \in Int
    BY <1>1, <1>2
  <2>2. t + n \in DOMAIN h /\ h[t + n] = Tag(TopFoot, FALSE, FALSE)
    BY Zenon DEF Segment
  <2>3. t + n \in DOMAIN h2 /\ h2[t + n] = h[t + n]
    BY <2>1, <2>2 DEF Rewrote
  <2> QED  BY <2>2, <2>3
<1>7. \A x \in DOMAIN h2 : a <= x /\ (x <= t \/ x = t + n)
  <2> TAKE x \in DOMAIN h2
  <2>1. x \in Int
    BY <1>4 DEF Words
  <2>2. CASE x < p \/ x > r
    BY <1>1, <1>2, <2>1, <2>2 DEF Rewrote, Segment
  <2>3. CASE ~(x < p \/ x > r)
    BY <1>1, <1>2, <2>1, <2>3
  <2> QED  BY <2>2, <2>3
<1>8. \A x \in DOMAIN f2 : x \in Int /\ a <= x /\ x <= t /\ f2[x] \in {Magic} \cup 1 .. HeapSize
  <2> TAKE x \in DOMAIN f2
  <2>1. CASE x \in DOMAIN f /\ f2[x] = f[x]
    BY <2>1 DEF Segment
  <2>2. CASE x \in Int /\ p < x /\ x <= r /\ f2[x] \in {Magic} \cup 1 .. r - p
    <3>1. r - p \in Int /\ r - p <= HeapSize
      BY <1>1, <1>2, HeapAssumption, TagsAssumption DEF HeapEnd
    <3>2. a <= x /\ x <= t
      BY <1>1, <1>2, <2>2
    <3> QED  BY <2>2, <3>1, <3>2, HeapAssumption
  <2> QED  BY <2>1, <2>2 DEF Rewrote
<1>9. Segment(h2, f2, a, t, n)
  BY <1>1, <1>3, <1>4, <1>5, <1>6, <1>7, <1>8 DEF Segment
<1>10. ASSUME NEW x \in Int, x < p \/ r <= x
       PROVE  /\ x \in UsedIn(h2) <=> x \in UsedIn(h)
              /\ x \in FreeIn(h2, t) <=> x \in FreeIn(h, t)
              /\ x \in DOMAIN h => h2[x].size = h[x].size
  <2>1. CASE x = r
    BY <2>1 DEF Rewrote, UsedIn, FreeIn
  <2>2. CASE x # r
    <3>1. x < p \/ x > r
      BY <1>2, <1>10, <2>2
    <3> QED  BY <3>1 DEF Rewrote, UsedIn, FreeIn
  <2> QED  BY <2>1, <2>2
<1> QED  BY <1>9, <1>10

(* A free chunk has a chunk in use after it.                               *)
LEMMA FreeNeighbour ==
  ASSUME NEW h, NEW f, NEW a, NEW t, NEW n, Segment(h, f, a, t, n), NEW p \in FreeIn(h, t)
  PROVE  /\ End(h, p) \in DOMAIN h /\ End(h, p) < t /\ h[End(h, p)].cinuse /\ ~h[End(h, p)].pinuse
         /\ h[p].pinuse /\ p \in DOMAIN h /\ p < t /\ ~h[p].cinuse
<1>1. p \in DOMAIN h /\ p < t /\ ~h[p].cinuse
  BY DEF FreeIn
<1>2. /\ GoodChunk(h, f, p, t) /\ End(h, p) \in DOMAIN h /\ End(h, p) \in Int /\ End(h, p) <= t
      /\ h[p].pinuse \in BOOLEAN
  BY <1>1, ChunkIs
<1>3. h[End(h, p)].pinuse = h[p].cinuse /\ h[p].pinuse
  BY <1>1, <1>2 DEF GoodChunk
<1>4. ~h[End(h, p)].pinuse
  BY <1>1, <1>3
<1>5. End(h, p) # t
  BY <1>4, TopIs
<1>6. t \in Int
  BY SegmentIs
<1>7. End(h, p) < t
  BY <1>2, <1>5, <1>6
<1>8. GoodChunk(h, f, End(h, p), t)
  BY <1>2, <1>7, ChunkIs
<1>9. h[End(h, p)].cinuse
  BY <1>4, <1>8 DEF GoodChunk
<1> QED  BY <1>1, <1>2, <1>3, <1>4, <1>7, <1>9

(* A chunk whose PINUSE bit is clear has a free chunk before it, where its *)
(* foot says.                                                              *)
LEMMA PreviousIs ==
  ASSUME NEW h, NEW f, NEW a, NEW t, NEW n, Segment(h, f, a, t, n),
         NEW p \in DOMAIN h, p < t, ~h[p].pinuse
  PROVE  /\ p - f[p] \in FreeIn(h, t) /\ h[p - f[p]].size = f[p] /\ f[p] \in Int
         /\ End(h, p - f[p]) = p
<1>1. p # a /\ p \in Int /\ a <= p /\ t \in Int
  <2>1. p \in Int /\ a <= p /\ t \in Int
    BY ChunkIs, SegmentIs
  <2>2. h[a].pinuse
    BY DEF Segment
  <2> QED  BY <2>1, <2>2
<1>2. PICK q \in DOMAIN h : a <= q /\ q < p /\ End(h, q) = p
  <2>1. Tiles(h, f, a, t) /\ a \in Int
    BY SegmentIs
  <2>2. a < p /\ p <= t
    BY <1>1, <2>1
  <2> QED  BY <2>1, <2>2 DEF Tiles
<1>3. q < t /\ q \in Int
  BY <1>1, <1>2, SegmentIs
<1>4. GoodChunk(h, f, q, t) /\ h[q].cinuse \in BOOLEAN /\ h[q].size \in Int
  BY <1>3, ChunkIs
<1>5. ~h[q].cinuse
  BY <1>2, <1>4 DEF GoodChunk
<1>6. f[p] = h[q].size
  BY <1>2, <1>4, <1>5 DEF GoodChunk
<1>7. p - f[p] = q
  BY <1>2, <1>3, <1>4, <1>6 DEF End
<1> QED  BY <1>2, <1>3, <1>4, <1>5, <1>6, <1>7 DEF FreeIn

(* What becomes of the chunks when those from p to r are replaced by one   *)
(* chunk, or by two that meet at q, the first one in use.                  *)
OneChunk(h, h2, t, p, r, c) ==
  /\ UsedIn(h2) = (UsedIn(h) \ (p .. r-1)) \cup (IF c THEN {p} ELSE {})
  /\ FreeIn(h2, t) = (FreeIn(h, t) \ (p .. r-1)) \cup (IF c THEN {} ELSE {p})
  /\ h2[p].size = r - p
  /\ \A x \in DOMAIN h : x \notin p .. r-1 => h2[x].size = h[x].size

TwoChunks(h, h2, t, p, q, r, d) ==
  /\ UsedIn(h2) = (UsedIn(h) \ (p .. r-1)) \cup {p} \cup (IF d THEN {q} ELSE {})
  /\ FreeIn(h2, t) = (FreeIn(h, t) \ (p .. r-1)) \cup (IF d THEN {} ELSE {q})
  /\ h2[p].size = q - p /\ h2[q].size = r - q
  /\ \A x \in DOMAIN h : x \notin p .. r-1 => h2[x].size = h[x].size

(* What a segment is after the span from p to r became one chunk.          *)
LEMMA SegmentWhole ==
  ASSUME NEW h, NEW f, NEW a, NEW t, NEW n, Segment(h, f, a, t, n), NEW h2, NEW f2,
         NEW p \in DOMAIN h, NEW r \in DOMAIN h, r - p >= MinChunk, r <= t, NEW c \in BOOLEAN,
         c = TRUE \/ (h[p].pinuse /\ h[r].cinuse), Whole(h, f, h2, f2, p, r, c)
  PROVE  Segment(h2, f2, a, t, n) /\ OneChunk(h, h2, t, p, r, c)
<1>1. p \in Int /\ r \in Int /\ p < r /\ t \in Int /\ DOMAIN f \subseteq Int /\ Words(h) /\ DOMAIN h \subseteq Int
  <2>1. t \in Int /\ DOMAIN f \subseteq Int /\ Words(h) /\ DOMAIN h \subseteq Int
    BY SegmentIs
  <2> QED  BY <2>1, ListsAssumption
<1>2. Rewrote(h, f, h2, f2, p, r) /\ Tiles(h2, f2, p, r)
  BY <1>1, WholeTiles
<1>3. /\ \A x : x \in DOMAIN h2 <=> x = p \/ x = r \/ (x \in DOMAIN h /\ (x < p \/ x > r))
      /\ h2[p].size = r - p /\ h2[p].cinuse = c /\ h2[r].cinuse = h[r].cinuse /\ h2[r].pinuse = c
  BY TagIs DEF Whole
<1>4. h2[r].cinuse \/ h2[r].pinuse
  BY <1>3
<1>5. /\ Segment(h2, f2, a, t, n)
      /\ \A x \in Int : x < p \/ r <= x =>
           /\ x \in UsedIn(h2) <=> x \in UsedIn(h)
           /\ x \in FreeIn(h2, t) <=> x \in FreeIn(h, t)
           /\ x \in DOMAIN h => h2[x].size = h[x].size
  BY <1>1, <1>2, <1>4, SegmentRewritten
<1>6. DOMAIN h2 \subseteq Int
  BY <1>5, SegmentIs
<1>7. ASSUME NEW x
      PROVE  x \in UsedIn(h2) <=> x \in (UsedIn(h) \ (p .. r-1)) \cup (IF c THEN {p} ELSE {})
  <2>1. CASE x \in p .. r-1
    BY <1>1, <1>3, <2>1 DEF UsedIn
  <2>2. CASE x \notin p .. r-1
    BY <1>1, <1>5, <1>6, <2>2 DEF UsedIn
  <2> QED  BY <2>1, <2>2
<1>8. ASSUME NEW x
      PROVE  x \in FreeIn(h2, t) <=> x \in (FreeIn(h, t) \ (p .. r-1)) \cup (IF c THEN {} ELSE {p})
  <2>1. CASE x \in p .. r-1
    BY <1>1, <1>3, <2>1 DEF FreeIn
  <2>2. CASE x \notin p .. r-1
    BY <1>1, <1>5, <1>6, <2>2 DEF FreeIn
  <2> QED  BY <2>1, <2>2
<1>9. \A x \in DOMAIN h : x \notin p .. r-1 => h2[x].size = h[x].size
  BY <1>1, <1>5
<1>10. UsedIn(h2) = (UsedIn(h) \ (p .. r-1)) \cup (IF c THEN {p} ELSE {})
  BY <1>7
<1>11. FreeIn(h2, t) = (FreeIn(h, t) \ (p .. r-1)) \cup (IF c THEN {} ELSE {p})
  BY <1>8
<1> QED  BY <1>3, <1>5, <1>9, <1>10, <1>11 DEF OneChunk

(* The same for two chunks that meet at q, the first one in use.           *)
LEMMA SegmentCut ==
  ASSUME NEW h, NEW f, NEW a, NEW t, NEW n, Segment(h, f, a, t, n), NEW h2, NEW f2,
         NEW p \in DOMAIN h, NEW q \in Int, NEW r \in DOMAIN h,
         q - p >= MinChunk, r - q >= MinChunk, r <= t, NEW d \in BOOLEAN,
         d \/ h[r].cinuse, Cut(h, f, h2, f2, p, q, r, TRUE, d)
  PROVE  Segment(h2, f2, a, t, n) /\ TwoChunks(h, h2, t, p, q, r, d)
<1>1. p \in Int /\ r \in Int /\ p < q /\ q < r /\ t \in Int /\ DOMAIN f \subseteq Int /\ Words(h) /\ DOMAIN h \subseteq Int
  <2>1. t \in Int /\ DOMAIN f \subseteq Int /\ Words(h) /\ DOMAIN h \subseteq Int
    BY SegmentIs
  <2> QED  BY <2>1, ListsAssumption
<1>2. Rewrote(h, f, h2, f2, p, r) /\ Tiles(h2, f2, p, r)
  BY <1>1, CutTiles
<1>3. /\ \A x : x \in DOMAIN h2 <=> x = p \/ x = q \/ x = r \/ (x \in DOMAIN h /\ (x < p \/ x > r))
      /\ h2[p].size = q - p /\ h2[p].cinuse /\ h2[q].size = r - q /\ h2[q].cinuse = d
      /\ h2[r].cinuse = h[r].cinuse /\ h2[r].pinuse = d
  BY DEF Cut, Tag
<1>4. h2[r].cinuse \/ h2[r].pinuse
  BY <1>3
<1>5. /\ Segment(h2, f2, a, t, n)
      /\ \A x \in Int : x < p \/ r <= x =>
           /\ x \in UsedIn(h2) <=> x \in UsedIn(h)
           /\ x \in FreeIn(h2, t) <=> x \in FreeIn(h, t)
           /\ x \in DOMAIN h => h2[x].size = h[x].size
  <2>1. p < r
    BY <1>1
  <2> QED  BY <1>1, <1>2, <1>4, <2>1, SegmentRewritten
<1>6. DOMAIN h2 \subseteq Int
  BY <1>5, SegmentIs
<1>7. ASSUME NEW x
      PROVE  x \in UsedIn(h2) <=> x \in (UsedIn(h) \ (p .. r-1)) \cup {p} \cup (IF d THEN {q} ELSE {})
  <2>1. CASE x \in p .. r-1
    BY <1>1, <1>3, <2>1 DEF UsedIn
  <2>2. CASE x \notin p .. r-1
    BY <1>1, <1>5, <1>6, <2>2 DEF UsedIn
  <2> QED  BY <2>1, <2>2
<1>8. ASSUME NEW x
      PROVE  x \in FreeIn(h2, t) <=> x \in (FreeIn(h, t) \ (p .. r-1)) \cup (IF d THEN {} ELSE {q})
  <2>1. CASE x \in p .. r-1
    BY <1>1, <1>3, <2>1 DEF FreeIn
  <2>2. CASE x \notin p .. r-1
    BY <1>1, <1>5, <1>6, <2>2 DEF FreeIn
  <2> QED  BY <2>1, <2>2
<1>9. \A x \in DOMAIN h : x \notin p .. r-1 => h2[x].size = h[x].size
  BY <1>1, <1>5
<1>10. UsedIn(h2) = (UsedIn(h) \ (p .. r-1)) \cup {p} \cup (IF d THEN {q} ELSE {})
  BY <1>7
<1>11. FreeIn(h2, t) = (FreeIn(h, t) \ (p .. r-1)) \cup (IF d THEN {} ELSE {q})
  BY <1>8
<1> QED  BY <1>3, <1>5, <1>9, <1>10, <1>11 DEF TwoChunks

(* A segment in which a span between two chunks in use became a free chunk *)
(* is one still.                                                           *)
LEMMA SegmentFreed ==
  ASSUME NEW h, NEW f, NEW a, NEW t, NEW n, Segment(h, f, a, t, n), NEW h2, NEW f2,
         NEW p \in DOMAIN h, NEW r \in DOMAIN h, r - p >= MinChunk, r <= t,
         h[p].pinuse, h[r].cinuse, Whole(h, f, h2, f2, p, r, FALSE)
  PROVE  Segment(h2, f2, a, t, n) /\ OneChunk(h, h2, t, p, r, FALSE)
<1>1. FALSE \in BOOLEAN
  OBVIOUS
<1> QED  BY <1>1, SegmentWhole, Zenon

(* The same, of a heap.                                                    *)
LEMMA HeapFreed ==
  ASSUME NEW m, Segment(m.head, m.foot, m.segbase, m.top, m.topsize), NEW n,
         NEW p \in DOMAIN m.head, NEW r \in UsedIn(m.head), r - p >= MinChunk, r <= m.top,
         UsedBefore(m.head, p), Whole(m.head, m.foot, n.head, n.foot, p, r, FALSE)
  PROVE  Segment(n.head, n.foot, m.segbase, m.top, m.topsize) /\ OneChunk(m.head, n.head, m.top, p, r, FALSE)
<1>1. r \in DOMAIN m.head /\ m.head[r].cinuse /\ m.head[p].pinuse
  BY DEF UsedIn, UsedBefore
<1> QED  BY <1>1, SegmentFreed

-----------------------------------------------------------------------------
(* Moving the top chunk                                                    *)

(* From p on everything was rewritten: the top chunk begins at q.          *)
TopMoved(h, f, h2, f2, p, q, n, e) ==
  /\ Words(h2)
  /\ \A x \in DOMAIN h : x < p => x \in DOMAIN h2 /\ h2[x] = h[x]
  /\ \A x \in DOMAIN h2 : (x \in DOMAIN h /\ x < p) \/ x = p \/ x = q \/ x = e
  /\ p \in DOMAIN h2 /\ q \in DOMAIN h2 /\ e \in DOMAIN h2
  /\ (h2[p].pinuse /\ h[p].pinuse) \/ (p < q /\ h2[p].pinuse = h[p].pinuse)
  /\ h2[q] = Tag(n, FALSE, TRUE) /\ h2[e] = Tag(TopFoot, FALSE, FALSE)
  /\ p < q => h2[p].size = q - p /\ h2[p].cinuse /\ q \in DOMAIN f2 /\ f2[q] = Magic
  /\ \A x \in DOMAIN f : x <= p => x \in DOMAIN f2 /\ f2[x] = f[x]
  /\ \A x \in DOMAIN f2 : (x \in DOMAIN f /\ x <= p /\ f2[x] = f[x]) \/ (x = q /\ f2[x] = Magic)

BeforeTop(h, h2, t, p, q) ==
  /\ UsedIn(h2) = {x \in UsedIn(h) : x < p} \cup (IF p < q THEN {p} ELSE {})
  /\ FreeIn(h2, q) = {x \in FreeIn(h, t) : x < p}
  /\ \A x \in DOMAIN h : x < p => h2[x].size = h[x].size

(* A segment whose last chunks became the top chunk, wherever it ends, is  *)
(* one still.                                                              *)
LEMMA SegmentEndMoved ==
  ASSUME NEW h, NEW f, NEW a, NEW t, NEW n, Segment(h, f, a, t, n), NEW h2, NEW f2,
         NEW p \in DOMAIN h, p <= t, NEW q \in Int, p = q \/ q - p >= MinChunk,
         NEW n2 \in Int, n2 > 0, NEW e \in Int, q + n2 = e, e + TopFoot <= HeapEnd,
         TopMoved(h, f, h2, f2, p, q, n2, e)
  PROVE  Segment(h2, f2, a, q, n2) /\ BeforeTop(h, h2, t, p, q)
<1>1. /\ a \in Int /\ t \in Int /\ n \in Int /\ DOMAIN h \subseteq Int /\ DOMAIN f \subseteq Int
      /\ Words(h) /\ Tiles(h, f, a, t) /\ HeapStart <= a /\ t + n + TopFoot <= HeapEnd /\ 0 < n
      /\ Words(h2)
  BY SegmentIs DEF TopMoved
<1>2. e \in Int /\ q + n2 = e /\ e + TopFoot <= HeapEnd
  OBVIOUS
<1>3. p \in Int /\ a <= p /\ p <= q /\ q < e
  BY <1>1, <1>2, ListsAssumption DEF Segment
<1>4. Tiles(h, f, a, p)
  BY <1>1, <1>3, TilesSplit
<1>5. \A x \in Int : x < p => (x \in DOMAIN h2 <=> x \in DOMAIN h)
  BY <1>1, <1>2, <1>3 DEF TopMoved
<1>6. \A x \in DOMAIN h : x < p => h2[x] = h[x]
  BY DEF TopMoved
<1>7. h2[p].pinuse = h[p].pinuse
  BY <1>1 DEF TopMoved, Words
<1>8. Tiles(h2, f2, a, p)
  <2>1. \A x \in Int : a <= x /\ x <= p => (x \in DOMAIN h2 <=> x \in DOMAIN h)
    <3> TAKE x \in Int
    <3>1. CASE x = p
      BY <3>1 DEF TopMoved
    <3>2. CASE x < p
      BY <1>5, <3>2
    <3> QED  BY <1>3, <3>1, <3>2
  <2>2. \A x \in DOMAIN h : a < x /\ x < p => h2[x] = h[x]
    BY <1>6
  <2>3. a < p => /\ h2[a].size = h[a].size /\ h2[a].cinuse = h[a].cinuse
                 /\ h2[a].cinuse \/ h2[a].pinuse
                 /\ h2[p].pinuse = h[p].pinuse
    <3> SUFFICES ASSUME a < p
                 PROVE  /\ h2[a].size = h[a].size /\ h2[a].cinuse = h[a].cinuse
                        /\ h2[a].cinuse \/ h2[a].pinuse
                        /\ h2[p].pinuse = h[p].pinuse
      OBVIOUS
    <3>1. a \in DOMAIN h /\ h2[a] = h[a]
      BY <1>4, <1>6 DEF Tiles
    <3>2. h[a].pinuse
      BY DEF Segment
    <3> QED  BY <1>7, <3>1, <3>2
  <2>4. \A x \in DOMAIN f : a < x /\ x <= p => x \in DOMAIN f2 /\ f2[x] = f[x]
    BY DEF TopMoved
  <2> QED  BY <1>1, <1>4, <2>1, <2>2, <2>3, <2>4, TilesFrame
<1>9. h2[q].size = n2 /\ ~h2[q].cinuse /\ h2[q].pinuse /\ q \in DOMAIN h2
  BY DEF TopMoved, Tag
<1>10. Tiles(h2, f2, p, q)
  <2>1. CASE p = q
    BY <1>1, <1>3, <2>1 DEF Tiles, TopMoved, Words
  <2>2. CASE p # q
    <3>1. p < q /\ q - p >= MinChunk /\ p \in DOMAIN h2
      BY <1>3, <2>2 DEF TopMoved
    <3>2. h2[p].size = q - p /\ h2[p].cinuse /\ q \in DOMAIN f2 /\ f2[q] = Magic
      BY <3>1 DEF TopMoved
    <3>3. End(h2, p) = q
      BY <1>3, <3>2 DEF End
    <3>4. \A x \in DOMAIN h2 : x <= p \/ x >= End(h2, p)
      BY <1>1, <1>2, <1>3, <3>3 DEF TopMoved
    <3>5. h2[End(h2, p)].pinuse = h2[p].cinuse
      BY <1>1, <1>9, <3>1, <3>2, <3>3 DEF Words
    <3>6. End(h2, p) \in DOMAIN f2 /\ f2[End(h2, p)] = IF h2[p].cinuse THEN Magic ELSE h2[p].size
      BY <3>2, <3>3
    <3>7. End(h2, p) \in DOMAIN h2 /\ End(h2, p) <= q /\ h2[p].size >= MinChunk
      BY <1>9, <3>1, <3>2, <3>3
    <3>8. GoodChunk(h2, f2, p, q)
      BY <3>2, <3>4, <3>5, <3>6, <3>7 DEF GoodChunk
    <3> QED  BY <1>1, <3>1, <3>3, <3>8, OneTile
  <2> QED  BY <2>1, <2>2
<1>11. Tiles(h2, f2, a, q)
  BY <1>1, <1>8, <1>10, TilesJoin
<1>12. h2[a].pinuse
  <2>1. h[a].pinuse /\ a \in DOMAIN h
    BY DEF Segment, Tiles
  <2>2. CASE a = p
    BY <1>7, <2>1, <2>2
  <2>3. CASE a # p
    BY <1>3, <1>6, <2>1, <2>3, <1>1
  <2> QED  BY <2>2, <2>3
<1>13. \A x \in DOMAIN h2 : a <= x /\ (x <= q \/ x = e)
  <2> TAKE x \in DOMAIN h2
  <2>1. (x \in DOMAIN h /\ x < p) \/ x = p \/ x = q \/ x = e
    BY <1>2 DEF TopMoved
  <2>2. x \in DOMAIN h => a <= x
    BY DEF Segment
  <2> QED  BY <1>1, <1>3, <2>1, <2>2
<1>14. \A x \in DOMAIN f2 : x \in Int /\ a <= x /\ x <= q /\ f2[x] \in {Magic} \cup 1 .. HeapSize
  <2> TAKE x \in DOMAIN f2
  <2>1. CASE x \in DOMAIN f /\ x <= p /\ f2[x] = f[x]
    <3>1. x \in Int /\ a <= x /\ f[x] \in {Magic} \cup 1 .. HeapSize
      BY <2>1 DEF Segment
    <3> QED  BY <1>3, <2>1, <3>1
  <2>2. CASE x = q /\ f2[x] = Magic
    BY <1>1, <1>3, <2>2
  <2> QED  BY <2>1, <2>2 DEF TopMoved
<1>15. Segment(h2, f2, a, q, n2)
  <2>1. e \in DOMAIN h2 /\ h2[e] = Tag(TopFoot, FALSE, FALSE) /\ h2[q] = Tag(n2, FALSE, TRUE)
    BY <1>2 DEF TopMoved
  <2>2. q + n2 = e
    BY <1>2
  <2> QED  BY <1>1, <1>2, <1>11, <1>12, <1>13, <1>14, <2>1, <2>2 DEF Segment
<1>16. ~h2[e].cinuse
  BY <1>2 DEF TopMoved, Tag
<1>17. ASSUME NEW x
       PROVE  x \in UsedIn(h2) <=> x \in {y \in UsedIn(h) : y < p} \cup (IF p < q THEN {p} ELSE {})
  <2>1. CASE x \in Int /\ x < p
    BY <1>3, <1>5, <1>6, <2>1 DEF UsedIn
  <2>2. CASE x = p /\ p < q
    BY <1>3, <2>2 DEF UsedIn, TopMoved
  <2>3. CASE x = p /\ p = q
    BY <1>3, <1>9, <2>3 DEF UsedIn
  <2>4. CASE ~(x \in Int /\ x < p) /\ x # p
    <3>1. x \in DOMAIN h2 => x = q \/ x = e
      BY <1>1, <1>2, <2>4 DEF TopMoved
    <3>2. x \notin UsedIn(h2)
      BY <1>9, <1>16, <3>1 DEF UsedIn
    <3> QED  BY <1>1, <2>4, <3>2 DEF UsedIn
  <2> QED  BY <1>3, <2>1, <2>2, <2>3, <2>4
<1>18. ASSUME NEW x PROVE x \in FreeIn(h2, q) <=> x \in {y \in FreeIn(h, t) : y < p}
  <2>1. CASE x \in Int /\ x < p
    BY <1>1, <1>3, <1>5, <1>6, <2>1 DEF FreeIn
  <2>2. CASE x = p
    BY <1>3, <2>2 DEF FreeIn, TopMoved
  <2>3. CASE ~(x \in Int /\ x < p) /\ x # p
    <3>1. x \in DOMAIN h2 => x = q \/ x = e
      BY <1>1, <1>2, <2>3 DEF TopMoved
    <3> QED  BY <1>1, <1>3, <2>3, <3>1 DEF FreeIn
  <2> QED  BY <2>1, <2>2, <2>3
<1>19. UsedIn(h2) = {x \in UsedIn(h) : x < p} \cup (IF p < q THEN {p} ELSE {})
  BY <1>17, Zenon
<1>20. FreeIn(h2, q) = {x \in FreeIn(h, t) : x < p}
  BY <1>18, Zenon
<1>21. \A x \in DOMAIN h : x < p => h2[x].size = h[x].size
  BY <1>6
<1> QED  BY <1>15, <1>19, <1>20, <1>21 DEF BeforeTop

(* The same for a top chunk that ends where the old one did.               *)
LEMMA SegmentTopMoved ==
  ASSUME NEW h, NEW f, NEW a, NEW t, NEW n, Segment(h, f, a, t, n), NEW h2, NEW f2,
         NEW p \in DOMAIN h, p <= t, NEW q \in Int, p = q \/ q - p >= MinChunk,
         NEW n2 \in Int, n2 > 0, q + n2 = t + n,
         TopMoved(h, f, h2, f2, p, q, n2, t + n)
  PROVE  Segment(h2, f2, a, q, n2) /\ BeforeTop(h, h2, t, p, q)
<1>1. PICK e : e = t + n
  OBVIOUS
<1>2. t \in Int /\ n \in Int /\ t + n + TopFoot <= HeapEnd
  BY SegmentIs
<1>3. e \in Int /\ q + n2 = e /\ e + TopFoot <= HeapEnd /\ TopMoved(h, f, h2, f2, p, q, n2, e)
  BY <1>1, <1>2
<1> QED  BY <1>3, SegmentEndMoved

-----------------------------------------------------------------------------
(* Freeing                                                                 *)

(* What the operations on chunks may change.                               *)
ChunkFields == {"head", "foot", "bins", "dv", "dvsize", "top", "topsize"}

(* n is a sound heap made from m by such operations: the chunks of U are   *)
(* in use, and those of S have the size they had.                          *)
Became(m, n, U, S) ==
  /\ Grown(n) /\ UsedIn(n.head) = U /\ SizesKept(m.head, n.head, S)
  /\ Keeps(m, n, ChunkFields)

(* The span from q to r is to be freed.  At q may be a free chunk that is  *)
(* in no list, or the designated victim.                                   *)
Freeing(m, q, r) ==
  /\ Sound(m, FreeIn(m.head, m.top) \ ({q} \ {m.dv}))
  /\ q \in DOMAIN m.head /\ UsedBefore(m.head, q)
  /\ r \in DOMAIN m.head /\ r <= m.top /\ UsedBefore(m.head, r)
  /\ r - q >= MinChunk
  /\ \A x \in FreeIn(m.head, m.top) : q <= x /\ x < r => x = q

(* What a sound heap has, for the proofs that expand no definition of it.  *)
LEMMA SoundIs ==
  ASSUME NEW m, NEW F, Sound(m, F)
  PROVE  /\ DOMAIN m = HeapFields /\ m.ok = TRUE /\ DOMAIN m.bins = MinChunk .. HeapSize
         /\ m.top # NULL /\ Listed(m, F, m.head) /\ Counted(m)
         /\ Segment(m.head, m.foot, m.segbase, m.top, m.topsize)
         /\ Words(m.head) /\ DOMAIN m.head \subseteq Int /\ DOMAIN m.foot \subseteq Int
         /\ m.top \in Int /\ m.topsize \in Int /\ m.segbase \in Int
BY SegmentIs DEF Sound

(* Chunks of a segment are in the heap, and so are their distances.        *)
LEMMA SpanIs ==
  ASSUME NEW h, NEW f, NEW a, NEW t, NEW n, Segment(h, f, a, t, n),
         NEW q \in DOMAIN h, NEW r \in DOMAIN h, r <= t, r - q >= MinChunk
  PROVE  /\ q \in Int /\ r \in Int /\ r - q \in Int /\ q < r /\ q # NULL /\ r - q > 0 /\ q < t
         /\ r - q \in MinChunk .. HeapSize
<1>1. /\ q \in Int /\ r \in Int /\ a <= q /\ t \in Int /\ n \in Int /\ n > 0
      /\ HeapStart <= a /\ t + n + TopFoot <= HeapEnd /\ a \in Int
  <2>1. a <= q
    BY DEF Segment
  <2> QED  BY <2>1, SegmentIs
<1> QED  BY <1>1, HeapAssumption, ListsAssumption, TagsAssumption DEF HeapEnd, NULL

(* A heap made from a sound one by operations on chunks is sound if its    *)
(* segment and its lists are.                                              *)
LEMMA SoundAgain ==
  ASSUME NEW m, NEW G, Sound(m, G), NEW n, NEW F, Keeps(m, n, ChunkFields),
         DOMAIN n.bins = DOMAIN m.bins, n.top # NULL, n.top + n.topsize = m.top + m.topsize,
         Segment(n.head, n.foot, m.segbase, n.top, n.topsize), Listed(n, F, n.head)
  PROVE  Sound(n, F)
<1>1. /\ DOMAIN n = HeapFields
      /\ n.ok = m.ok /\ n.segbase = m.segbase /\ n.segsize = m.segsize /\ n.brk = m.brk
      /\ n.footprint = m.footprint /\ n.max_footprint = m.max_footprint
      /\ n.trim_check = m.trim_check /\ n.contiguous = m.contiguous
  BY DEF Keeps, HeapFields, ChunkFields
<1>2. Counted(n)
  BY <1>1 DEF Sound, Counted
<1> QED  BY <1>1, <1>2 DEF Sound

(* The designated victim changed, the lists did not.                       *)
LEMMA DvListed ==
  ASSUME NEW n, NEW F, NEW h, Binned(n.bins, F \ {n.dv}, h),
         NEW h2, \A x \in F \ {n.dv} : h2[x].size = h[x].size, n.dv # NULL, n.dv \in F,
         h2[n.dv].size = n.dvsize, n.dvsize # 0
  PROVE  Listed(n, F, h2)
<1>1. Binned(n.bins, F \ {n.dv}, h2)
  BY BinnedFrame
<1> QED  BY <1>1 DEF Listed

(* The heap after the span from q to r became one free chunk.              *)
LEMMA SpanFreed ==
  ASSUME NEW m, NEW G, Sound(m, G), NEW q \in DOMAIN m.head, NEW r \in UsedIn(m.head),
         r <= m.top, r - q >= MinChunk, UsedBefore(m.head, q),
         NEW n, Keeps(m, n, ChunkFields), n.top = m.top, n.topsize = m.topsize,
         DOMAIN n.bins = DOMAIN m.bins, Whole(m.head, m.foot, n.head, n.foot, q, r, FALSE),
         Listed(n, (FreeIn(m.head, m.top) \ (q .. r-1)) \cup {q}, n.head)
  PROVE  Became(m, n, UsedIn(m.head) \ (q .. r-1), UsedIn(m.head) \ (q .. r-1))
<1>0. PICK F, U : /\ F = (FreeIn(m.head, m.top) \ (q .. r-1)) \cup {q}
                  /\ U = UsedIn(m.head) \ (q .. r-1)
  OBVIOUS
<1>1. /\ Segment(n.head, n.foot, m.segbase, m.top, m.topsize)
      /\ UsedIn(n.head) = (UsedIn(m.head) \ (q .. r-1)) \cup {}
      /\ FreeIn(n.head, m.top) = F
      /\ \A x \in DOMAIN m.head : x \notin q .. r-1 => n.head[x].size = m.head[x].size
  <2>1. Segment(m.head, m.foot, m.segbase, m.top, m.topsize)
    BY SoundIs
  <2>2. Segment(n.head, n.foot, m.segbase, m.top, m.topsize) /\ OneChunk(m.head, n.head, m.top, q, r, FALSE)
    BY <2>1, HeapFreed
  <2> QED  BY <1>0, <2>2 DEF OneChunk
<1>2. Sound(n, F)
  <2>1. m.top # NULL
    BY DEF Sound
  <2>2. Listed(n, F, n.head)
    BY <1>0
  <2>3. Segment(n.head, n.foot, m.segbase, n.top, n.topsize)
    BY <1>1
  <2> QED  BY <2>1, <2>2, <2>3, SoundAgain
<1>3. Grown(n)
  BY <1>1, <1>2 DEF Grown
<1>4. SizesKept(m.head, n.head, U)
  BY <1>0, <1>1 DEF SizesKept, UsedIn
<1>5. UsedIn(n.head) = U
  BY <1>0, <1>1
<1> QED  BY <1>0, <1>3, <1>4, <1>5 DEF Became

(* What is known of a span that is to be freed.                            *)
LEMMA FreeingIs ==
  ASSUME NEW m, NEW q, NEW r, Freeing(m, q, r)
  PROVE  /\ DOMAIN m = HeapFields /\ Words(m.head) /\ DOMAIN m.foot \subseteq Int
         /\ DOMAIN m.bins = MinChunk .. HeapSize /\ m.top # NULL
         /\ q \in DOMAIN m.head /\ r \in DOMAIN m.head /\ r <= m.top
         /\ UsedBefore(m.head, q) /\ UsedBefore(m.head, r)
         /\ q \in Int /\ r \in Int /\ r - q \in Int /\ q < r /\ q # NULL /\ r - q > 0 /\ q < m.top
         /\ r - q \in MinChunk .. HeapSize /\ r - q >= MinChunk /\ m.top \in Int
         /\ Segment(m.head, m.foot, m.segbase, m.top, m.topsize)
         /\ Listed(m, FreeIn(m.head, m.top) \ ({q} \ {m.dv}), m.head)
<1>1. Sound(m, FreeIn(m.head, m.top) \ ({q} \ {m.dv}))
  BY DEF Freeing
<1>2. /\ q \in DOMAIN m.head /\ UsedBefore(m.head, q)
      /\ r \in DOMAIN m.head /\ r <= m.top /\ UsedBefore(m.head, r)
      /\ r - q >= MinChunk
  BY DEF Freeing
<1>3. Segment(m.head, m.foot, m.segbase, m.top, m.topsize)
  BY <1>1, SoundIs
<1>4. /\ q \in Int /\ r \in Int /\ r - q \in Int /\ q < r /\ q # NULL /\ r - q > 0 /\ q < m.top
      /\ r - q \in MinChunk .. HeapSize
  BY <1>2, <1>3, SpanIs
<1> QED  BY <1>1, <1>2, <1>3, <1>4, SoundIs

(* The chunk after the span is in use.                                     *)
LEMMA FreeBeforeUsed ==
  ASSUME NEW m, NEW q, NEW r, Freeing(m, q, r), r \in UsedIn(m.head), q # m.dv,
         NEW n, n = InsertChunk(SetFreeWithPinuse(m, q, r - q, r), q, r - q),
         NEW U, U = UsedIn(m.head) \ (q .. r-1)
  PROVE  Became(m, n, U, U)
<1>1. /\ DOMAIN m = HeapFields /\ Words(m.head) /\ DOMAIN m.foot \subseteq Int
      /\ DOMAIN m.bins = MinChunk .. HeapSize /\ m.top # NULL
      /\ q \in DOMAIN m.head /\ r \in DOMAIN m.head /\ r <= m.top
      /\ UsedBefore(m.head, q) /\ UsedBefore(m.head, r)
      /\ q \in Int /\ r \in Int /\ q < r /\ q # NULL
      /\ r - q \in MinChunk .. HeapSize /\ r - q >= MinChunk
      /\ Segment(m.head, m.foot, m.segbase, m.top, m.topsize)
  BY FreeingIs
<1>2. PICK s \in Int : s = r - q /\ s > 0 /\ r = q + s
  BY <1>1
<1>3. PICK k : k = SetFreeWithPinuse(m, q, s, q + s)
  OBVIOUS
<1>4. /\ KeepsTags(m, k)
      /\ Laid(m.head, m.foot, k.head, k.foot, q, s, Tag(s, FALSE, TRUE), s)
      /\ Told(m.head, k.head, q + s, FALSE)
  BY <1>1, <1>2, <1>3, SetFreeWithPinuseIs
<1>5. Whole(m.head, m.foot, k.head, k.foot, q, r, FALSE)
  <2>1. Laid(m.head, m.foot, k.head, k.foot, q, s, Tag(s, FALSE, m.head[q].pinuse), Footer(FALSE, s))
    <3>1. m.head[q].pinuse = TRUE
      BY <1>1 DEF Words, UsedBefore
    <3>2. Footer(FALSE, s) = s
      BY DEF Footer
    <3> QED  BY <1>4, <3>1, <3>2
  <2>2. r \in DOMAIN k.head /\ k.head[r] = Tag(m.head[r].size, m.head[r].cinuse, FALSE)
    <3>1. Told(m.head, k.head, r, FALSE)
      BY <1>2, <1>4
    <3> QED  BY <1>1, <3>1, ToldFree
  <2> QED  BY <1>1, <1>2, <2>1, <2>2, LaidWhole
<1>13. OneChunk(m.head, k.head, m.top, q, r, FALSE)
  BY <1>1, <1>5, HeapFreed
<1>6. n = InsertChunk(k, q, s)
  BY <1>2, <1>3
<1>7. PICK F : F = FreeIn(m.head, m.top) \ {q}
  OBVIOUS
<1>8. Listed(k, F, k.head)
  <2>1. F = FreeIn(m.head, m.top) \ ({q} \ {m.dv})
    BY <1>7
  <2>2. Listed(m, F, m.head)
    BY <2>1 DEF Freeing, Sound
  <2>3. \A x \in F : k.head[x].size = m.head[x].size
    <3> TAKE x \in F
    <3>1. x \in FreeIn(m.head, m.top) /\ x # q /\ x \in Int /\ x \in DOMAIN m.head
      BY <1>1, <1>7, SegmentIs DEF FreeIn
    <3>2. x \notin q .. r-1
      BY <1>1, <3>1 DEF Freeing
    <3> QED  BY <1>13, <3>1, <3>2 DEF OneChunk
  <2>4. k.bins = m.bins /\ k.dv = m.dv /\ k.dvsize = m.dvsize
    BY <1>4 DEF KeepsTags, Keeps, HeapFields
  <2> QED  BY <2>2, <2>3, <2>4, ListedFrame
<1>9. /\ Keeps(k, n, {"bins"}) /\ DOMAIN n.bins = DOMAIN k.bins
      /\ Listed(n, F \cup {q}, k.head)
  <2>1. q \notin F /\ DOMAIN k = HeapFields /\ k.bins = m.bins
    BY <1>4, <1>7 DEF KeepsTags, Keeps, HeapFields
  <2>2. s \in DOMAIN k.bins /\ s >= MinChunk
    BY <1>1, <1>2, <2>1
  <2>3. k.head[q].size = s
    BY <1>2, <1>13 DEF OneChunk
  <2> QED  BY <1>1, <1>6, <1>8, <2>1, <2>2, <2>3, InsertListed
<1>10. /\ Keeps(m, n, ChunkFields) /\ n.head = k.head /\ n.foot = k.foot
       /\ n.top = m.top /\ n.topsize = m.topsize /\ DOMAIN n.bins = DOMAIN m.bins
  BY <1>4, <1>9 DEF KeepsTags, Keeps, HeapFields, ChunkFields
<1>11. F \cup {q} = (FreeIn(m.head, m.top) \ (q .. r-1)) \cup {q}
  <2>1. ASSUME NEW x \in FreeIn(m.head, m.top) PROVE x = q <=> x \in q .. r-1
    <3>1. x \in Int
      BY <1>1, SegmentIs DEF FreeIn
    <3> QED  BY <1>1, <2>1, <3>1 DEF Freeing
  <2> QED  BY <1>7, <2>1
<1>12. Sound(m, FreeIn(m.head, m.top) \ ({q} \ {m.dv}))
  BY DEF Freeing
<1>14. Listed(n, (FreeIn(m.head, m.top) \ (q .. r-1)) \cup {q}, n.head)
  BY <1>9, <1>10, <1>11
<1>15. Became(m, n, UsedIn(m.head) \ (q .. r-1), UsedIn(m.head) \ (q .. r-1))
  <2>1. Whole(m.head, m.foot, n.head, n.foot, q, r, FALSE)
    BY <1>5, <1>10
  <2> QED  BY <1>1, <1>10, <1>12, <1>14, <2>1, SpanFreed
<1> QED  BY <1>15

(* The chunk after the span is free, too, and ends at e.                   *)
Joined(m, q, r, e) ==
  /\ e \in UsedIn(m.head) /\ e \in DOMAIN m.head /\ e \in Int /\ e <= m.top
  /\ ~UsedBefore(m.head, e) /\ r # q
  /\ m.head[r].size \in Int /\ e - q = r - q + m.head[r].size
  /\ e - q >= MinChunk /\ e - q \in MinChunk .. HeapSize /\ e - q > 0
  /\ FreeIn(m.head, m.top) \ (q .. e-1) = FreeIn(m.head, m.top) \ {q, r}
  /\ UsedIn(m.head) \ (q .. e-1) = UsedIn(m.head) \ (q .. r-1)

(* The free chunk after the span ends before a chunk in use or at the top. *)
LEMMA SpanAndNext ==
  ASSUME NEW m, NEW q, NEW r, Freeing(m, q, r), r \in FreeIn(m.head, m.top),
         NEW e, e = End(m.head, r)
  PROVE  Joined(m, q, r, e)
<1>1. /\ Words(m.head) /\ q \in DOMAIN m.head /\ r \in DOMAIN m.head /\ r <= m.top
      /\ q \in Int /\ r \in Int /\ q < r /\ r - q >= MinChunk /\ m.top \in Int
      /\ Segment(m.head, m.foot, m.segbase, m.top, m.topsize)
  BY FreeingIs
<1>2. e \in DOMAIN m.head /\ e < m.top /\ m.head[e].cinuse /\ ~m.head[e].pinuse
  BY <1>1, FreeNeighbour
<1>3. /\ GoodChunk(m.head, m.foot, r, m.top) /\ m.head[r].size \in Int /\ e \in Int /\ r < e
      /\ m.head[r].size \in MinChunk .. HeapSize
  BY <1>1, ChunkIs DEF FreeIn
<1>4. \A x \in DOMAIN m.head : x <= r \/ x >= e
  BY <1>3 DEF GoodChunk
<1>5. e - q = r - q + m.head[r].size
  BY <1>1, <1>3 DEF End
<1>6. e - q >= MinChunk
  BY <1>1, <1>3, ListsAssumption
<1>7. e - q \in MinChunk .. HeapSize /\ e - q > 0
  BY <1>1, <1>2, <1>3, <1>6, SpanIs
<1>8. DOMAIN m.head \subseteq Int
  BY <1>1 DEF Words
<1>9. ASSUME NEW x \in FreeIn(m.head, m.top) PROVE x \in q .. e-1 <=> x \in {q, r}
  <2>1. x \in Int /\ x \in DOMAIN m.head
    BY <1>8 DEF FreeIn
  <2>2. q <= x /\ x < r => x = q
    BY <1>9 DEF Freeing
  <2> QED  BY <1>1, <1>3, <1>4, <2>1, <2>2
<1>10. ASSUME NEW x \in UsedIn(m.head) PROVE x \in q .. e-1 <=> x \in q .. r-1
  <2>1. x \in Int /\ x \in DOMAIN m.head
    BY <1>8 DEF UsedIn
  <2>2. x # r
    BY DEF UsedIn, FreeIn
  <2> QED  BY <1>1, <1>3, <1>4, <2>1, <2>2
<1>11. ~UsedBefore(m.head, e) /\ e \in UsedIn(m.head) /\ e <= m.top /\ r # q
  BY <1>1, <1>2, <1>3 DEF UsedBefore, UsedIn
<1>12. FreeIn(m.head, m.top) \ (q .. e-1) = FreeIn(m.head, m.top) \ {q, r}
  BY <1>9
<1>13. UsedIn(m.head) \ (q .. e-1) = UsedIn(m.head) \ (q .. r-1)
  BY <1>10
<1> QED  BY <1>2, <1>3, <1>5, <1>6, <1>7, <1>11, <1>12, <1>13, Zenon DEF Joined

(* The span and what follows it become one free chunk.                     *)
LEMMA FreeSpan ==
  ASSUME NEW m, DOMAIN m = HeapFields, Segment(m.head, m.foot, m.segbase, m.top, m.topsize),
         NEW q \in DOMAIN m.head, NEW e \in UsedIn(m.head), e <= m.top, e - q >= MinChunk,
         UsedBefore(m.head, q), ~UsedBefore(m.head, e), NEW s, s = e - q,
         NEW n, n = SetSizeAndPinuseOfFreeChunk(m, q, s)
  PROVE  KeepsTags(m, n) /\ Whole(m.head, m.foot, n.head, n.foot, q, e, FALSE)
<1>1. e \in DOMAIN m.head
  BY DEF UsedIn
<1>2. /\ s \in Int /\ s > 0 /\ q \in Int /\ e \in Int /\ Words(m.head) /\ DOMAIN m.foot \subseteq Int
      /\ e = q + s
  BY <1>1, SpanIs, SegmentIs
<1>3. /\ KeepsTags(m, n)
      /\ Laid(m.head, m.foot, n.head, n.foot, q, s, Tag(s, FALSE, TRUE), s)
      /\ Untold(m.head, n.head, q + s)
  BY <1>2, SetSizeAndPinuseOfFreeChunkIs
<1>4. Laid(m.head, m.foot, n.head, n.foot, q, s, Tag(s, FALSE, m.head[q].pinuse), Footer(FALSE, s))
  <2>1. m.head[q].pinuse = TRUE
    BY <1>2 DEF Words, UsedBefore
  <2>2. Footer(FALSE, s) = s
    BY DEF Footer
  <2> QED  BY <1>3, <2>1, <2>2
<1>5. e \in DOMAIN n.head /\ n.head[e] = Tag(m.head[e].size, m.head[e].cinuse, FALSE)
  <2>1. Untold(m.head, n.head, e)
    BY <1>2, <1>3
  <2>2. m.head[e] = Tag(m.head[e].size, m.head[e].cinuse, FALSE)
    BY <1>1, <1>2 DEF Words, Tag, UsedBefore
  <2> QED  BY <1>1, <2>1, <2>2, Zenon DEF Untold
<1>6. Whole(m.head, m.foot, n.head, n.foot, q, e, FALSE)
  BY <1>1, <1>2, <1>4, <1>5, LaidWhole
<1> QED  BY <1>3, <1>6

(* The chunk after the span is the designated victim.                      *)
LEMMA FreeBeforeDv ==
  ASSUME NEW m, NEW q, NEW r, Freeing(m, q, r), r \in FreeIn(m.head, m.top), r = m.dv,
         NEW s, s = r - q + m.head[r].size,
         NEW k, Keeps(m, k, {"dv", "dvsize"}), k.dv = q, k.dvsize = s,
         NEW n, n = SetSizeAndPinuseOfFreeChunk(k, q, s),
         NEW U, U = UsedIn(m.head) \ (q .. r-1)
  PROVE  Became(m, n, U, U)
<1>1. /\ DOMAIN m = HeapFields /\ Words(m.head) /\ DOMAIN m.bins = MinChunk .. HeapSize
      /\ q \in DOMAIN m.head /\ q # NULL /\ UsedBefore(m.head, q) /\ q \in Int
      /\ Segment(m.head, m.foot, m.segbase, m.top, m.topsize)
      /\ Listed(m, FreeIn(m.head, m.top) \ ({q} \ {m.dv}), m.head)
  BY FreeingIs
<1>2. PICK e : e = End(m.head, r)
  OBVIOUS
<1>3. /\ e \in UsedIn(m.head) /\ e \in DOMAIN m.head /\ e <= m.top /\ e \in Int
      /\ ~UsedBefore(m.head, e) /\ r # q /\ s = e - q /\ s >= MinChunk /\ s > 0 /\ s \in MinChunk .. HeapSize
      /\ FreeIn(m.head, m.top) \ (q .. e-1) = FreeIn(m.head, m.top) \ {q, r}
      /\ UsedIn(m.head) \ (q .. e-1) = UsedIn(m.head) \ (q .. r-1)
  <2>1. Joined(m, q, r, e)
    BY <1>2, SpanAndNext
  <2> QED  BY <2>1 DEF Joined
<1>5. /\ DOMAIN k = HeapFields /\ k.head = m.head /\ k.foot = m.foot
      /\ k.bins = m.bins /\ k.top = m.top /\ k.topsize = m.topsize /\ k.segbase = m.segbase
  BY DEF Keeps, HeapFields
<1>6. KeepsTags(k, n) /\ Whole(k.head, k.foot, n.head, n.foot, q, e, FALSE)
  BY <1>1, <1>3, <1>5, FreeSpan
<1>7. /\ Keeps(m, n, ChunkFields) /\ Whole(m.head, m.foot, n.head, n.foot, q, e, FALSE)
      /\ n.top = m.top /\ n.topsize = m.topsize /\ n.bins = m.bins /\ n.dv = q /\ n.dvsize = s
  BY <1>5, <1>6 DEF KeepsTags, Keeps, HeapFields, ChunkFields
<1>8. OneChunk(m.head, n.head, m.top, q, e, FALSE)
  BY <1>1, <1>3, <1>7, HeapFreed
<1>9. PICK F : F = (FreeIn(m.head, m.top) \ (q .. e-1)) \cup {q}
  OBVIOUS
<1>10. Listed(n, F, n.head)
  <2>1. F \ {n.dv} = (FreeIn(m.head, m.top) \ ({q} \ {m.dv})) \ {m.dv}
    BY <1>3, <1>7, <1>9
  <2>2. Binned(n.bins, F \ {n.dv}, m.head)
    BY <1>1, <1>7, <2>1 DEF Listed
  <2>3. \A x \in F \ {n.dv} : n.head[x].size = m.head[x].size
    BY <1>3, <1>7, <1>8, <1>9 DEF OneChunk, FreeIn
  <2>4. n.head[q].size = s
    BY <1>3, <1>8 DEF OneChunk
  <2>5. n.dv # NULL /\ n.head[n.dv].size = n.dvsize /\ n.dvsize # 0
    <3>1. n.dv = q /\ n.dvsize = s
      BY <1>7
    <3>2. q # NULL /\ s # 0
      BY <1>1, <1>3
    <3> QED  BY <2>4, <3>1, <3>2, Zenon
  <2>6. n.dv \in F
    BY <1>7, <1>9
  <2> QED  BY <2>2, <2>3, <2>5, <2>6, DvListed
<1>11. Sound(m, FreeIn(m.head, m.top) \ ({q} \ {m.dv})) /\ DOMAIN n.bins = DOMAIN m.bins
  BY <1>7 DEF Freeing
<1>12. Became(m, n, UsedIn(m.head) \ (q .. e-1), UsedIn(m.head) \ (q .. e-1))
  BY <1>1, <1>3, <1>7, <1>9, <1>10, <1>11, SpanFreed
<1> QED  BY <1>3, <1>12

(* A free chunk is filed after its size changed.                           *)
LEMMA FileMergedIs ==
  ASSUME NEW l, DOMAIN l = HeapFields, NEW H, NEW h, Listed(l, H, h), NEW q \in Int, q # NULL,
         q \notin H \ {l.dv}, NEW s \in DOMAIN l.bins, s \in Int, s >= MinChunk,
         NEW h2, h2[q].size = s, \A x \in H \ {q} : h2[x].size = h[x].size,
         NEW n, n = FileMerged(l, q, s)
  PROVE  /\ Keeps(l, n, {"bins", "dvsize"}) /\ DOMAIN n.bins = DOMAIN l.bins
         /\ Listed(n, H \cup {q}, h2)
<1>0. PICK F : F = H \cup {q}
  OBVIOUS
<1>1. CASE q = l.dv
  <2>1. n = [l EXCEPT !.dvsize = s]
    BY <1>1 DEF FileMerged
  <2>2. Keeps(l, n, {"bins", "dvsize"}) /\ n.bins = l.bins /\ n.dv = q /\ n.dvsize = s
    BY <1>1, <2>1 DEF Keeps, HeapFields
  <2>3. q \in H
    BY <1>1 DEF Listed
  <2>4. F = H
    BY <1>0, <2>3
  <2>5. Binned(l.bins, F \ {q}, h)
    BY <1>1, <2>4 DEF Listed
  <2>6. Binned(n.bins, F \ {n.dv}, h)
    BY <2>2, <2>5
  <2>7. \A x \in F \ {n.dv} : h2[x].size = h[x].size
    BY <2>2, <2>4
  <2>8. n.dv # NULL /\ n.dv \in F /\ n.dvsize # 0
    BY <2>2, <2>3, <2>4, ListsAssumption
  <2>9. h2[n.dv].size = n.dvsize
    BY <2>2
  <2>10. Listed(n, F, h2)
    BY <2>6, <2>7, <2>8, <2>9, DvListed
  <2> QED  BY <1>0, <2>2, <2>10
<1>2. CASE q # l.dv
  <2>1. n = InsertChunk(l, q, s)
    BY <1>2 DEF FileMerged
  <2>2. q \notin H
    BY <1>2
  <2>3. Listed(l, H, h2)
    <3>1. \A x \in H : h2[x].size = h[x].size
      BY <2>2
    <3> QED  BY <3>1, ListedFrame
  <2>4. Keeps(l, n, {"bins"}) /\ DOMAIN n.bins = DOMAIN l.bins /\ Listed(n, H \cup {q}, h2)
    BY <2>1, <2>2, <2>3, InsertListed
  <2>5. Keeps(l, n, {"bins", "dvsize"})
    BY <2>4 DEF Keeps
  <2> QED  BY <2>4, <2>5
<1> QED  BY <1>1, <1>2

(* The chunk after the span is in a bin, and was unlinked from it: k.      *)
LEMMA FreeBeforeBinned ==
  ASSUME NEW m, NEW q, NEW r, Freeing(m, q, r), r \in FreeIn(m.head, m.top), r # m.dv,
         NEW s, s = r - q + m.head[r].size,
         NEW k, k = UnlinkChunk(m, r, m.head[r].size),
         NEW l, l = SetSizeAndPinuseOfFreeChunk(k, q, s),
         NEW n, n = FileMerged(l, q, s),
         NEW U, U = UsedIn(m.head) \ (q .. r-1)
  PROVE  Became(m, n, U, U)
<1>1. /\ DOMAIN m = HeapFields /\ Words(m.head) /\ DOMAIN m.bins = MinChunk .. HeapSize
      /\ q \in DOMAIN m.head /\ q # NULL /\ UsedBefore(m.head, q) /\ q \in Int
      /\ Segment(m.head, m.foot, m.segbase, m.top, m.topsize)
      /\ Listed(m, FreeIn(m.head, m.top) \ ({q} \ {m.dv}), m.head)
  BY FreeingIs
<1>2. PICK e : e = End(m.head, r)
  OBVIOUS
<1>3. /\ e \in UsedIn(m.head) /\ e \in DOMAIN m.head /\ e <= m.top /\ e \in Int
      /\ ~UsedBefore(m.head, e) /\ r # q /\ s = e - q /\ s >= MinChunk /\ s > 0 /\ s \in MinChunk .. HeapSize
      /\ FreeIn(m.head, m.top) \ (q .. e-1) = FreeIn(m.head, m.top) \ {q, r}
      /\ UsedIn(m.head) \ (q .. e-1) = UsedIn(m.head) \ (q .. r-1)
  <2>1. Joined(m, q, r, e)
    BY <1>2, SpanAndNext
  <2> QED  BY <2>1 DEF Joined
<1>4. PICK G : G = FreeIn(m.head, m.top) \ ({q} \ {m.dv})
  OBVIOUS
<1>0. PICK H : H = G \ {r}
  OBVIOUS
<1>5. Keeps(m, k, {"bins"}) /\ DOMAIN k.bins = DOMAIN m.bins /\ Listed(k, H, m.head)
  <2>1. r \in G /\ Listed(m, G, m.head)
    BY <1>1, <1>3, <1>4
  <2>2. PICK z : z = m.head[r].size
    OBVIOUS
  <2>3. k = UnlinkChunk(m, r, z)
    BY <2>2
  <2>4. Keeps(m, k, {"bins"}) /\ DOMAIN k.bins = DOMAIN m.bins /\ Listed(k, G \ {r}, m.head)
    BY <1>1, <2>1, <2>2, <2>3, UnlinkListed
  <2> QED  BY <1>0, <2>4
<1>6. /\ DOMAIN k = HeapFields /\ k.head = m.head /\ k.foot = m.foot /\ k.dv = m.dv
      /\ k.top = m.top /\ k.topsize = m.topsize /\ k.segbase = m.segbase
  BY <1>5 DEF Keeps, HeapFields
<1>7. KeepsTags(k, l) /\ Whole(k.head, k.foot, l.head, l.foot, q, e, FALSE)
  BY <1>1, <1>3, <1>6, FreeSpan
<1>8. /\ Keeps(m, l, {"bins", "head", "foot"}) /\ Whole(m.head, m.foot, l.head, l.foot, q, e, FALSE)
      /\ l.bins = k.bins /\ l.dv = m.dv /\ l.dvsize = k.dvsize /\ k.dvsize = m.dvsize /\ DOMAIN l = HeapFields
  BY <1>5, <1>6, <1>7 DEF KeepsTags, Keeps, HeapFields
<1>9. OneChunk(m.head, l.head, m.top, q, e, FALSE)
  BY <1>1, <1>3, <1>8, HeapFreed
<1>10. l.head[q].size = s
  BY <1>3, <1>9 DEF OneChunk
<1>11. PICK F : F = (FreeIn(m.head, m.top) \ (q .. e-1)) \cup {q}
  OBVIOUS
<1>12. \A x \in F \ {q} : l.head[x].size = m.head[x].size
  BY <1>9, <1>11 DEF OneChunk, FreeIn
<1>13. /\ Keeps(l, n, {"bins", "dvsize"}) /\ DOMAIN n.bins = DOMAIN l.bins
       /\ Listed(n, F, l.head)
  <2>1. F = H \cup {q} /\ q \notin H \ {l.dv}
    BY <1>0, <1>3, <1>4, <1>8, <1>11
  <2>2. \A x \in H \ {q} : l.head[x].size = m.head[x].size
    BY <1>12, <2>1
  <2>3. Listed(l, H, m.head)
    <3>1. \A x \in H : m.head[x].size = m.head[x].size
      OBVIOUS
    <3> QED  BY <1>5, <1>6, <1>8, <3>1, ListedFrame
  <2>4. s \in DOMAIN l.bins
    BY <1>1, <1>3, <1>5, <1>8
  <2>5. /\ Keeps(l, n, {"bins", "dvsize"}) /\ DOMAIN n.bins = DOMAIN l.bins
        /\ Listed(n, H \cup {q}, l.head)
    <3>1. DOMAIN l = HeapFields /\ q \in Int /\ q # NULL /\ s \in Int /\ s >= MinChunk
      BY <1>1, <1>3, <1>8
    <3>2. q \notin H \ {l.dv}
      BY <2>1
    <3>3. PICK h, h2 : h = m.head /\ h2 = l.head
      OBVIOUS
    <3>4. h2[q].size = s /\ Listed(l, H, h)
      BY <1>10, <2>3, <3>3
    <3>5. \A x \in H \ {q} : h2[x].size = h[x].size
      BY <2>2, <3>3
    <3>6. /\ Keeps(l, n, {"bins", "dvsize"}) /\ DOMAIN n.bins = DOMAIN l.bins
          /\ Listed(n, H \cup {q}, h2)
      BY <2>4, <3>1, <3>2, <3>4, <3>5, FileMergedIs
    <3> QED  BY <3>3, <3>6
  <2> QED  BY <2>1, <2>5
<1>14. /\ Keeps(m, n, ChunkFields) /\ n.head = l.head /\ n.foot = l.foot
       /\ n.top = m.top /\ n.topsize = m.topsize
  BY <1>8, <1>13 DEF Keeps, HeapFields, ChunkFields
<1>15. DOMAIN n.bins = DOMAIN m.bins
  BY <1>5, <1>8, <1>13
<1>16. Sound(m, FreeIn(m.head, m.top) \ ({q} \ {m.dv}))
  BY DEF Freeing
<1>17. /\ Whole(m.head, m.foot, n.head, n.foot, q, e, FALSE)
       /\ Listed(n, (FreeIn(m.head, m.top) \ (q .. e-1)) \cup {q}, n.head)
  BY <1>8, <1>11, <1>13, <1>14
<1>18. Became(m, n, UsedIn(m.head) \ (q .. e-1), UsedIn(m.head) \ (q .. e-1))
  BY <1>1, <1>3, <1>14, <1>15, <1>16, <1>17, SpanFreed
<1> QED  BY <1>3, <1>18

(* The chunk after the span is the top chunk.                              *)
LEMMA FreeBeforeTop ==
  ASSUME NEW m, NEW q, NEW r, Freeing(m, q, r), r = m.top,
         NEW s, s = r - q + m.topsize,
         NEW k, Keeps(m, k, {"topsize", "top", "dv", "dvsize"}), k.top = q, k.topsize = s,
         q = m.dv => k.dv = NULL /\ k.dvsize = 0,
         q # m.dv => k.dv = m.dv /\ k.dvsize = m.dvsize,
         NEW n, KeepsTags(k, n), PutHeadTo(k.head, k.foot, n.head, n.foot, q, s, Tag(s, FALSE, TRUE)),
         NEW U, U = UsedIn(m.head) \ (q .. r-1)
  PROVE  Became(m, n, U, U)
<1>1. /\ DOMAIN m = HeapFields /\ Words(m.head) /\ DOMAIN m.bins = MinChunk .. HeapSize
      /\ q \in DOMAIN m.head /\ q # NULL /\ UsedBefore(m.head, q) /\ q \in Int /\ r \in Int
      /\ q < r /\ r - q >= MinChunk /\ r - q > 0
      /\ Segment(m.head, m.foot, m.segbase, m.top, m.topsize)
      /\ Listed(m, FreeIn(m.head, m.top) \ ({q} \ {m.dv}), m.head)
  BY FreeingIs
<1>2. PICK h, f, t, z : h = m.head /\ f = m.foot /\ t = m.top /\ z = m.topsize
  OBVIOUS
<1>3. PICK h2, f2 : h2 = n.head /\ f2 = n.foot
  OBVIOUS
<1>4. /\ Segment(h, f, m.segbase, t, z) /\ t = r /\ q \in DOMAIN h /\ UsedBefore(h, q) /\ Words(h)
  BY <1>1, <1>2
<1>5. /\ n.top = q /\ n.topsize = s /\ Keeps(m, n, ChunkFields) /\ n.bins = m.bins
      /\ n.dv = k.dv /\ n.dvsize = k.dvsize
      /\ PutHeadTo(h, f, h2, f2, q, s, Tag(s, FALSE, TRUE))
  BY <1>2, <1>3 DEF Keeps, HeapFields, KeepsTags, ChunkFields
<1>6. z \in Int /\ z > 0 /\ s \in Int /\ s > 0 /\ q + s = t + z /\ DOMAIN h \subseteq Int /\ DOMAIN f \subseteq Int
      /\ t \in Int
  BY <1>1, <1>2, <1>4, SegmentIs
<1>7. PICK e \in Int : e = t + z
  BY <1>6
<1>8. /\ e \in DOMAIN h /\ h[e] = Tag(TopFoot, FALSE, FALSE)
      /\ \A x \in DOMAIN h : x <= t \/ x = e
      /\ \A x \in DOMAIN f : x <= t
  BY <1>4, <1>7 DEF Segment
<1>9. TopMoved(h, f, h2, f2, q, q, s, e)
  <2>1. Words(h2)
    <3>1. Tag(s, FALSE, TRUE) \in [size : Int, cinuse : BOOLEAN, pinuse : BOOLEAN]
      BY <1>6 DEF Tag
    <3> QED  BY <1>4, <1>5, <1>6, <3>1 DEF Words, PutHeadTo
  <2>2. \A x \in DOMAIN h : x < q => x \in DOMAIN h2 /\ h2[x] = h[x]
    BY <1>1, <1>5, <1>6 DEF PutHeadTo
  <2>3. \A x \in DOMAIN h2 : (x \in DOMAIN h /\ x < q) \/ x = q \/ x = q \/ x = e
    <3> TAKE x \in DOMAIN h2
    <3>1. x = q \/ (x \in DOMAIN h /\ (x <= q \/ x >= e))
      BY <1>5, <1>6, <1>7 DEF PutHeadTo
    <3> QED  BY <1>1, <1>4, <1>6, <1>7, <1>8, <3>1
  <2>4. q \in DOMAIN h2 /\ h2[q] = Tag(s, FALSE, TRUE)
    BY <1>5 DEF PutHeadTo
  <2>5. e \in DOMAIN h2 /\ e # q
    BY <1>1, <1>4, <1>5, <1>6, <1>7, <1>8 DEF PutHeadTo
  <2>6. h2[e] = Tag(TopFoot, FALSE, FALSE)
    BY <1>5, <1>8, <2>5 DEF PutHeadTo
  <2>7. h2[q].pinuse /\ h[q].pinuse
    <3>1. h2[q].pinuse
      BY <2>4 DEF Tag
    <3>2. h[q].pinuse
      BY <1>4 DEF UsedBefore
    <3> QED  BY <3>1, <3>2
  <2>8. \A x \in DOMAIN f : x <= q => x \in DOMAIN f2 /\ f2[x] = f[x]
    BY <1>5 DEF PutHeadTo
  <2>9. \A x \in DOMAIN f2 : x \in DOMAIN f /\ x <= q /\ f2[x] = f[x]
    <3> TAKE x \in DOMAIN f2
    <3>1. x \in DOMAIN f /\ (x <= q \/ x >= e) /\ f2[x] = f[x]
      BY <1>5, <1>6, <1>7 DEF PutHeadTo
    <3> QED  BY <1>1, <1>4, <1>6, <1>7, <1>8, <3>1
  <2>10. ~(q < q)
    BY <1>1
  <2> QED  BY <2>1, <2>2, <2>3, <2>4, <2>5, <2>6, <2>7, <2>8, <2>9, <2>10 DEF TopMoved
<1>10. Segment(h2, f2, m.segbase, q, s) /\ BeforeTop(h, h2, t, q, q)
  <2>1. TopMoved(h, f, h2, f2, q, q, s, t + z) /\ q <= t
    BY <1>1, <1>4, <1>7, <1>9
  <2>2. PICK p : p = q
    OBVIOUS
  <2>3. TopMoved(h, f, h2, f2, p, q, s, t + z) /\ p <= t /\ p \in DOMAIN h
    BY <1>4, <2>1, <2>2
  <2>4. Segment(h2, f2, m.segbase, q, s) /\ BeforeTop(h, h2, t, p, q)
    BY <1>1, <1>4, <1>6, <2>2, <2>3, SegmentTopMoved
  <2> QED  BY <2>2, <2>4
<1>11. PICK F : F = FreeIn(h, t) \ {q}
  OBVIOUS
<1>12. FreeIn(h2, q) = F
  <2>1. ASSUME NEW x \in FreeIn(h, t) PROVE x < q <=> x # q
    <3>1. x \in Int /\ x < t
      BY <1>6 DEF FreeIn
    <3>2. q <= x /\ x < r => x = q
      BY <1>2 DEF Freeing
    <3> QED  BY <1>1, <1>4, <3>1, <3>2
  <2> QED  BY <1>10, <1>11, <2>1 DEF BeforeTop
<1>13. UsedIn(h2) = U
  <2>1. ASSUME NEW x \in UsedIn(h) PROVE x < q <=> x \notin q .. r-1
    <3>1. x \in Int /\ x < t
      BY <1>4, <1>6, ChunkIs DEF UsedIn
    <3> QED  BY <1>1, <1>4, <3>1
  <2>2. ~(q < q)
    BY <1>1
  <2> QED  BY <1>2, <1>10, <2>1, <2>2 DEF BeforeTop
<1>14. Listed(n, F, h2)
  <2>1. \A x \in F : h2[x].size = h[x].size
    BY <1>10, <1>11, <1>12 DEF FreeIn, BeforeTop
  <2>2. CASE q = m.dv
    <3>1. Binned(n.bins, F, h)
      <4>1. (FreeIn(m.head, m.top) \ ({q} \ {m.dv})) \ {m.dv} = F
        BY <1>2, <1>11, <2>2
      <4>2. Binned(m.bins, F, m.head)
        BY <1>1, <4>1 DEF Listed
      <4> QED  BY <1>2, <1>5, <4>2
    <3>2. Binned(n.bins, F, h2)
      BY <2>1, <3>1, BinnedFrame
    <3>3. n.dv = NULL /\ n.dvsize = 0
      BY <1>5, <2>2
    <3>4. F \ {n.dv} = F
      <4>1. NULL \notin F
        <5>1. NULL \notin DOMAIN h
          <6>1. m.segbase \in Int /\ HeapStart <= m.segbase
            BY <1>4, SegmentIs
          <6>2. \A x \in DOMAIN h : m.segbase <= x
            BY <1>4 DEF Segment
          <6> QED  BY <6>1, <6>2, HeapAssumption DEF NULL
        <5> QED  BY <1>11, <5>1 DEF FreeIn
      <4> QED  BY <3>3, <4>1
    <3> QED  BY <3>2, <3>3, <3>4 DEF Listed
  <2>3. CASE q # m.dv
    <3>1. FreeIn(m.head, m.top) \ ({q} \ {m.dv}) = F
      BY <1>2, <1>11, <2>3
    <3>2. Listed(m, F, h)
      BY <1>1, <1>2, <3>1
    <3>3. n.dv = m.dv /\ n.dvsize = m.dvsize
      BY <1>5, <2>3
    <3> QED  BY <1>5, <2>1, <3>2, <3>3, ListedFrame
  <2> QED  BY <2>2, <2>3
<1>15. Sound(n, F)
  <2>1. Sound(m, FreeIn(m.head, m.top) \ ({q} \ {m.dv}))
    BY DEF Freeing
  <2>2. /\ Keeps(m, n, ChunkFields) /\ DOMAIN n.bins = DOMAIN m.bins /\ n.top # NULL
        /\ n.top + n.topsize = m.top + m.topsize
        /\ Segment(n.head, n.foot, m.segbase, n.top, n.topsize) /\ Listed(n, F, n.head)
    BY <1>1, <1>2, <1>3, <1>5, <1>6, <1>10, <1>14
  <2> QED  BY <2>1, <2>2, SoundAgain
<1>16. Grown(n)
  BY <1>3, <1>5, <1>12, <1>15 DEF Grown
<1>17. SizesKept(m.head, n.head, U)
  <2>2. ~(q < q)
    BY <1>1
  <2>1. \A x \in U : h2[x].size = h[x].size
    BY <1>10, <1>13, <2>2 DEF UsedIn, BeforeTop
  <2> QED  BY <1>2, <1>3, <2>1 DEF SizesKept
<1> QED  BY <1>3, <1>5, <1>13, <1>16, <1>17 DEF Became

(* The span is the designated victim and a chunk in use, and the chunk     *)
(* after it is in use.                                                     *)
LEMMA DvBeforeUsed ==
  ASSUME NEW m, NEW q, NEW r, Freeing(m, q, r), r \in UsedIn(m.head), q = m.dv,
         NEW s, s = r - q,
         NEW k, Keeps(m, k, {"dvsize"}), k.dvsize = s,
         NEW n, n = SetFreeWithPinuse(k, q, s, r),
         NEW U, U = UsedIn(m.head) \ (q .. r-1)
  PROVE  Became(m, n, U, U)
<1>1. /\ DOMAIN m = HeapFields /\ Words(m.head) /\ DOMAIN m.foot \subseteq Int
      /\ DOMAIN m.bins = MinChunk .. HeapSize /\ m.top # NULL
      /\ q \in DOMAIN m.head /\ r \in DOMAIN m.head /\ r <= m.top
      /\ UsedBefore(m.head, q) /\ UsedBefore(m.head, r)
      /\ q \in Int /\ r \in Int /\ q < r /\ q # NULL
      /\ r - q \in MinChunk .. HeapSize /\ r - q >= MinChunk
      /\ Segment(m.head, m.foot, m.segbase, m.top, m.topsize)
      /\ Listed(m, FreeIn(m.head, m.top) \ ({q} \ {m.dv}), m.head)
  BY FreeingIs
<1>2. s \in Int /\ s > 0 /\ r = q + s
  BY <1>1
<1>3. /\ DOMAIN k = HeapFields /\ k.head = m.head /\ k.foot = m.foot /\ k.dv = m.dv
      /\ k.bins = m.bins /\ k.top = m.top /\ k.topsize = m.topsize /\ k.segbase = m.segbase
  BY DEF Keeps, HeapFields
<1>4. /\ KeepsTags(k, n)
      /\ Laid(k.head, k.foot, n.head, n.foot, q, s, Tag(s, FALSE, TRUE), s)
      /\ Told(k.head, n.head, q + s, FALSE)
  <2>1. n = SetFreeWithPinuse(k, q, s, q + s) /\ Words(k.head)
    BY <1>1, <1>2, <1>3
  <2> QED  BY <1>1, <1>2, <1>3, <2>1, SetFreeWithPinuseIs
<1>5. Whole(m.head, m.foot, n.head, n.foot, q, r, FALSE)
  <2>1. Laid(m.head, m.foot, n.head, n.foot, q, s, Tag(s, FALSE, m.head[q].pinuse), Footer(FALSE, s))
    <3>1. m.head[q].pinuse = TRUE
      BY <1>1 DEF Words, UsedBefore
    <3>2. Footer(FALSE, s) = s
      BY DEF Footer
    <3> QED  BY <1>3, <1>4, <3>1, <3>2
  <2>2. r \in DOMAIN n.head /\ n.head[r] = Tag(m.head[r].size, m.head[r].cinuse, FALSE)
    <3>1. Told(m.head, n.head, r, FALSE)
      BY <1>2, <1>3, <1>4
    <3> QED  BY <1>1, <3>1, ToldFree
  <2> QED  BY <1>1, <1>2, <2>1, <2>2, LaidWhole
<1>6. OneChunk(m.head, n.head, m.top, q, r, FALSE)
  BY <1>1, <1>5, HeapFreed
<1>7. /\ Keeps(m, n, ChunkFields) /\ n.top = m.top /\ n.topsize = m.topsize
      /\ n.bins = m.bins /\ n.dv = q /\ n.dvsize = s
  BY <1>3, <1>4 DEF KeepsTags, Keeps, HeapFields, ChunkFields
<1>8. PICK F : F = (FreeIn(m.head, m.top) \ (q .. r-1)) \cup {q}
  OBVIOUS
<1>9. Listed(n, F, n.head)
  <2>1. F \ {n.dv} = (FreeIn(m.head, m.top) \ ({q} \ {m.dv})) \ {m.dv}
    <3>1. ASSUME NEW x \in FreeIn(m.head, m.top) PROVE x # q <=> x \notin q .. r-1
      <4>1. x \in Int
        BY <1>1, SegmentIs DEF FreeIn
      <4> QED  BY <1>1, <3>1, <4>1 DEF Freeing
    <3> QED  BY <1>7, <1>8, <3>1
  <2>2. Binned(n.bins, F \ {n.dv}, m.head)
    BY <1>1, <1>7, <2>1 DEF Listed
  <2>3. \A x \in F \ {n.dv} : n.head[x].size = m.head[x].size
    BY <1>6, <1>7, <1>8 DEF OneChunk, FreeIn
  <2>4. n.head[q].size = s
    BY <1>6 DEF OneChunk
  <2>5. n.dv # NULL /\ n.head[n.dv].size = n.dvsize /\ n.dvsize # 0
    <3>1. n.dv = q /\ n.dvsize = s
      BY <1>7
    <3>2. q # NULL /\ s # 0
      BY <1>1, <1>2
    <3> QED  BY <2>4, <3>1, <3>2, Zenon
  <2>6. n.dv \in F
    BY <1>7, <1>8
  <2> QED  BY <2>2, <2>3, <2>5, <2>6, DvListed
<1>10. Sound(m, FreeIn(m.head, m.top) \ ({q} \ {m.dv})) /\ DOMAIN n.bins = DOMAIN m.bins
  BY <1>7 DEF Freeing
<1>11. Became(m, n, UsedIn(m.head) \ (q .. r-1), UsedIn(m.head) \ (q .. r-1))
  BY <1>1, <1>5, <1>7, <1>8, <1>9, <1>10, SpanFreed
<1> QED  BY <1>11

(* ConsolidateForward frees a span, whatever follows it.                   *)
LEMMA ConsolidateForwardIs ==
  ASSUME NEW m, NEW q, NEW r, Freeing(m, q, r), q = m.dv => r \notin UsedIn(m.head),
         NEW s, s = r - q, NEW n, n = ConsolidateForward(m, q, s, r),
         NEW U, U = UsedIn(m.head) \ (q .. r-1)
  PROVE  Became(m, n, U, U)
<1>1. /\ DOMAIN m = HeapFields /\ q \in Int /\ r \in Int /\ m.top \in Int /\ r <= m.top
      /\ r \in DOMAIN m.head
      /\ Segment(m.head, m.foot, m.segbase, m.top, m.topsize)
  BY FreeingIs
<1>2. CASE r \in UsedIn(m.head)
  <2>1. n = InsertChunk(SetFreeWithPinuse(m, q, r - q, r), q, r - q)
    BY <1>2 DEF ConsolidateForward, UsedIn, Cinuse
  <2> QED  BY <1>2, <2>1, FreeBeforeUsed
<1>3. CASE r \notin UsedIn(m.head) /\ r = m.top
  <2>1. PICK z : z = s + m.topsize
    OBVIOUS
  <2>2. PICK k : k = [m EXCEPT !.topsize = z, !.top = q,
                               !.dvsize = IF q = m.dv THEN 0 ELSE @,
                               !.dv = IF q = m.dv THEN NULL ELSE @]
    OBVIOUS
  <2>3. /\ Keeps(m, k, {"topsize", "top", "dv", "dvsize"}) /\ k.top = q /\ k.topsize = z
        /\ q = m.dv => k.dv = NULL /\ k.dvsize = 0
        /\ q # m.dv => k.dv = m.dv /\ k.dvsize = m.dvsize
    BY <1>1, <2>2 DEF Keeps, HeapFields
  <2>4. n = PutHead(k, q, z, FALSE, TRUE)
    <3>1. ~Cinuse(m, r) /\ ChunkSize(m, r) = m.topsize
      BY <1>1, <1>3, TopIs DEF Cinuse, ChunkSize
    <3> QED  BY <1>3, <2>1, <2>2, <3>1 DEF ConsolidateForward, MergeIntoTop
  <2>5. KeepsTags(k, n) /\ PutHeadTo(k.head, k.foot, n.head, n.foot, q, z, Tag(z, FALSE, TRUE))
    <3>1. DOMAIN k = HeapFields
      BY <2>3 DEF Keeps
    <3> QED  BY <2>4, <3>1, PutHeadIs
  <2>6. z = r - q + m.topsize
    BY <2>1
  <2> QED  BY <1>3, <2>3, <2>5, <2>6, FreeBeforeTop
<1>4. CASE r \notin UsedIn(m.head) /\ r # m.top
  <2>1. r \in FreeIn(m.head, m.top) /\ ~Cinuse(m, r)
    BY <1>1, <1>4 DEF FreeIn, UsedIn, Cinuse
  <2>2. PICK z : z = s + m.head[r].size
    OBVIOUS
  <2>3. z = r - q + m.head[r].size
    BY <2>2
  <2>4. CASE r = m.dv
    <3>1. PICK k : k = [m EXCEPT !.dvsize = z, !.dv = q]
      OBVIOUS
    <3>2. n = SetSizeAndPinuseOfFreeChunk(k, q, z)
      BY <1>4, <2>1, <2>2, <2>4, <3>1 DEF ConsolidateForward, ChunkSize
    <3>3. Keeps(m, k, {"dv", "dvsize"}) /\ k.dv = q /\ k.dvsize = z
      BY <1>1, <3>1 DEF Keeps, HeapFields
    <3> QED  BY <2>1, <2>3, <2>4, <3>2, <3>3, FreeBeforeDv
  <2>5. CASE r # m.dv
    <3>1. PICK k : k = UnlinkChunk(m, r, m.head[r].size)
      OBVIOUS
    <3>2. PICK l : l = SetSizeAndPinuseOfFreeChunk(k, q, z)
      OBVIOUS
    <3>3. n = FileMerged(l, q, z)
      BY <1>4, <2>1, <2>2, <2>5, <3>1, <3>2 DEF ConsolidateForward, ChunkSize
    <3> QED  BY <2>1, <2>3, <2>5, <3>1, <3>2, <3>3, FreeBeforeBinned
  <2> QED  BY <2>4, <2>5
<1> QED  BY <1>2, <1>3, <1>4

(* The span to be freed with the chunk at p in use: from q, which is p or  *)
(* the free chunk before it, to the next chunk r.                          *)
Around(h, t, q, p, r) ==
  /\ q \in DOMAIN h /\ UsedBefore(h, q) /\ q \in Int /\ p \in Int /\ q <= p
  /\ r \in DOMAIN h /\ r \in Int /\ r <= t /\ UsedBefore(h, r) /\ r - q >= MinChunk
  /\ \A x \in FreeIn(h, t) : q <= x /\ x < r => x = q
  /\ UsedIn(h) \ (q .. r-1) = UsedIn(h) \ {p}

(* What dispose_chunk and free() find around the chunk they free: a span   *)
(* with a chunk in use, or the top, on either side.                        *)
LEMMA AroundIs ==
  ASSUME NEW h, NEW f, NEW a, NEW t, NEW n, Segment(h, f, a, t, n), NEW p \in UsedIn(h), NEW q,
         (UsedBefore(h, p) /\ q = p) \/ (q \in FreeIn(h, t) /\ End(h, q) = p),
         NEW r, r = End(h, p)
  PROVE  Around(h, t, q, p, r)
<1>1. p \in DOMAIN h /\ h[p].cinuse
  BY DEF UsedIn
<1>2. /\ p \in Int /\ p < t /\ GoodChunk(h, f, p, t) /\ r \in DOMAIN h /\ r \in Int /\ p < r /\ r <= t
      /\ h[p].size \in Int
  BY <1>1, ChunkIs
<1>3. UsedBefore(h, r) /\ r - p >= MinChunk /\ \A x \in DOMAIN h : x <= p \/ x >= r
  <2>1. h[r].pinuse = h[p].cinuse /\ \A x \in DOMAIN h : x <= p \/ x >= r
    BY <1>2 DEF GoodChunk
  <2>2. r - p = h[p].size /\ h[p].size >= MinChunk
    BY <1>2 DEF GoodChunk, End
  <2> QED  BY <1>1, <2>1, <2>2 DEF UsedBefore
<1>4. DOMAIN h \subseteq Int
  BY SegmentIs
<1>5. /\ q \in DOMAIN h /\ UsedBefore(h, q) /\ q \in Int /\ q <= p
      /\ \A x \in DOMAIN h : x <= q \/ x >= p
  <2>1. CASE UsedBefore(h, p) /\ q = p
    BY <1>1, <1>2, <1>4, <2>1
  <2>2. CASE q \in FreeIn(h, t) /\ End(h, q) = p
    <3>1. q \in DOMAIN h /\ q < t /\ ~h[q].cinuse /\ h[q].pinuse
      BY <2>2, FreeNeighbour
    <3>2. q \in Int /\ GoodChunk(h, f, q, t) /\ q < p
      BY <2>2, <3>1, ChunkIs
    <3>3. \A x \in DOMAIN h : x <= q \/ x >= p
      BY <2>2, <3>2 DEF GoodChunk
    <3> QED  BY <1>2, <3>1, <3>2, <3>3 DEF UsedBefore
  <2> QED  BY <2>1, <2>2
<1>6. r - q >= MinChunk
  BY <1>2, <1>3, <1>5, ListsAssumption
<1>7. ASSUME NEW x \in FreeIn(h, t), q <= x, x < r PROVE x = q
  <2>1. x \in DOMAIN h /\ x \in Int /\ x # p
    BY <1>1, <1>4 DEF FreeIn
  <2> QED  BY <1>2, <1>3, <1>5, <1>7, <2>1
<1>8. UsedIn(h) \ (q .. r-1) = UsedIn(h) \ {p}
  <2>1. ASSUME NEW x \in UsedIn(h) PROVE x \in q .. r-1 <=> x = p
    <3>1. x \in DOMAIN h /\ x \in Int /\ h[x].cinuse
      BY <1>4 DEF UsedIn
    <3>2. q # p => ~h[q].cinuse
      BY <1>2 DEF FreeIn
    <3> QED  BY <1>2, <1>3, <1>5, <3>1, <3>2
  <2> QED  BY <2>1
<1> QED  BY <1>2, <1>3, <1>5, <1>6, <1>7, <1>8 DEF Around

(* dispose_chunk(), and the body of dlfree() after its checks: of a sound  *)
(* heap it makes a sound heap with one chunk less in use.                  *)
LEMMA DisposeChunkIs ==
  ASSUME NEW m, Grown(m), NEW p \in UsedIn(m.head), NEW s, s = m.head[p].size,
         NEW n, n = DisposeChunk(m, p, s), NEW U, U = UsedIn(m.head) \ {p}
  PROVE  Became(m, n, U, U)
<1>1. Sound(m, FreeIn(m.head, m.top))
  BY DEF Grown
<1>2. /\ DOMAIN m = HeapFields /\ Segment(m.head, m.foot, m.segbase, m.top, m.topsize)
      /\ Listed(m, FreeIn(m.head, m.top), m.head) /\ Words(m.head) /\ m.top # NULL
      /\ DOMAIN m.bins = MinChunk .. HeapSize
  BY <1>1, SoundIs
<1>3. PICK r : r = End(m.head, p)
  OBVIOUS
<1>4. p \in DOMAIN m.head /\ Cinuse(m, p) /\ p \notin FreeIn(m.head, m.top) /\ p < m.top /\ p \in Int /\ s \in Int
  <2>1. p \in DOMAIN m.head /\ m.head[p].cinuse
    BY DEF UsedIn
  <2>2. p < m.top /\ p \in Int /\ s \in Int
    BY <1>2, <2>1, ChunkIs
  <2> QED  BY <2>1, <2>2 DEF Cinuse, FreeIn
<1>5. p # m.dv
  <2>1. p # NULL
    <3>1. HeapStart <= p
      BY <1>2, <1>4, ChunkIs
    <3> QED  BY <1>4, <3>1, HeapAssumption DEF NULL
  <2> QED  BY <1>2, <1>4, <2>1 DEF Listed
<1>6. r = p + s
  BY <1>3 DEF End
<1>7. CASE UsedBefore(m.head, p)
  <2>1. Around(m.head, m.top, p, p, r)
    BY <1>2, <1>3, <1>7, AroundIs
  <2>2. FreeIn(m.head, m.top) \ ({p} \ {m.dv}) = FreeIn(m.head, m.top)
    BY <1>4
  <2>3. Freeing(m, p, r)
    BY <1>1, <2>1, <2>2 DEF Freeing, Around
  <2>4. n = ConsolidateForward(m, p, s, r)
    <3>1. Pinuse(m, p)
      BY <1>7 DEF UsedBefore, Pinuse
    <3>2. p - 0 = p /\ s + 0 = s
      BY <1>4
    <3> QED  BY <1>6, <3>1, <3>2 DEF DisposeChunk
  <2>5. s = r - p
    BY <1>4, <1>6
  <2>6. U = UsedIn(m.head) \ (p .. r-1)
    BY <2>1 DEF Around
  <2> QED  BY <1>5, <2>3, <2>4, <2>5, <2>6, ConsolidateForwardIs
<1>8. CASE ~UsedBefore(m.head, p)
  <2>1. PICK v : v = m.foot[p]
    OBVIOUS
  <2>2. PICK q : q = p - v
    OBVIOUS
  <2>3. q \in FreeIn(m.head, m.top) /\ m.head[q].size = v /\ v \in Int /\ End(m.head, q) = p
    BY <1>2, <1>4, <1>8, <2>1, <2>2, PreviousIs DEF UsedBefore
  <2>4. Around(m.head, m.top, q, p, r)
    BY <1>2, <1>3, <2>3, AroundIs
  <2>5. U = UsedIn(m.head) \ (q .. r-1)
    BY <2>4 DEF Around
  <2>6. PICK z : z = s + v
    OBVIOUS
  <2>7. z = r - q
    BY <1>4, <1>6, <2>2, <2>3, <2>6
  <2>8. ~Pinuse(m, p)
    BY <1>8 DEF UsedBefore, Pinuse
  <2>9. r \in UsedIn(m.head) <=> Cinuse(m, r) /\ Pinuse(m, r)
    BY <2>4 DEF Around, UsedBefore, UsedIn, Cinuse, Pinuse
  <2>10. CASE q = m.dv
    <3>1. FreeIn(m.head, m.top) \ ({q} \ {m.dv}) = FreeIn(m.head, m.top)
      BY <2>10
    <3>2. Freeing(m, q, r)
      BY <1>1, <2>4, <3>1 DEF Freeing, Around
    <3>3. CASE r \in UsedIn(m.head)
      <4>1. PICK k : k = [m EXCEPT !.dvsize = z]
        OBVIOUS
      <4>2. Keeps(m, k, {"dvsize"}) /\ k.dvsize = z
        BY <1>2, <4>1 DEF Keeps, HeapFields
      <4>3. n = SetFreeWithPinuse(k, q, z, r)
        BY <1>6, <2>1, <2>2, <2>6, <2>8, <2>9, <2>10, <3>3, <4>1 DEF DisposeChunk
      <4> QED  BY <2>5, <2>7, <2>10, <3>2, <3>3, <4>2, <4>3, DvBeforeUsed
    <3>4. CASE r \notin UsedIn(m.head)
      <4>1. n = ConsolidateForward(m, q, z, r)
        BY <1>6, <2>1, <2>2, <2>6, <2>8, <2>9, <2>10, <3>4 DEF DisposeChunk
      <4> QED  BY <2>5, <2>7, <3>2, <3>4, <4>1, ConsolidateForwardIs
    <3> QED  BY <3>3, <3>4
  <2>11. CASE q # m.dv
    <3>1. PICK k : k = UnlinkChunk(m, q, v)
      OBVIOUS
    <3>2. n = ConsolidateForward(k, q, z, r)
      BY <1>6, <2>1, <2>2, <2>6, <2>8, <2>11, <3>1 DEF DisposeChunk
    <3>3. PICK F : F = FreeIn(m.head, m.top)
      OBVIOUS
    <3>4. Keeps(m, k, {"bins"}) /\ DOMAIN k.bins = DOMAIN m.bins /\ Listed(k, F \ {q}, m.head)
      <4>1. q \in F /\ Listed(m, F, m.head)
        BY <1>2, <2>3, <3>3
      <4> QED  BY <1>2, <2>3, <2>11, <3>1, <4>1, UnlinkListed
    <3>5. /\ DOMAIN k = HeapFields /\ k.head = m.head /\ k.foot = m.foot /\ k.dv = m.dv
          /\ k.top = m.top /\ k.topsize = m.topsize /\ k.segbase = m.segbase
          /\ Keeps(m, k, ChunkFields)
      BY <3>4 DEF Keeps, HeapFields, ChunkFields
    <3>6. FreeIn(k.head, k.top) \ ({q} \ {k.dv}) = F \ {q}
      BY <2>11, <3>3, <3>5
    <3>7. Sound(k, F \ {q})
      <4>1. k.top + k.topsize = m.top + m.topsize /\ Segment(k.head, k.foot, m.segbase, k.top, k.topsize)
        BY <1>2, <3>5
      <4>2. Listed(k, F \ {q}, k.head) /\ k.top # NULL
        BY <1>2, <3>4, <3>5
      <4> QED  BY <1>1, <3>4, <3>5, <4>1, <4>2, SoundAgain
    <3>8. Freeing(k, q, r)
      BY <2>4, <3>5, <3>6, <3>7 DEF Freeing, Around
    <3>9. q # k.dv /\ U = UsedIn(k.head) \ (q .. r-1)
      BY <2>5, <2>11, <3>5
    <3>10. Became(k, n, U, U)
      BY <2>7, <3>2, <3>8, <3>9, ConsolidateForwardIs
    <3> QED  BY <3>5, <3>10 DEF Became, Keeps
  <2> QED  BY <2>10, <2>11
<1> QED  BY <1>7, <1>8

-----------------------------------------------------------------------------
(* Allocating from a free chunk                                            *)

(* What a call of the allocator may change: everything but the limit and   *)
(* the checks; and without the system, not the memory there is.            *)
StillFields == ChunkFields \cup {"trim_check", "contiguous", "usage"}
CallFields == StillFields \cup {"segbase", "segsize", "brk", "footprint", "max_footprint"}

(* There is a limit on the footprint, and it and the footprint are z at    *)
(* most.                                                                   *)
Capped(m, z) == m.footprint <= z /\ m.footprint_limit \in 1 .. z

(* What calls of sbrk() may do to the break and the footprint: the break   *)
(* stays or is where sbrk() lets it be, and no bound on the footprint that *)
(* the limit allows is passed.                                             *)
BreakMoves(m, n) ==
  /\ n.brk = m.brk \/ Sys!Grantable(n.brk)
  /\ \A z \in Int : Capped(m, z) => Capped(n, z)

Called(m, n) == Keeps(m, n, CallFields) /\ BreakMoves(m, n)

(* A rewriting of the chunks alone is a call that leaves the break where   *)
(* it is.                                                                  *)
LEMMA StillCalled ==
  ASSUME NEW m, NEW n, Keeps(m, n, StillFields)
  PROVE  Called(m, n) /\ n.brk = m.brk
<1>1. n.brk = m.brk /\ n.footprint = m.footprint /\ n.footprint_limit = m.footprint_limit
  BY DEF Keeps, HeapFields, StillFields, ChunkFields
<1>2. Keeps(m, n, CallFields)
  BY DEF Keeps, CallFields
<1> QED  BY <1>1, <1>2 DEF Called, BreakMoves, Capped

(* Two such calls in a row are one: what they do to the break composes.    *)
LEMMA CalledTwice ==
  ASSUME NEW m, NEW k, Called(m, k), NEW n, Called(k, n)
  PROVE  Called(m, n)
<1>1. Keeps(m, n, CallFields)
  BY DEF Called, Keeps
<1>2. BreakMoves(m, n)
  BY Zenon DEF Called, BreakMoves
<1> QED  BY <1>1, <1>2 DEF Called

(* n is a sound heap in which p is in use besides what was in use in m.    *)
Acquired(m, n, p, nb) ==
  /\ Grown(n) /\ UsedIn(n.head) = UsedIn(m.head) \cup {p} /\ p \notin UsedIn(m.head)
  /\ SizesKept(m.head, n.head, UsedIn(m.head))
  /\ n.head[p].size \in Int /\ nb <= n.head[p].size /\ n.head[p].size < nb + MinChunk
  /\ UsedBefore(n.head, p) /\ Called(m, n)

(* The same, without the system.                                           *)
Obtained(m, n, p, nb) == Acquired(m, n, p, nb) /\ n.brk = m.brk

(* A free chunk at p, up to e, has nothing in it and a chunk in use after. *)
Alone(h, t, p, e) ==
  /\ p \in DOMAIN h /\ p \in Int /\ UsedBefore(h, p) /\ p \notin UsedIn(h) /\ p < t
  /\ e \in UsedIn(h) /\ e \in DOMAIN h /\ e \in Int /\ e <= t /\ ~UsedBefore(h, e)
  /\ h[p].size = e - p /\ e - p >= MinChunk /\ e - p \in MinChunk .. HeapSize
  /\ UsedIn(h) \ (p .. e-1) = UsedIn(h) /\ FreeIn(h, t) \ (p .. e-1) = FreeIn(h, t) \ {p}
  /\ \A x \in DOMAIN h : x # p => x \notin p .. e-1

(* A free chunk is alone between chunks in use or the top.                 *)
LEMMA AloneIs ==
  ASSUME NEW h, NEW f, NEW a, NEW t, NEW n, Segment(h, f, a, t, n), NEW p \in FreeIn(h, t),
         NEW e, e = End(h, p)
  PROVE  Alone(h, t, p, e)
<1>1. /\ e \in DOMAIN h /\ e < t /\ h[e].cinuse /\ ~h[e].pinuse
      /\ h[p].pinuse /\ p \in DOMAIN h /\ p < t /\ ~h[p].cinuse
  BY FreeNeighbour
<1>2. p \in Int /\ e \in Int /\ h[p].size \in MinChunk .. HeapSize /\ GoodChunk(h, f, p, t) /\ h[p].size \in Int
  BY <1>1, ChunkIs
<1>3. \A x \in DOMAIN h : x <= p \/ x >= e
  BY <1>2 DEF GoodChunk
<1>4. e - p = h[p].size
  BY <1>2 DEF End
<1>5. DOMAIN h \subseteq Int /\ t \in Int
  BY SegmentIs
<1>6. \A x \in DOMAIN h : x # p => x \notin p .. e-1
  BY <1>2, <1>3, <1>5
<1>7. UsedIn(h) \ (p .. e-1) = UsedIn(h)
  BY <1>1, <1>6 DEF UsedIn
<1>8. FreeIn(h, t) \ (p .. e-1) = FreeIn(h, t) \ {p}
  <2>1. p \in p .. e-1
    BY <1>2, <1>4, ListsAssumption
  <2> QED  BY <1>6, <2>1 DEF FreeIn
<1>9. e - p >= MinChunk /\ e - p \in MinChunk .. HeapSize /\ e <= t
  BY <1>1, <1>2, <1>4, <1>5, ListsAssumption
<1>10. UsedBefore(h, p) /\ p \notin UsedIn(h) /\ e \in UsedIn(h) /\ ~UsedBefore(h, e)
  BY <1>1 DEF UsedBefore, UsedIn
<1> QED  BY <1>1, <1>2, <1>4, <1>6, <1>7, <1>8, <1>9, <1>10 DEF Alone

(* The free chunk at p was taken, all of it, or its part before q.         *)
TakenWhole(h, h2, t, p) ==
  /\ UsedIn(h2) = UsedIn(h) \cup {p} /\ FreeIn(h2, t) = FreeIn(h, t) \ {p}
  /\ \A x \in DOMAIN h : h2[x].size = h[x].size
  /\ UsedBefore(h2, p)

TakenFront(h, h2, t, p, q, e) ==
  /\ UsedIn(h2) = UsedIn(h) \cup {p} /\ FreeIn(h2, t) = (FreeIn(h, t) \ {p}) \cup {q}
  /\ h2[p].size = q - p /\ h2[q].size = e - q /\ q \notin DOMAIN h
  /\ \A x \in DOMAIN h : x # p => h2[x].size = h[x].size
  /\ UsedBefore(h2, p)

(* A segment in which a span became a chunk in use is one still.           *)
LEMMA SegmentTaken ==
  ASSUME NEW h, NEW f, NEW a, NEW t, NEW n, Segment(h, f, a, t, n), NEW h2, NEW f2,
         NEW p \in DOMAIN h, NEW r \in DOMAIN h, r - p >= MinChunk, r <= t,
         Whole(h, f, h2, f2, p, r, TRUE)
  PROVE  Segment(h2, f2, a, t, n) /\ OneChunk(h, h2, t, p, r, TRUE)
<1>1. TRUE \in BOOLEAN
  OBVIOUS
<1> QED  BY <1>1, SegmentWhole, Zenon

(* A free chunk taken whole leaves the segment as it was but for that      *)
(* chunk.                                                                  *)
LEMMA TakeWhole ==
  ASSUME NEW m, DOMAIN m = HeapFields, Segment(m.head, m.foot, m.segbase, m.top, m.topsize),
         NEW p \in FreeIn(m.head, m.top), NEW s, s = m.head[p].size,
         NEW n, n = SetInuseAndPinuse(m, p, s)
  PROVE  /\ KeepsTags(m, n) /\ Segment(n.head, n.foot, m.segbase, m.top, m.topsize)
         /\ TakenWhole(m.head, n.head, m.top, p)
<1>1. PICK h, f, e : h = m.head /\ f = m.foot /\ e = End(h, p)
  OBVIOUS
<1>2. Alone(h, m.top, p, e)
  BY <1>1, AloneIs
<1>3. p \in Int /\ e \in Int /\ p \in DOMAIN h /\ e \in DOMAIN h /\ s = e - p /\ s > 0 /\ s \in Int /\ e = p + s
      /\ e - p >= MinChunk /\ e <= m.top
  BY <1>1, <1>2, ListsAssumption DEF Alone
<1>4. Words(h) /\ DOMAIN f \subseteq Int
  BY <1>1, SegmentIs
<1>5. /\ KeepsTags(m, n)
      /\ Laid(h, f, n.head, n.foot, p, s, Tag(s, TRUE, TRUE), Magic)
      /\ Told(h, n.head, p + s, TRUE)
  BY <1>1, <1>3, <1>4, SetInuseAndPinuseIs
<1>6. Whole(h, f, n.head, n.foot, p, e, TRUE)
  <2>1. Laid(h, f, n.head, n.foot, p, s, Tag(s, TRUE, h[p].pinuse), Footer(TRUE, s))
    <3>1. h[p].pinuse = TRUE
      BY <1>2, <1>4 DEF Words, UsedBefore, Alone
    <3>2. Footer(TRUE, s) = Magic
      BY DEF Footer
    <3> QED  BY <1>5, <3>1, <3>2
  <2>2. e \in DOMAIN n.head /\ n.head[e] = Tag(h[e].size, h[e].cinuse, TRUE)
    <3>1. Told(h, n.head, e, TRUE)
      BY <1>3, <1>5
    <3> QED  BY <1>3, <1>4, <3>1, ToldInuse
  <2> QED  BY <1>3, <1>4, <2>1, <2>2, LaidWhole
<1>7. Segment(n.head, n.foot, m.segbase, m.top, m.topsize) /\ OneChunk(h, n.head, m.top, p, e, TRUE)
  <2>1. Segment(h, f, m.segbase, m.top, m.topsize)
    BY <1>1
  <2> QED  BY <1>3, <1>6, <2>1, SegmentTaken
<1>8. UsedIn(n.head) = UsedIn(h) \cup {p} /\ FreeIn(n.head, m.top) = FreeIn(h, m.top) \ {p}
  BY <1>2, <1>7 DEF OneChunk, Alone
<1>9. \A x \in DOMAIN h : n.head[x].size = h[x].size
  BY <1>2, <1>7 DEF OneChunk, Alone
<1>10. UsedBefore(n.head, p)
  <2>1. n.head[p] = Tag(s, TRUE, TRUE)
    BY <1>5 DEF Laid
  <2> QED  BY <2>1 DEF Tag, UsedBefore
<1>11. TakenWhole(h, n.head, m.top, p)
  BY <1>8, <1>9, <1>10 DEF TakenWhole
<1> QED  BY <1>1, <1>5, <1>7, <1>11

(* The two chunks a free chunk was cut into: m, k and n are the heap       *)
(* before, after the tags of one and after those of both.                  *)
LEMMA TakeFrontIs ==
  ASSUME NEW h, NEW f, NEW a, NEW t, NEW z, Segment(h, f, a, t, z),
         NEW p \in FreeIn(h, t), NEW e, e = End(h, p),
         NEW q \in Int, q - p >= MinChunk, e - q >= MinChunk,
         NEW h2, NEW f2, Cut(h, f, h2, f2, p, q, e, TRUE, FALSE)
  PROVE  Segment(h2, f2, a, t, z) /\ TakenFront(h, h2, t, p, q, e)
<1>1. Alone(h, t, p, e)
  BY AloneIs
<1>2. p \in DOMAIN h /\ e \in DOMAIN h /\ p \in Int /\ e \in Int /\ e <= t /\ e \in UsedIn(h)
  BY <1>1 DEF Alone
<1>3. FALSE \in BOOLEAN /\ (FALSE \/ h[e].cinuse)
  BY <1>2 DEF UsedIn
<1>4. Segment(h2, f2, a, t, z) /\ TwoChunks(h, h2, t, p, q, e, FALSE)
  BY <1>2, <1>3, SegmentCut
<1>5. q \notin DOMAIN h /\ q # p
  BY <1>1, <1>2, ListsAssumption DEF Alone
<1>6. UsedIn(h2) = UsedIn(h) \cup {p} /\ FreeIn(h2, t) = (FreeIn(h, t) \ {p}) \cup {q}
  BY <1>1, <1>4 DEF TwoChunks, Alone
<1>7. h2[p].size = q - p /\ h2[q].size = e - q
  BY <1>4 DEF TwoChunks
<1>8. \A x \in DOMAIN h : x # p => h2[x].size = h[x].size
  BY <1>1, <1>4 DEF TwoChunks, Alone
<1>9. UsedBefore(h2, p)
  <2>1. h2[p] = Tag(q - p, TRUE, h[p].pinuse)
    BY DEF Cut
  <2>2. h2[p].pinuse = h[p].pinuse
    BY <2>1 DEF Tag
  <2>3. UsedBefore(h, p)
    BY <1>1 DEF Alone
  <2> QED  BY <2>2, <2>3, Zenon DEF UsedBefore
<1> QED  BY <1>4, <1>5, <1>6, <1>7, <1>8, <1>9 DEF TakenFront

(* The head of the first chunk is written first (FromBin) ...              *)
LEMMA TakeFront ==
  ASSUME NEW m, DOMAIN m = HeapFields, Segment(m.head, m.foot, m.segbase, m.top, m.topsize),
         NEW p \in FreeIn(m.head, m.top), NEW e, e = End(m.head, p),
         NEW s \in Int, s >= MinChunk, NEW z \in Int, z >= MinChunk, p + s + z = e,
         NEW k, k = SetSizeAndPinuseOfInuseChunk(m, p, s),
         NEW n, n = SetSizeAndPinuseOfFreeChunk(k, p + s, z)
  PROVE  /\ KeepsTags(m, n) /\ Segment(n.head, n.foot, m.segbase, m.top, m.topsize)
         /\ TakenFront(m.head, n.head, m.top, p, p + s, e)
<1>1. PICK h, f, h1, f1, q : h = m.head /\ f = m.foot /\ q = p + s /\ h1 = k.head /\ f1 = k.foot
  OBVIOUS
<1>2. Alone(h, m.top, p, e)
  BY <1>1, AloneIs
<1>3. /\ p \in Int /\ e \in Int /\ p \in DOMAIN h /\ e \in DOMAIN h /\ q \in Int /\ s > 0 /\ z > 0
      /\ q - p = s /\ e - q = z /\ e = q + z
  BY <1>1, <1>2, ListsAssumption DEF Alone
<1>4. Words(h) /\ DOMAIN f \subseteq Int
  BY <1>1, SegmentIs
<1>5. /\ KeepsTags(m, k)
      /\ Laid(h, f, h1, f1, p, s, Tag(s, TRUE, TRUE), Magic)
      /\ Untold(h, h1, q)
  BY <1>1, <1>3, <1>4, SetSizeAndPinuseOfInuseChunkIs
<1>6. DOMAIN k = HeapFields
  BY <1>5 DEF KeepsTags, Keeps
<1>7. Words(h1)
  <2>1. \A x \in DOMAIN h1 : x = p \/ (x \in DOMAIN h /\ h1[x] = h[x])
    <3> TAKE x \in DOMAIN h1
    <3>1. CASE x = q
      BY <1>3, <1>5, <3>1 DEF Untold
    <3>2. CASE x # q
      BY <1>1, <1>3, <1>5, <3>2 DEF Laid
    <3> QED  BY <3>1, <3>2
  <2>2. h1[p] \in [size : Int, cinuse : BOOLEAN, pinuse : BOOLEAN]
    BY <1>5, TagInWords DEF Laid
  <2> QED  BY <1>3, <1>4, <2>1, <2>2 DEF Words
<1>8. /\ KeepsTags(k, n)
      /\ Laid(h1, f1, n.head, n.foot, q, z, Tag(z, FALSE, TRUE), z)
      /\ Untold(h1, n.head, q + z)
  BY <1>1, <1>3, <1>6, <1>7, SetSizeAndPinuseOfFreeChunkIs
<1>9. Cut(h, f, n.head, n.foot, p, q, e, TRUE, FALSE)
  <2>1. Laid(h, f, h1, f1, p, s, Tag(s, TRUE, h[p].pinuse), Footer(TRUE, s))
    <3>1. h[p].pinuse = TRUE
      BY <1>2, <1>4 DEF Words, UsedBefore, Alone
    <3>2. Footer(TRUE, s) = Magic
      BY DEF Footer
    <3> QED  BY <1>5, <3>1, <3>2
  <2>2. Laid(h1, f1, n.head, n.foot, q, z, Tag(z, FALSE, TRUE), Footer(FALSE, z))
    <3>1. Footer(FALSE, z) = z
      BY DEF Footer
    <3> QED  BY <1>8, <3>1
  <2>3. e \in DOMAIN n.head /\ n.head[e] = Tag(h[e].size, h[e].cinuse, FALSE)
    <3>1. e \in DOMAIN h1 /\ h1[e] = h[e]
      BY <1>1, <1>3, <1>5 DEF Laid
    <3>2. e \in DOMAIN n.head /\ n.head[e] = h[e]
      BY <1>3, <1>8, <3>1 DEF Untold
    <3>3. Untold(h, n.head, e)
      BY <1>3, <3>2 DEF Untold
    <3>4. ~UsedBefore(h, e)
      BY <1>2 DEF Alone
    <3> QED  BY <1>3, <1>4, <3>3, <3>4, UntoldFree
  <2> QED  BY <1>1, <1>3, <1>4, <2>1, <2>2, <2>3, LaidCut
<1>10. Segment(n.head, n.foot, m.segbase, m.top, m.topsize) /\ TakenFront(h, n.head, m.top, p, q, e)
  <2>1. /\ Segment(h, f, m.segbase, m.top, m.topsize) /\ p \in FreeIn(h, m.top) /\ e = End(h, p)
        /\ q - p >= MinChunk /\ e - q >= MinChunk
    BY <1>1, <1>3
  <2> QED  BY <1>3, <1>9, <2>1, TakeFrontIs
<1> QED  BY <1>1, <1>5, <1>8, <1>10 DEF KeepsTags, Keeps

(* ... or that of the second chunk (FromDv).                               *)
LEMMA TakeFrontBack ==
  ASSUME NEW m, DOMAIN m = HeapFields, Segment(m.head, m.foot, m.segbase, m.top, m.topsize),
         NEW p \in FreeIn(m.head, m.top), NEW e, e = End(m.head, p),
         NEW s \in Int, s >= MinChunk, NEW z \in Int, z >= MinChunk, p + s + z = e,
         NEW k, k = SetSizeAndPinuseOfFreeChunk(m, p + s, z),
         NEW n, n = SetSizeAndPinuseOfInuseChunk(k, p, s)
  PROVE  /\ KeepsTags(m, n) /\ Segment(n.head, n.foot, m.segbase, m.top, m.topsize)
         /\ TakenFront(m.head, n.head, m.top, p, p + s, e)
<1>1. PICK h, f, h1, f1, q : h = m.head /\ f = m.foot /\ q = p + s /\ h1 = k.head /\ f1 = k.foot
  OBVIOUS
<1>2. Alone(h, m.top, p, e)
  BY <1>1, AloneIs
<1>3. /\ p \in Int /\ e \in Int /\ p \in DOMAIN h /\ e \in DOMAIN h /\ q \in Int /\ s > 0 /\ z > 0
      /\ q - p = s /\ e - q = z /\ e = q + z
  BY <1>1, <1>2, ListsAssumption DEF Alone
<1>4. Words(h) /\ DOMAIN f \subseteq Int
  BY <1>1, SegmentIs
<1>5. /\ KeepsTags(m, k)
      /\ Laid(h, f, h1, f1, q, z, Tag(z, FALSE, TRUE), z)
      /\ Untold(h, h1, e)
  BY <1>1, <1>3, <1>4, SetSizeAndPinuseOfFreeChunkIs
<1>6. DOMAIN k = HeapFields
  BY <1>5 DEF KeepsTags, Keeps
<1>7. Words(h1)
  <2>1. \A x \in DOMAIN h1 : x = q \/ (x \in DOMAIN h /\ h1[x] = h[x])
    <3> TAKE x \in DOMAIN h1
    <3>1. CASE x = e
      BY <1>3, <1>5, <3>1 DEF Untold
    <3>2. CASE x # e
      BY <1>1, <1>3, <1>5, <3>2 DEF Laid
    <3> QED  BY <3>1, <3>2
  <2>2. h1[q] \in [size : Int, cinuse : BOOLEAN, pinuse : BOOLEAN]
    BY <1>5, TagInWords DEF Laid
  <2> QED  BY <1>3, <1>4, <2>1, <2>2 DEF Words
<1>8. /\ KeepsTags(k, n)
      /\ Laid(h1, f1, n.head, n.foot, p, s, Tag(s, TRUE, TRUE), Magic)
      /\ Untold(h1, n.head, p + s)
  BY <1>1, <1>3, <1>6, <1>7, SetSizeAndPinuseOfInuseChunkIs
<1>9. Cut(h, f, n.head, n.foot, p, q, e, TRUE, FALSE)
  <2>1. Laid(h1, f1, n.head, n.foot, p, s, Tag(s, TRUE, h[p].pinuse), Footer(TRUE, s))
    <3>1. h[p].pinuse = TRUE
      BY <1>2, <1>4 DEF Words, UsedBefore, Alone
    <3>2. Footer(TRUE, s) = Magic
      BY DEF Footer
    <3> QED  BY <1>8, <3>1, <3>2
  <2>2. Laid(h, f, h1, f1, q, z, Tag(z, FALSE, TRUE), Footer(FALSE, z))
    <3>1. Footer(FALSE, z) = z
      BY DEF Footer
    <3> QED  BY <1>5, <3>1
  <2>3. q \in DOMAIN n.head /\ n.head[q] = Tag(z, FALSE, TRUE)
    <3>1. q \in DOMAIN h1 /\ h1[q] = Tag(z, FALSE, TRUE)
      BY <1>3, <1>5 DEF Laid
    <3> QED  BY <1>1, <1>8, <3>1 DEF Untold
  <2>4. e \in DOMAIN h1 /\ h1[e] = Tag(h[e].size, h[e].cinuse, FALSE)
    <3>1. ~UsedBefore(h, e)
      BY <1>2 DEF Alone
    <3> QED  BY <1>3, <1>4, <1>5, <3>1, UntoldFree
  <2>5. PICK w, h2, f2 : w = Tag(z, FALSE, TRUE) /\ h2 = n.head /\ f2 = n.foot
    OBVIOUS
  <2>6. /\ q = p + s /\ e = q + z /\ s > 0 /\ z > 0
        /\ Laid(h, f, h1, f1, q, z, w, Footer(FALSE, z))
        /\ Laid(h1, f1, h2, f2, p, s, Tag(s, TRUE, h[p].pinuse), Footer(TRUE, s))
        /\ q \in DOMAIN h2 /\ h2[q] = Tag(z, FALSE, TRUE)
    BY <1>1, <1>3, <2>1, <2>2, <2>3, <2>5
  <2>7. Cut(h, f, h2, f2, p, q, e, TRUE, FALSE)
    BY <1>3, <1>4, <2>4, <2>6, LaidCutBack
  <2> QED  BY <2>5, <2>7
<1>10. Segment(n.head, n.foot, m.segbase, m.top, m.topsize) /\ TakenFront(h, n.head, m.top, p, q, e)
  <2>1. /\ Segment(h, f, m.segbase, m.top, m.topsize) /\ p \in FreeIn(h, m.top) /\ e = End(h, p)
        /\ q - p >= MinChunk /\ e - q >= MinChunk
    BY <1>1, <1>3
  <2> QED  BY <1>3, <1>9, <2>1, TakeFrontIs
<1> QED  BY <1>1, <1>5, <1>8, <1>10 DEF KeepsTags, Keeps

(* A free chunk has a size for which there is a bin.                       *)
LEMMA FreeSizes ==
  ASSUME NEW h, NEW f, NEW a, NEW t, NEW n, Segment(h, f, a, t, n), NEW p \in FreeIn(h, t)
  PROVE  p \in Int \ {NULL} /\ h[p].size \in MinChunk .. HeapSize /\ h[p].size \in Int
         /\ h[p].size >= MinChunk /\ p \in DOMAIN h
<1>1. p \in DOMAIN h /\ p < t
  BY DEF FreeIn
<1>2. p \in Int /\ h[p].size \in MinChunk .. HeapSize /\ HeapStart <= p /\ h[p].size \in Int
  BY <1>1, ChunkIs
<1> QED  BY <1>1, <1>2, HeapAssumption, ListsAssumption DEF NULL

(* The designated victim, if there is one, is a free chunk.                *)
LEMMA DvIs ==
  ASSUME NEW m, Grown(m)
  PROVE  /\ m.dvsize = 0 \/ (m.dv \in FreeIn(m.head, m.top) /\ m.dv # NULL /\ m.head[m.dv].size = m.dvsize
                             /\ m.dvsize >= MinChunk)
         /\ m.dvsize \in 0 .. HeapSize
<1>1. /\ Segment(m.head, m.foot, m.segbase, m.top, m.topsize)
      /\ Listed(m, FreeIn(m.head, m.top), m.head)
  BY SoundIs DEF Grown
<1>2. CASE m.dv = NULL
  BY <1>1, <1>2, HeapAssumption DEF Listed
<1>3. CASE m.dv # NULL
  <2>1. m.dv \in FreeIn(m.head, m.top) /\ m.head[m.dv].size = m.dvsize
    BY <1>1, <1>3 DEF Listed
  <2>2. m.dvsize \in MinChunk .. HeapSize
    BY <1>1, <2>1, FreeSizes
  <2> QED  BY <1>3, <2>1, <2>2, ListsAssumption
<1> QED  BY <1>2, <1>3

(* A binned chunk: the first of its list.                                  *)
LEMMA BinHeadIs ==
  ASSUME NEW m, Grown(m), NEW s \in DOMAIN m.bins, m.bins[s] # <<>>, NEW p, p = Head(m.bins[s])
  PROVE  p \in FreeIn(m.head, m.top) /\ p # m.dv /\ m.head[p].size = s
<1>1. Binned(m.bins, FreeIn(m.head, m.top) \ {m.dv}, m.head)
  BY SoundIs DEF Grown, Listed
<1>2. PICK list : list = m.bins[s]
  OBVIOUS
<1>3. list \in Seq(Int) /\ list # <<>>
  BY <1>1, <1>2 DEF Binned
<1>4. Len(list) \in Nat /\ Len(list) # 0 /\ p = list[1]
  BY <1>2, <1>3, EmptySeq, LenProperties, HeadTailProperties
<1>5. 1 \in 1 .. Len(list)
  BY <1>4
<1> QED  BY <1>1, <1>2, <1>4, <1>5 DEF Binned

(* A free chunk was obtained whole, or its front was.                      *)
LEMMA WholeObtained ==
  ASSUME NEW m, Grown(m), NEW p \in FreeIn(m.head, m.top),
         NEW n, Keeps(m, n, ChunkFields), n.top = m.top, n.topsize = m.topsize,
         DOMAIN n.bins = DOMAIN m.bins,
         Segment(n.head, n.foot, m.segbase, m.top, m.topsize),
         TakenWhole(m.head, n.head, m.top, p),
         Listed(n, FreeIn(m.head, m.top) \ {p}, n.head),
         NEW nb \in Int, nb <= m.head[p].size, m.head[p].size < nb + MinChunk
  PROVE  Obtained(m, n, p, nb)
<1>1. Sound(m, FreeIn(m.head, m.top)) /\ m.top # NULL
  BY DEF Grown, Sound
<1>2. PICK F : F = FreeIn(m.head, m.top) \ {p}
  OBVIOUS
<1>3. FreeIn(n.head, n.top) = F /\ UsedIn(n.head) = UsedIn(m.head) \cup {p}
  BY <1>2 DEF TakenWhole
<1>4. Sound(n, F)
  <2>1. /\ n.top # NULL /\ n.top + n.topsize = m.top + m.topsize
        /\ Segment(n.head, n.foot, m.segbase, n.top, n.topsize) /\ Listed(n, F, n.head)
    BY <1>1, <1>2
  <2> QED  BY <1>1, <2>1, SoundAgain
<1>5. p \notin UsedIn(m.head) /\ p \in DOMAIN m.head /\ m.head[p].size \in Int
  <2>1. Segment(m.head, m.foot, m.segbase, m.top, m.topsize)
    BY <1>1, SoundIs
  <2> QED  BY <2>1, FreeSizes DEF UsedIn, FreeIn
<1>6. n.head[p].size = m.head[p].size
  BY <1>5 DEF TakenWhole
<1>7. SizesKept(m.head, n.head, UsedIn(m.head))
  BY DEF SizesKept, UsedIn, TakenWhole
<1>8. Called(m, n) /\ n.brk = m.brk
  <2>1. Keeps(m, n, StillFields)
    BY DEF Keeps, StillFields
  <2> QED  BY <2>1, StillCalled
<1>9. UsedBefore(n.head, p)
  BY DEF TakenWhole
<1> QED  BY <1>3, <1>4, <1>5, <1>6, <1>7, <1>8, <1>9 DEF Obtained, Acquired, Grown

(* A free chunk of which the front was taken, its rest in a list: the call *)
(* obtained the front.                                                     *)
LEMMA FrontObtained ==
  ASSUME NEW m, Grown(m), NEW p \in FreeIn(m.head, m.top),
         NEW n, Keeps(m, n, ChunkFields), n.top = m.top, n.topsize = m.topsize,
         DOMAIN n.bins = DOMAIN m.bins, NEW q, NEW e,
         Segment(n.head, n.foot, m.segbase, m.top, m.topsize),
         TakenFront(m.head, n.head, m.top, p, q, e),
         Listed(n, (FreeIn(m.head, m.top) \ {p}) \cup {q}, n.head),
         NEW nb \in Int, nb = q - p
  PROVE  Obtained(m, n, p, nb)
<1>1. Sound(m, FreeIn(m.head, m.top)) /\ m.top # NULL
  BY DEF Grown, Sound
<1>2. PICK F : F = (FreeIn(m.head, m.top) \ {p}) \cup {q}
  OBVIOUS
<1>3. FreeIn(n.head, n.top) = F /\ UsedIn(n.head) = UsedIn(m.head) \cup {p}
  BY <1>2 DEF TakenFront
<1>4. Sound(n, F)
  <2>1. /\ n.top # NULL /\ n.top + n.topsize = m.top + m.topsize
        /\ Segment(n.head, n.foot, m.segbase, n.top, n.topsize) /\ Listed(n, F, n.head)
    BY <1>1, <1>2
  <2> QED  BY <1>1, <2>1, SoundAgain
<1>5. p \notin UsedIn(m.head) /\ n.head[p].size = nb
  BY DEF UsedIn, FreeIn, TakenFront
<1>6. nb < nb + MinChunk /\ nb <= nb
  BY ListsAssumption
<1>7. SizesKept(m.head, n.head, UsedIn(m.head))
  BY <1>5 DEF SizesKept, UsedIn, TakenFront
<1>8. Called(m, n) /\ n.brk = m.brk
  <2>1. Keeps(m, n, StillFields)
    BY DEF Keeps, StillFields
  <2> QED  BY <2>1, StillCalled
<1>9. UsedBefore(n.head, p)
  BY DEF TakenFront
<1> QED  BY <1>3, <1>4, <1>5, <1>6, <1>7, <1>8, <1>9 DEF Obtained, Acquired, Grown

(* malloc() from a bin                                                     *)
LEMMA CutBinnedIs ==
  ASSUME NEW m, Grown(m), NEW nb \in Int, nb >= MinChunk,
         NEW p \in FreeIn(m.head, m.top), p # m.dv, NEW s, m.head[p].size = s, nb <= s,
         s = nb \/ SmallRoom(nb, m.dvsize),
         NEW k, k = UnlinkChunk(m, p, s), NEW n, n = CutBinned(k, p, s, nb)
  PROVE  Obtained(m, n, p, nb)
<1>2. p \in FreeIn(m.head, m.top) /\ p # m.dv /\ m.head[p].size = s
  OBVIOUS
<1>3. /\ DOMAIN m = HeapFields /\ Segment(m.head, m.foot, m.segbase, m.top, m.topsize)
      /\ Listed(m, FreeIn(m.head, m.top), m.head) /\ DOMAIN m.bins = MinChunk .. HeapSize
  BY SoundIs DEF Grown
<1>4. PICK F : F = FreeIn(m.head, m.top)
  OBVIOUS
<1>6. Keeps(m, k, {"bins"}) /\ DOMAIN k.bins = DOMAIN m.bins /\ Listed(k, F \ {p}, m.head)
  <2>1. p \in F /\ Listed(m, F, m.head)
    BY <1>2, <1>3, <1>4
  <2>2. DOMAIN m = HeapFields /\ p # m.dv /\ m.head[p].size = s
    BY <1>2, <1>3
  <2> QED  BY <2>1, <2>2, UnlinkListed
<1>7. /\ DOMAIN k = HeapFields /\ k.head = m.head /\ k.foot = m.foot /\ k.dv = m.dv /\ k.dvsize = m.dvsize
      /\ k.top = m.top /\ k.topsize = m.topsize /\ k.segbase = m.segbase
  BY <1>6 DEF Keeps, HeapFields
<1>10. s \in Int /\ s - nb \in Int /\ p \in Int /\ p # NULL /\ s = m.head[p].size
  BY <1>2, <1>3, FreeSizes
<1>11. CASE s - nb < MinChunk
  <2>1. n = SetInuseAndPinuse(k, p, s)
    BY <1>11 DEF CutBinned
  <2>2. /\ KeepsTags(k, n) /\ Segment(n.head, n.foot, m.segbase, m.top, m.topsize)
        /\ TakenWhole(m.head, n.head, m.top, p)
    BY <1>2, <1>3, <1>7, <1>10, <2>1, TakeWhole
  <2>3. /\ Keeps(m, n, ChunkFields) /\ n.top = m.top /\ n.topsize = m.topsize
        /\ n.bins = k.bins /\ n.dv = k.dv /\ n.dvsize = k.dvsize
    BY <1>6, <1>7, <2>2 DEF KeepsTags, Keeps, HeapFields, ChunkFields
  <2>4. Listed(n, F \ {p}, n.head)
    <3>1. \A x \in F \ {p} : n.head[x].size = m.head[x].size
      BY <1>4, <2>2 DEF TakenWhole, FreeIn
    <3> QED  BY <1>6, <2>3, <3>1, ListedFrame
  <2>5. DOMAIN n.bins = DOMAIN m.bins /\ nb <= m.head[p].size /\ m.head[p].size < nb + MinChunk
    BY <1>6, <1>10, <1>11, <2>3, ListsAssumption
  <2>6. Obtained(m, n, p, nb)
    BY <1>2, <1>4, <2>2, <2>3, <2>4, <2>5, WholeObtained
  <2> QED  BY <2>6
<1>12. CASE ~(s - nb < MinChunk)
  <2>1. PICK q, z, e : q = p + nb /\ z = s - nb /\ e = End(m.head, p)
    OBVIOUS
  <2>2. PICK j : j = SetSizeAndPinuseOfInuseChunk(k, p, nb)
    OBVIOUS
  <2>3. PICK l : l = SetSizeAndPinuseOfFreeChunk(j, q, z)
    OBVIOUS
  <2>4. n = KeepRest(l, nb, q, z)
    BY <1>12, <2>1, <2>2, <2>3 DEF CutBinned
  <2>5. /\ z \in Int /\ z >= MinChunk /\ p + nb + z = e /\ q \in Int /\ nb = q - p /\ e - q = z
        /\ z \in DOMAIN m.bins /\ s # nb
    <3>1. e = p + s
      BY <1>2, <2>1 DEF End
    <3>2. z \in Int /\ z >= MinChunk /\ p + nb + z = e /\ q \in Int /\ nb = q - p /\ e - q = z /\ s # nb
      BY <1>10, <1>12, <2>1, <3>1, ListsAssumption
    <3>3. s \in MinChunk .. HeapSize
      BY <1>2, <1>3, FreeSizes
    <3>4. z \in MinChunk .. HeapSize
      <4>1. nb > 0 /\ HeapSize \in Int
        BY ListsAssumption, HeapAssumption
      <4>2. s \in Int /\ s <= HeapSize
        BY <1>10, <3>3
      <4>3. z <= HeapSize
        BY <2>1, <4>1, <4>2
      <4> QED  BY <3>2, <4>3
    <3> QED  BY <1>3, <3>2, <3>4
  <2>6. /\ KeepsTags(k, l) /\ Segment(l.head, l.foot, m.segbase, m.top, m.topsize)
        /\ TakenFront(m.head, l.head, m.top, p, q, e)
    <3>1. /\ Segment(k.head, k.foot, k.segbase, k.top, k.topsize) /\ p \in FreeIn(k.head, k.top)
          /\ e = End(k.head, p) /\ l = SetSizeAndPinuseOfFreeChunk(j, p + nb, z)
      BY <1>2, <1>3, <1>7, <2>1, <2>3
    <3>2. /\ KeepsTags(k, l) /\ Segment(l.head, l.foot, k.segbase, k.top, k.topsize)
          /\ TakenFront(k.head, l.head, k.top, p, p + nb, e)
      BY <1>7, <2>2, <2>5, <3>1, TakeFront
    <3> QED  BY <1>7, <2>1, <3>2
  <2>7. /\ DOMAIN l = HeapFields /\ l.bins = k.bins /\ l.dv = m.dv /\ l.dvsize = m.dvsize
        /\ Keeps(k, l, {"head", "foot"})
    BY <1>7, <2>6 DEF KeepsTags, Keeps, HeapFields
  <2>8. Listed(l, F \ {p}, l.head)
    <3>1. \A x \in F \ {p} : l.head[x].size = m.head[x].size
      BY <1>4, <2>6 DEF TakenFront, FreeIn
    <3> QED  BY <1>6, <1>7, <2>7, <3>1, ListedFrame
  <2>9. /\ Keeps(l, n, {"bins", "dv", "dvsize"}) /\ DOMAIN n.bins = DOMAIN l.bins
        /\ Listed(n, (F \ {p}) \cup {q}, l.head)
    <3>0. PICK G, h : G = F \ {p} /\ h = l.head
      OBVIOUS
    <3>1. \A x \in G \cup {q} : x \in Int \ {NULL} /\ h[x].size \in MinChunk .. HeapSize /\ h[x].size >= MinChunk
      <4>1. FreeIn(h, m.top) = G \cup {q}
        BY <1>4, <2>6, <3>0 DEF TakenFront
      <4> QED  BY <2>6, <3>0, <4>1, FreeSizes
    <3>2. G \subseteq Int \ {NULL} /\ \A x \in G : h[x].size \in DOMAIN l.bins /\ h[x].size >= MinChunk
      BY <1>3, <1>6, <2>7, <3>1
    <3>3. SmallRoom(nb, l.dvsize)
      BY <2>5, <2>7
    <3>4. q \in Int /\ q # NULL /\ z \in DOMAIN l.bins /\ z \in Int /\ z >= MinChunk
      BY <1>6, <2>5, <2>7, <3>1
    <3>5. q \notin G /\ h[q].size = z
      BY <1>4, <2>5, <2>6, <3>0 DEF TakenFront, FreeIn
    <3>6. Listed(l, G, h)
      BY <2>8, <3>0
    <3>7. /\ Keeps(l, n, {"bins", "dv", "dvsize"}) /\ DOMAIN n.bins = DOMAIN l.bins
          /\ Listed(n, G \cup {q}, h)
      <4>1. DOMAIN l = HeapFields
        BY <2>7
      <4>2. Fillable(G, h, DOMAIN l.bins)
        BY <3>2 DEF Fillable
      <4>3. SmallRoom(nb, l.dvsize)
        BY <3>3
      <4> QED  BY <2>4, <3>4, <3>5, <3>6, <4>1, <4>2, <4>3, KeepRestIs
    <3> QED  BY <3>0, <3>7
  <2>10. /\ Keeps(m, n, ChunkFields) /\ n.head = l.head /\ n.foot = l.foot
         /\ n.top = m.top /\ n.topsize = m.topsize /\ DOMAIN n.bins = DOMAIN m.bins
    BY <1>6, <1>7, <2>7, <2>9 DEF Keeps, HeapFields, ChunkFields
  <2>11. Obtained(m, n, p, nb)
    <3>1. /\ Segment(n.head, n.foot, m.segbase, m.top, m.topsize)
          /\ TakenFront(m.head, n.head, m.top, p, q, e)
          /\ Listed(n, (FreeIn(m.head, m.top) \ {p}) \cup {q}, n.head)
      BY <1>4, <2>6, <2>9, <2>10
    <3> QED  BY <1>2, <2>5, <2>10, <3>1, FrontObtained
  <2> QED  BY <2>11
<1> QED  BY <1>11, <1>12

(* malloc() with a chunk from a bin: it obtains a chunk of the size wanted *)
(* or a little more, and the rest goes to the designated victim or into a  *)
(* bin.                                                                    *)
LEMMA FromBinIs ==
  ASSUME NEW m, Grown(m), NEW nb \in Int, nb >= MinChunk,
         NEW s \in DOMAIN m.bins, m.bins[s] # <<>>, nb <= s,
         s = nb \/ SmallRoom(nb, m.dvsize),
         NEW got, got = FromBin(m, s, nb)
  PROVE  Obtained(m, got.heap, got.mem, nb)
<1>1. PICK p, k, n : p = Head(m.bins[s]) /\ k = UnlinkChunk(m, p, s) /\ n = CutBinned(k, p, s, nb)
  OBVIOUS
<1>2. p \in FreeIn(m.head, m.top) /\ p # m.dv /\ m.head[p].size = s
  BY <1>1, BinHeadIs
<1>3. got.heap = n /\ got.mem = p
  BY <1>1 DEF FromBin, Result
<1>4. Obtained(m, n, p, nb)
  BY <1>1, <1>2, CutBinnedIs
<1> QED  BY <1>3, <1>4

(* malloc() from the designated victim                                     *)
LEMMA FromDvIs ==
  ASSUME NEW m, Grown(m), NEW nb \in Int, nb >= MinChunk, nb <= m.dvsize,
         NEW got, got = FromDv(m, nb)
  PROVE  Obtained(m, got.heap, got.mem, nb)
<1>1. PICK p, s, z, e : p = m.dv /\ s = m.dvsize /\ z = s - nb /\ e = End(m.head, p)
  OBVIOUS
<1>2. p \in FreeIn(m.head, m.top) /\ m.head[p].size = s /\ s \in Int /\ p # NULL /\ nb <= s /\ s >= MinChunk
  <2>1. m.dvsize # 0 /\ m.dvsize \in Int
    BY DvIs, ListsAssumption
  <2> QED  BY <1>1, <2>1, DvIs
<1>3. /\ DOMAIN m = HeapFields /\ Segment(m.head, m.foot, m.segbase, m.top, m.topsize)
      /\ Listed(m, FreeIn(m.head, m.top), m.head) /\ DOMAIN m.bins = MinChunk .. HeapSize
  BY SoundIs DEF Grown
<1>4. PICK F : F = FreeIn(m.head, m.top)
  OBVIOUS
<1>5. Binned(m.bins, F \ {p}, m.head)
  BY <1>1, <1>3, <1>4 DEF Listed
<1>6. p \in Int /\ NULL \notin F
  BY <1>2, <1>3, <1>4, FreeSizes
<1>7. CASE z >= MinChunk
  <2>1. PICK q : q = p + nb
    OBVIOUS
  <2>2. PICK k : k = [m EXCEPT !.dv = q, !.dvsize = z]
    OBVIOUS
  <2>3. PICK l : l = SetSizeAndPinuseOfFreeChunk(k, q, z)
    OBVIOUS
  <2>4. PICK n : n = SetSizeAndPinuseOfInuseChunk(l, p, nb)
    OBVIOUS
  <2>5. got.heap = n /\ got.mem = p
    BY <1>1, <1>7, <2>1, <2>2, <2>3, <2>4 DEF FromDv, Result
  <2>6. /\ z \in Int /\ p + nb + z = e /\ q \in Int /\ nb = q - p /\ e - q = z
    <3>1. e = p + s
      BY <1>1, <1>2 DEF End
    <3> QED  BY <1>1, <1>2, <1>6, <2>1, <3>1
  <2>7. /\ DOMAIN k = HeapFields /\ k.head = m.head /\ k.foot = m.foot /\ k.dv = q /\ k.dvsize = z
        /\ k.top = m.top /\ k.topsize = m.topsize /\ k.segbase = m.segbase /\ k.bins = m.bins
        /\ Keeps(m, k, {"dv", "dvsize"})
    BY <1>3, <2>2 DEF Keeps, HeapFields
  <2>8. /\ KeepsTags(k, n) /\ Segment(n.head, n.foot, m.segbase, m.top, m.topsize)
        /\ TakenFront(m.head, n.head, m.top, p, q, e)
    <3>1. /\ Segment(k.head, k.foot, k.segbase, k.top, k.topsize) /\ p \in FreeIn(k.head, k.top)
          /\ e = End(k.head, p) /\ l = SetSizeAndPinuseOfFreeChunk(k, p + nb, z)
      BY <1>1, <1>2, <1>3, <2>1, <2>3, <2>7
    <3>2. /\ KeepsTags(k, n) /\ Segment(n.head, n.foot, k.segbase, k.top, k.topsize)
          /\ TakenFront(k.head, n.head, k.top, p, p + nb, e)
      BY <1>7, <2>4, <2>6, <2>7, <3>1, TakeFrontBack
    <3> QED  BY <2>1, <2>7, <3>2
  <2>9. /\ Keeps(m, n, ChunkFields) /\ n.top = m.top /\ n.topsize = m.topsize
        /\ n.bins = m.bins /\ n.dv = q /\ n.dvsize = z
    BY <2>7, <2>8 DEF KeepsTags, Keeps, HeapFields, ChunkFields
  <2>10. q \in FreeIn(n.head, m.top) /\ q \notin F /\ n.head[q].size = z
    BY <1>4, <2>6, <2>8 DEF TakenFront, FreeIn
  <2>11. Listed(n, (F \ {p}) \cup {q}, n.head)
    <3>1. ((F \ {p}) \cup {q}) \ {n.dv} = F \ {p}
      BY <2>9, <2>10
    <3>2. Binned(n.bins, ((F \ {p}) \cup {q}) \ {n.dv}, m.head)
      BY <1>5, <2>9, <3>1
    <3>3. \A x \in ((F \ {p}) \cup {q}) \ {n.dv} : n.head[x].size = m.head[x].size
      BY <1>4, <2>8, <3>1 DEF TakenFront, FreeIn
    <3>4. q # NULL
      BY <2>8, <2>10, FreeSizes
    <3>5. n.dv # NULL /\ n.dv \in (F \ {p}) \cup {q} /\ n.head[n.dv].size = n.dvsize /\ n.dvsize # 0
      BY <1>7, <2>6, <2>9, <2>10, <3>4, ListsAssumption
    <3> QED  BY <3>2, <3>3, <3>5, DvListed
  <2>12. Obtained(m, n, p, nb)
    <3>1. Listed(n, (FreeIn(m.head, m.top) \ {p}) \cup {q}, n.head) /\ DOMAIN n.bins = DOMAIN m.bins
      BY <1>4, <2>9, <2>11
    <3> QED  BY <1>2, <2>6, <2>8, <2>9, <3>1, FrontObtained
  <2> QED  BY <2>5, <2>12
<1>8. CASE ~(z >= MinChunk)
  <2>1. PICK k : k = [m EXCEPT !.dv = NULL, !.dvsize = 0]
    OBVIOUS
  <2>2. PICK n : n = SetInuseAndPinuse(k, p, s)
    OBVIOUS
  <2>3. got.heap = n /\ got.mem = p
    BY <1>1, <1>8, <2>1, <2>2 DEF FromDv, Result
  <2>4. /\ DOMAIN k = HeapFields /\ k.head = m.head /\ k.foot = m.foot /\ k.dv = NULL /\ k.dvsize = 0
        /\ k.top = m.top /\ k.topsize = m.topsize /\ k.segbase = m.segbase /\ k.bins = m.bins
        /\ Keeps(m, k, {"dv", "dvsize"})
    BY <1>3, <2>1 DEF Keeps, HeapFields
  <2>5. /\ KeepsTags(k, n) /\ Segment(n.head, n.foot, m.segbase, m.top, m.topsize)
        /\ TakenWhole(m.head, n.head, m.top, p)
    <3>1. /\ Segment(k.head, k.foot, k.segbase, k.top, k.topsize) /\ p \in FreeIn(k.head, k.top)
          /\ s = k.head[p].size
      BY <1>2, <1>3, <2>4
    <3>2. /\ KeepsTags(k, n) /\ Segment(n.head, n.foot, k.segbase, k.top, k.topsize)
          /\ TakenWhole(k.head, n.head, k.top, p)
      BY <2>2, <2>4, <3>1, TakeWhole
    <3> QED  BY <2>4, <3>2
  <2>6. /\ Keeps(m, n, ChunkFields) /\ n.top = m.top /\ n.topsize = m.topsize
        /\ n.bins = m.bins /\ n.dv = NULL /\ n.dvsize = 0
    BY <2>4, <2>5 DEF KeepsTags, Keeps, HeapFields, ChunkFields
  <2>7. Listed(n, F \ {p}, n.head)
    <3>1. \A x \in F \ {p} : n.head[x].size = m.head[x].size
      BY <1>4, <2>5 DEF TakenWhole, FreeIn
    <3>2. Binned(n.bins, F \ {p}, n.head)
      BY <1>5, <2>6, <3>1, BinnedFrame
    <3>3. (F \ {p}) \ {n.dv} = F \ {p}
      BY <1>6, <2>6
    <3> QED  BY <2>6, <3>2, <3>3 DEF Listed
  <2>8. m.head[p].size < nb + MinChunk /\ nb <= m.head[p].size
    BY <1>1, <1>2, <1>8, ListsAssumption
  <2>9. Obtained(m, n, p, nb)
    <3>1. Listed(n, FreeIn(m.head, m.top) \ {p}, n.head) /\ DOMAIN n.bins = DOMAIN m.bins
      BY <1>4, <2>6, <2>7
    <3> QED  BY <1>2, <2>5, <2>6, <2>8, <3>1, WholeObtained
  <2> QED  BY <2>3, <2>9
<1> QED  BY <1>7, <1>8

(* malloc() from the top chunk                                             *)
LEMMA FromTopIs ==
  ASSUME NEW m, Grown(m), NEW nb \in Int, nb >= MinChunk, nb < m.topsize,
         NEW got, got = FromTop(m, nb)
  PROVE  Obtained(m, got.heap, got.mem, nb)
<1>1. Sound(m, FreeIn(m.head, m.top))
  BY DEF Grown
<1>2. /\ DOMAIN m = HeapFields /\ Segment(m.head, m.foot, m.segbase, m.top, m.topsize)
      /\ Listed(m, FreeIn(m.head, m.top), m.head) /\ DOMAIN m.bins = MinChunk .. HeapSize
      /\ m.top \in Int /\ m.topsize \in Int
  BY <1>1, SoundIs
<1>3. PICK h, f, p, q, z, e : /\ h = m.head /\ f = m.foot /\ p = m.top /\ q = m.top + nb
                              /\ z = m.topsize - nb /\ e = m.top + m.topsize
  OBVIOUS
<1>4. PICK j : j = [m EXCEPT !.top = q, !.topsize = z]
  OBVIOUS
<1>5. PICK k : k = PutHead(j, q, z, FALSE, TRUE)
  OBVIOUS
<1>6. PICK n : n = SetSizeAndPinuseOfInuseChunk(k, p, nb)
  OBVIOUS
<1>7. got.heap = n /\ got.mem = p
  BY <1>2, <1>3, <1>4, <1>5, <1>6 DEF FromTop, Result, HeapFields
<1>8. /\ DOMAIN j = HeapFields /\ j.head = h /\ j.foot = f /\ j.top = q /\ j.topsize = z
      /\ Keeps(m, j, {"top", "topsize"})
  BY <1>2, <1>3, <1>4 DEF Keeps, HeapFields
<1>9. /\ Segment(h, f, m.segbase, p, m.topsize) /\ Words(h) /\ DOMAIN h \subseteq Int /\ DOMAIN f \subseteq Int
      /\ p \in DOMAIN h
  BY <1>2, <1>3, SegmentIs
<1>10. p \in Int /\ q \in Int /\ z \in Int /\ e \in Int /\ p < q /\ q < e /\ z > 0 /\ q + z = e /\ q - p = nb /\ nb > 0
  BY <1>2, <1>3, ListsAssumption
<1>11. PICK h1, f1, h2, f2 : h1 = k.head /\ f1 = k.foot /\ h2 = n.head /\ f2 = n.foot
  OBVIOUS
<1>12. KeepsTags(j, k) /\ PutHeadTo(h, f, h1, f1, q, z, Tag(z, FALSE, TRUE))
  BY <1>5, <1>8, <1>11, PutHeadIs
<1>13. DOMAIN k = HeapFields
  BY <1>12 DEF KeepsTags, Keeps
<1>14. Words(h1)
  <2>1. Tag(z, FALSE, TRUE) \in [size : Int, cinuse : BOOLEAN, pinuse : BOOLEAN]
    BY <1>10, TagInWords
  <2> QED  BY <1>9, <1>10, <1>12, <2>1 DEF Words, PutHeadTo
<1>15. /\ KeepsTags(k, n) /\ Laid(h1, f1, h2, f2, p, nb, Tag(nb, TRUE, TRUE), Magic)
       /\ Untold(h1, h2, q)
  <2>1. p + nb = q
    BY <1>3
  <2> QED  BY <1>6, <1>10, <1>11, <1>13, <1>14, <2>1, SetSizeAndPinuseOfInuseChunkIs
<1>16. /\ e \in DOMAIN h /\ h[e] = Tag(TopFoot, FALSE, FALSE) /\ h[p].pinuse
       /\ \A x \in DOMAIN h : x <= p \/ x = e
       /\ \A x \in DOMAIN f : x <= p
  <2>1. h[p].pinuse
    BY <1>9, TopIs
  <2> QED  BY <1>3, <1>9, <2>1 DEF Segment
<1>17. TopMoved(h, f, h2, f2, p, q, z, e)
  <2>1. q \in DOMAIN h2 /\ h2[q] = Tag(z, FALSE, TRUE)
    BY <1>12, <1>15 DEF Untold, PutHeadTo
  <2>2. p \in DOMAIN h2 /\ h2[p] = Tag(nb, TRUE, TRUE)
    BY <1>10, <1>15, <1>3 DEF Laid
  <2>3. e \in DOMAIN h2 /\ h2[e] = Tag(TopFoot, FALSE, FALSE)
    <3>1. e \in DOMAIN h1 /\ h1[e] = h[e]
      <4>1. e # q /\ e >= q + z /\ e \in DOMAIN h
        BY <1>10, <1>16
      <4> QED  BY <1>12, <4>1 DEF PutHeadTo
    <3>2. e # p /\ e # p + nb /\ e >= p + nb
      BY <1>3, <1>10
    <3> QED  BY <1>15, <1>16, <3>1, <3>2 DEF Laid
  <2>4. \A x \in DOMAIN h : x < p => x \in DOMAIN h2 /\ h2[x] = h[x]
    <3> SUFFICES ASSUME NEW x \in DOMAIN h, x < p PROVE x \in DOMAIN h2 /\ h2[x] = h[x]
      OBVIOUS
    <3>1. x \in Int /\ x < q /\ x # p /\ x # p + nb /\ x <= p
      BY <1>3, <1>9, <1>10
    <3>2. x \in DOMAIN h1 /\ h1[x] = h[x]
      BY <1>10, <1>12, <3>1 DEF PutHeadTo
    <3> QED  BY <1>15, <3>1, <3>2 DEF Laid
  <2>5. \A x \in DOMAIN h2 : (x \in DOMAIN h /\ x < p) \/ x = p \/ x = q \/ x = e
    <3> TAKE x \in DOMAIN h2
    <3>1. x = q \/ x = p \/ x \in DOMAIN h1
      BY <1>3, <1>15 DEF Laid
    <3>2. x = q \/ x = p \/ x \in DOMAIN h
      BY <1>12, <3>1 DEF PutHeadTo
    <3> QED  BY <1>9, <1>10, <1>16, <3>2
  <2>6. Words(h2)
    <3>1. \A x \in DOMAIN h2 : x = p \/ (x \in DOMAIN h1 /\ h2[x] = h1[x])
      <4> TAKE x \in DOMAIN h2
      <4>1. CASE x = q
        BY <1>15, <4>1 DEF Untold
      <4>2. CASE x # q
        BY <1>3, <1>15, <4>2 DEF Laid
      <4> QED  BY <4>1, <4>2
    <3>2. Tag(nb, TRUE, TRUE) \in [size : Int, cinuse : BOOLEAN, pinuse : BOOLEAN]
      BY TagInWords
    <3> QED  BY <1>10, <1>14, <2>2, <3>1, <3>2 DEF Words
  <2>7. h2[p].pinuse /\ h2[p].size = q - p /\ h2[p].cinuse
    BY <1>10, <2>2 DEF Tag
  <2>8. q \in DOMAIN f2 /\ f2[q] = Magic
    BY <1>3, <1>15 DEF Laid
  <2>9. \A x \in DOMAIN f : x <= p => x \in DOMAIN f2 /\ f2[x] = f[x]
    <3> SUFFICES ASSUME NEW x \in DOMAIN f, x <= p PROVE x \in DOMAIN f2 /\ f2[x] = f[x]
      OBVIOUS
    <3>1. x \in Int /\ x < q /\ x # p + nb
      BY <1>3, <1>9, <1>10
    <3>2. x \in DOMAIN f1 /\ f1[x] = f[x]
      BY <1>12, <1>10, <3>1 DEF PutHeadTo
    <3> QED  BY <1>15, <3>1, <3>2 DEF Laid
  <2>10. \A x \in DOMAIN f2 : (x \in DOMAIN f /\ x <= p /\ f2[x] = f[x]) \/ (x = q /\ f2[x] = Magic)
    <3> TAKE x \in DOMAIN f2
    <3>1. x = q \/ (x \in DOMAIN f1 /\ f2[x] = f1[x])
      BY <1>3, <1>15 DEF Laid
    <3>2. x = q \/ (x \in DOMAIN f /\ f2[x] = f[x])
      BY <1>12, <3>1 DEF PutHeadTo
    <3> QED  BY <1>16, <2>8, <3>2
  <2> QED  BY <1>16, <2>1, <2>2, <2>3, <2>4, <2>5, <2>6, <2>7, <2>8, <2>9, <2>10 DEF TopMoved
<1>18. Segment(h2, f2, m.segbase, q, z) /\ BeforeTop(h, h2, p, p, q)
  <2>1. /\ Segment(h, f, m.segbase, p, m.topsize) /\ p <= p /\ q - p >= MinChunk
        /\ q + z = p + m.topsize /\ TopMoved(h, f, h2, f2, p, q, z, p + m.topsize)
    BY <1>3, <1>9, <1>10, <1>17
  <2> QED  BY <1>9, <1>10, <2>1, SegmentTopMoved
<1>19. /\ Keeps(m, n, ChunkFields) /\ n.top = q /\ n.topsize = z
       /\ n.bins = m.bins /\ n.dv = m.dv /\ n.dvsize = m.dvsize
  BY <1>8, <1>12, <1>15 DEF KeepsTags, Keeps, HeapFields, ChunkFields
<1>20. PICK F : F = FreeIn(h, p)
  OBVIOUS
<1>21. FreeIn(h2, q) = F
  BY <1>18, <1>20 DEF BeforeTop, FreeIn
<1>22. UsedIn(h2) = UsedIn(h) \cup {p}
  <2>1. \A x \in UsedIn(h) : x < p
    BY <1>9, ChunkIs DEF UsedIn
  <2> QED  BY <1>10, <1>18, <2>1 DEF BeforeTop
<1>23. Listed(n, F, h2)
  <2>1. \A x \in F : h2[x].size = h[x].size
    BY <1>18, <1>20 DEF BeforeTop, FreeIn
  <2>2. Listed(m, F, h)
    BY <1>2, <1>3, <1>20
  <2> QED  BY <1>19, <2>1, <2>2, ListedFrame
<1>24. Sound(n, F)
  <2>1. n.top # NULL
    <3>1. HeapStart <= m.segbase /\ m.segbase \in Int /\ m.segbase <= p
      BY <1>9, SegmentIs
    <3> QED  BY <1>10, <1>19, <3>1, HeapAssumption DEF NULL
  <2>2. /\ n.top + n.topsize = m.top + m.topsize /\ DOMAIN n.bins = DOMAIN m.bins
        /\ Segment(n.head, n.foot, m.segbase, n.top, n.topsize) /\ Listed(n, F, n.head)
    BY <1>3, <1>10, <1>11, <1>18, <1>19, <1>23
  <2> QED  BY <1>1, <1>19, <2>1, <2>2, SoundAgain
<1>25. Grown(n)
  BY <1>11, <1>19, <1>21, <1>24 DEF Grown
<1>26. p \notin UsedIn(h) /\ h2[p].size = nb /\ \A x \in UsedIn(h) : h2[x].size = h[x].size
  <2>1. ~h[p].cinuse
    BY <1>9, TopIs
  <2>2. \A x \in UsedIn(h) : x \in DOMAIN h /\ x < p
    BY <1>9, ChunkIs DEF UsedIn
  <2>3. h2[p].size = nb
    BY <1>10, <1>17 DEF TopMoved
  <2> QED  BY <1>18, <2>1, <2>2, <2>3 DEF UsedIn, BeforeTop
<1>27. nb <= nb /\ nb < nb + MinChunk
  BY ListsAssumption
<1>28. Called(m, n) /\ n.brk = m.brk
  <2>1. Keeps(m, n, StillFields)
    BY <1>19 DEF Keeps, StillFields
  <2> QED  BY <2>1, StillCalled
<1>29. UsedBefore(h2, p)
  <2>1. h2[p] = Tag(nb, TRUE, TRUE)
    BY <1>15 DEF Laid
  <2> QED  BY <2>1 DEF Tag, UsedBefore
<1>30. Obtained(m, n, p, nb)
  BY <1>3, <1>11, <1>22, <1>25, <1>26, <1>27, <1>28, <1>29 DEF Obtained, Acquired, SizesKept
<1> QED  BY <1>7, <1>30

-----------------------------------------------------------------------------
(* System allocation                                                       *)

(* Division rounds down.                                                   *)
LEMMA DivBounds ==
  ASSUME NEW x \in Nat, NEW g \in Nat, g > 0
  PROVE  (x \div g) \in Nat /\ (x \div g) * g <= x /\ x < (x \div g) * g + g
OBVIOUS

(* Between two multiples there is room for the divisor.                    *)
LEMMA MultipleBelow ==
  ASSUME NEW k \in Nat, NEW a \in Nat, NEW g \in Nat, g > 0, a % g = 0, k * g < a
  PROVE  k * g + g <= a
<1>1. PICK j \in Int : a = j * g
  <2>1. a = (a \div g) * g + (a % g) /\ (a \div g) \in Int
    OBVIOUS
  <2>2. PICK j \in Int : j = a \div g
    BY <2>1
  <2> QED  BY <2>1, <2>2
<1>2. k < j
  <2>1. SUFFICES ASSUME j <= k PROVE FALSE
    OBVIOUS
  <2>2. PICK d \in Nat : k = j + d
    BY <2>1
  <2>3. k * g = j * g + d * g
    BY <2>2
  <2>4. d * g >= 0
    OBVIOUS
  <2> QED  BY <1>1, <2>3, <2>4
<1>3. PICK d \in Nat : j = k + 1 + d
  BY <1>2
<1>4. j * g = k * g + g + d * g
  BY <1>3
<1>5. d * g >= 0
  OBVIOUS
<1> QED  BY <1>1, <1>4, <1>5

(* A multiple has no remainder.                                            *)
LEMMA MultipleMod ==
  ASSUME NEW k \in Nat, NEW a \in Nat, a > 0
  PROVE  (k * a) % a = 0
<1>1. PICK x \in Nat : x = k * a
  OBVIOUS
<1>2. PICK d \in Nat : d = x \div a
  OBVIOUS
<1>3. d * a <= x /\ x < d * a + a
  BY <1>1, <1>2, DivBounds
<1>4. k = d
  <2>1. ~(k < d)
    <3>1. k < d => k * a < d * a
      BY Z3
    <3> QED  BY <1>1, <1>3, <3>1
  <2>2. ~(d < k)
    <3>1. d < k => (d + 1) * a <= k * a
      BY Z3
    <3>2. (d + 1) * a = d * a + a
      BY Z3
    <3> QED  BY <1>1, <1>3, <3>1, <3>2
  <2> QED  BY <2>1, <2>2
<1>5. x % a = x - a * (x \div a)
  BY Z3
<1>6. a * d = k * a
  BY <1>4, Z3
<1> QED  BY <1>1, <1>2, <1>5, <1>6

(* Arithmetic modulo the word size, where it wraps once.                   *)
LEMMA WordIs ==
  ASSUME NEW x \in Int
  PROVE  Word(x) \in Nat /\ Word(x) < AddrSpace /\ (0 <= x /\ x < AddrSpace => Word(x) = x)
         /\ (AddrSpace <= x /\ x < AddrSpace + AddrSpace => Word(x) = x - AddrSpace)
BY ListsAssumption DEF Word

(* Aligning an integer gives a multiple of the granularity in the address  *)
(* space: the first one from there on, unless that is the end of the space.*)
LEMMA AlignedSpace ==
  ASSUME NEW w \in Int, NEW a, a = GranularityAlign(w)
  PROVE  /\ a \in Nat /\ a + Granularity <= AddrSpace
         /\ 0 <= w /\ w < AddrSpace =>
              \/ w <= a /\ a < w + Granularity
              \/ a = 0 /\ w + Granularity > AddrSpace
<1>1. /\ Granularity \in Nat /\ Granularity > 0 /\ AddrSpace \in Nat /\ AddrSpace % Granularity = 0
      /\ Granularity < AddrSpace
  BY TagsAssumption, ListsAssumption, HeapAssumption DEF HalfMax
<1>2. PICK x \in Nat : x = Word(w + Granularity - 1) /\ x < AddrSpace
  BY <1>1, WordIs
<1>3. PICK k \in Nat : k = x \div Granularity
  BY <1>1, DivBounds
<1>4. a = k * Granularity /\ k * Granularity \in Nat
  BY <1>1, <1>2, <1>3 DEF GranularityAlign
<1>5. a <= x /\ x < a + Granularity
  BY <1>1, <1>3, <1>4, DivBounds
<1>6. a + Granularity <= AddrSpace
  <2>1. k * Granularity < AddrSpace
    BY <1>1, <1>2, <1>4, <1>5
  <2> QED  BY <1>1, <1>4, <2>1, MultipleBelow
<1>7. ASSUME 0 <= w, w < AddrSpace
      PROVE  (w <= a /\ a < w + Granularity) \/ (a = 0 /\ w + Granularity > AddrSpace)
  <2>1. CASE w + Granularity - 1 < AddrSpace
    <3>1. x = w + Granularity - 1
      BY <1>1, <1>2, <1>7, <2>1, WordIs
    <3>2. a \in Nat
      BY <1>4
    <3>3. w <= a /\ a < w + Granularity
      BY <1>1, <1>5, <3>1, <3>2
    <3> QED  BY <3>3
  <2>2. CASE w + Granularity - 1 >= AddrSpace
    <3>1. x = w + Granularity - 1 - AddrSpace
      BY <1>1, <1>2, <1>7, <2>2, WordIs
    <3>2. x < Granularity
      BY <1>1, <1>7, <3>1
    <3>3. k = 0
      BY <1>1, <1>3, <3>2
    <3> QED  BY <1>1, <1>4, <2>2, <3>3
  <2> QED  BY <1>1, <2>1, <2>2
<1> QED  BY <1>4, <1>6, <1>7

(* Aligning keeps the order, where it does not wrap.                       *)
LEMMA AlignedOrder ==
  ASSUME NEW x \in Nat, NEW y \in Nat, x <= y, y < AddrSpace,
         NEW a, a = GranularityAlign(x), NEW c, c = GranularityAlign(y), c # 0
  PROVE  x <= a /\ a <= c
<1>1. Granularity \in Nat /\ Granularity > 0 /\ AddrSpace \in Nat
  BY TagsAssumption, ListsAssumption
<1>2. a \in Nat /\ c \in Nat /\ c + Granularity <= AddrSpace
  BY AlignedSpace
<1>3. y <= c
  BY AlignedSpace
<1>4. x + Granularity <= AddrSpace /\ x < AddrSpace
  BY <1>1, <1>2, <1>3
<1>5. (x <= a /\ a < x + Granularity) \/ (a = 0 /\ x + Granularity > AddrSpace)
  BY <1>1, <1>4, AlignedSpace
<1>6. x <= a /\ a < x + Granularity
  BY <1>1, <1>4, <1>5
<1>7. PICK k \in Nat : c = k * Granularity
  <2>1. PICK w \in Nat : w = Word(y + Granularity - 1)
    BY <1>1, WordIs
  <2>2. PICK k \in Nat : k = w \div Granularity
    BY <1>1, <2>1, DivBounds
  <2> QED  BY <2>1, <2>2 DEF GranularityAlign
<1>8. a % Granularity = 0
  <2>1. PICK w \in Nat : w = Word(x + Granularity - 1)
    BY <1>1, WordIs
  <2>2. PICK j \in Nat : j = w \div Granularity
    BY <1>1, <2>1, DivBounds
  <2>3. a = j * Granularity
    BY <2>1, <2>2 DEF GranularityAlign
  <2> QED  BY <1>1, <2>3, MultipleMod
<1>9. ~(c < a)
  <2> SUFFICES ASSUME c < a PROVE FALSE
    OBVIOUS
  <2>1. c + Granularity <= a
    BY <1>1, <1>2, <1>7, <1>8, MultipleBelow
  <2> QED  BY <1>1, <1>2, <1>3, <1>6, <2>1
<1> QED  BY <1>2, <1>6, <1>9

(* What MORECORE is asked for: no more than the limit allows, and enough   *)
(* for a top chunk that is larger than nb.                                 *)
Affordable(m, i) == \A z \in Int : Capped(m, z) => m.footprint + i <= z
Ample(m, i, nb) == IF m.top = NULL THEN i > nb + TopFoot ELSE m.topsize + i > nb
Suitable(m, i, nb) == Affordable(m, i) /\ Ample(m, i, nb)

(* What footprint_limit allows is within the limit there is, when there is *)
(* one.                                                                    *)
LEMMA AffordableIs ==
  ASSUME NEW m, m.footprint \in Int, NEW i \in Int, UnderLimit(m, m.footprint + i)
  PROVE  Affordable(m, i)
<1> SUFFICES ASSUME NEW z \in Int, Capped(m, z) PROVE m.footprint + i <= z
  BY DEF Affordable
<1>1. m.footprint_limit \in 1 .. z
  BY DEF Capped
<1>2. m.footprint + i <= m.footprint_limit
  BY <1>1 DEF UnderLimit
<1> QED  BY <1>1, <1>2

(* What a call of MORECORE makes of the heap m: nothing, or memory from    *)
(* the break on, as much as was wanted.                                    *)
Moved(m, got, nb) ==
  /\ Keeps(m, got.heap, {"brk", "contiguous"}) /\ got.heap.contiguous \in BOOLEAN
  /\ \/ got.base = Sys!MFAIL /\ got.heap.brk = m.brk
     \/ /\ got.base = m.brk /\ got.size \in Nat /\ got.heap.brk = m.brk + got.size
        /\ got.heap.brk <= HeapEnd /\ Sys!Grantable(got.heap.brk) /\ Suitable(m, got.size, nb)

(* A call of MORECORE moves the break, or returns MFAIL and does not.      *)
LEMMA CallMorecoreIs ==
  ASSUME NEW m, DOMAIN m = HeapFields, m.contiguous \in BOOLEAN, m.brk \in HeapStart .. HeapEnd,
         NEW i \in Nat, i < HalfMax, NEW nb, Suitable(m, i, nb),
         NEW got, got = CallMorecore(m, i)
  PROVE  Moved(m, got, nb)
<1>1. PICK b \in HeapStart .. HeapEnd : b = m.brk
  OBVIOUS
<1>2. PICK c : c = Sys!BreakAfter(b, i)
  OBVIOUS
<1>3. /\ got.heap = [m EXCEPT !.brk = c] /\ got.base = Sys!SbrkReturns(b, i) /\ got.size = i
  BY <1>1, <1>2 DEF CallMorecore, HeapFields
<1>4. Keeps(m, got.heap, {"brk", "contiguous"}) /\ got.heap.contiguous \in BOOLEAN /\ got.heap.brk = c
  BY <1>3 DEF Keeps, HeapFields
<1>5. /\ HeapStart \in Nat /\ HeapSize \in Nat /\ AddrSpace \in Nat /\ HeapEnd = HeapStart + HeapSize
      /\ HeapEnd < AddrSpace /\ HeapSize < HalfMax /\ HalfMax + HalfMax <= AddrSpace /\ HalfMax \in Int
  BY HeapAssumption DEF HeapEnd, HalfMax
<1>6. PICK w \in Int : w = Sys!Wrap(b + i)
  BY <1>5 DEF Sys!Wrap
<1>7. CASE Sys!Grantable(w)
  <2>1. c = w /\ got.base = b /\ HeapStart <= w /\ w < HeapEnd
    BY <1>2, <1>3, <1>6, <1>7, Zenon DEF Sys!BreakAfter, Sys!SbrkReturns, Sys!Grantable
  <2>2. w = b + i
    BY <1>5, <1>6, <2>1 DEF Sys!Wrap
  <2>3. c = b + i /\ c <= HeapEnd
    BY <1>5, <1>6, <2>1, <2>2
  <2>4. Sys!Grantable(c)
    BY <1>7, <2>1
  <2>5. Suitable(m, got.size, nb)
    BY <1>3
  <2>6. got.base = m.brk /\ got.size \in Nat /\ got.heap.brk = m.brk + got.size
    BY <1>1, <1>3, <1>4, <2>1, <2>3
  <2>7. got.heap.brk <= HeapEnd /\ Sys!Grantable(got.heap.brk)
    BY <1>4, <2>3, <2>4
  <2> QED  BY <1>4, <2>5, <2>6, <2>7 DEF Moved
<1>8. CASE ~Sys!Grantable(w)
  <2>1. c = b /\ got.base = Sys!MFAIL
    BY <1>2, <1>3, <1>6, <1>8, Zenon DEF Sys!BreakAfter, Sys!SbrkReturns
  <2> QED  BY <1>1, <1>4, <2>1 DEF Moved
<1> QED  BY <1>7, <1>8

(* What malloc() asks of the system, in whole pages, for a chunk of nb     *)
(* granules and the foot of a segment.                                     *)
Rounded(nb, asize) ==
  /\ asize + Granularity <= AddrSpace /\ nb + SysPadding < AddrSpace
  /\ nb + SysPadding <= asize /\ asize = GranularityAlign(nb + SysPadding)

(* A heap whose break is in the heap region.                               *)
Breaking(m) == DOMAIN m = HeapFields /\ m.contiguous \in BOOLEAN /\ m.brk \in HeapStart .. HeapEnd

(* No call of MORECORE, and an answer of MFAIL.                            *)
LEMMA RefusedIs ==
  ASSUME NEW m, Breaking(m), NEW got, got = Refused(m), NEW nb
  PROVE  Moved(m, got, nb)
BY DEF Refused, Moved, Keeps, Breaking

(* sys_alloc's attempt to extend the heap where it ends.                   *)
LEMMA ContiguousMorecoreIs ==
  ASSUME NEW m, Breaking(m), NEW nb \in Nat, m.topsize \in 0 .. nb, m.footprint \in Int,
         NEW asize \in Nat, Rounded(nb, asize), Affordable(m, asize),
         NEW got, got = ContiguousMorecore(m, nb, asize)
  PROVE  Moved(m, got, nb)
<1>1. /\ AddrSpace \in Nat /\ Granularity \in Nat /\ TopFoot \in Nat /\ SysPadding \in Int
      /\ HeapStart \in Nat /\ HeapSize \in Nat /\ HeapEnd = HeapStart + HeapSize /\ HeapEnd < AddrSpace
      /\ TopFoot < Granularity /\ SysPadding = TopFoot + 1
      /\ asize + Granularity <= AddrSpace /\ nb + SysPadding < AddrSpace
      /\ nb + SysPadding <= asize /\ asize = GranularityAlign(nb + SysPadding)
  BY HeapAssumption, TagsAssumption DEF HeapEnd, SysPadding, Rounded
<1>2. DOMAIN m = HeapFields /\ m.contiguous \in BOOLEAN /\ m.brk \in HeapStart .. HeapEnd
  BY DEF Breaking
<1>3. CASE m.top # NULL
  <2>1. PICK i : i = GranularityAlign(nb - m.topsize + SysPadding)
    OBVIOUS
  <2>2. nb - m.topsize + SysPadding \in Int
    BY <1>1
  <2>3. i \in Nat
    BY <2>1, <2>2, AlignedSpace
  <2>4. got = ExtendMorecore(m, i)
    BY <1>3, <2>1 DEF ContiguousMorecore
  <2>7. nb - m.topsize + SysPadding <= i /\ i <= asize
    <3>1. PICK x \in Nat, y \in Nat : x = nb - m.topsize + SysPadding /\ y = nb + SysPadding
      BY <1>1
    <3>2. x <= y /\ y < AddrSpace /\ asize # 0 /\ asize = GranularityAlign(y) /\ i = GranularityAlign(x)
      BY <1>1, <2>1, <3>1
    <3>3. x <= i /\ i <= asize
      BY <3>2, AlignedOrder
    <3> QED  BY <3>1, <3>3
  <2>8. Suitable(m, i, nb)
    <3>1. Affordable(m, i)
      BY <2>3, <2>7 DEF Affordable
    <3>2. m.topsize + i > nb
      BY <1>1, <2>3, <2>7
    <3> QED  BY <1>3, <3>1, <3>2 DEF Suitable, Ample
  <2>5. CASE i < HalfMax
    <3>1. got = CallMorecore(m, i)
      BY <2>4, <2>5 DEF ExtendMorecore
    <3> QED  BY <1>2, <2>3, <2>5, <2>8, <3>1, CallMorecoreIs
  <2>6. CASE ~(i < HalfMax)
    BY <2>4, <2>6, RefusedIs DEF ExtendMorecore
  <2> QED  BY <2>5, <2>6
<1>4. CASE m.top = NULL
  <2>1. PICK b \in HeapStart .. HeapEnd : b = m.brk
    BY <1>2
  <2>2. PICK g \in Nat : g = GranularityAlign(b)
    BY <2>1, <1>1, AlignedSpace
  <2>3. (b <= g /\ g < b + Granularity) \/ (g = 0 /\ b + Granularity > AddrSpace)
    BY <1>1, <2>1, <2>2, AlignedSpace
  <2>4. PICK i \in Int : i = asize + g - b
    BY <1>1, <2>1
  <2>5. CASE Sys!SbrkReturns(m.brk, 0) = Sys!MFAIL
    <3>1. got = Refused(m)
      BY <1>4, <2>5, Zenon DEF ContiguousMorecore
    <3> QED  BY <3>1, RefusedIs
  <2>6. CASE Sys!SbrkReturns(m.brk, 0) # Sys!MFAIL
    <3>1. got = FirstMorecore(m, nb, i)
      <4>1. i = asize + GranularityAlign(m.brk) - m.brk
        BY <2>1, <2>2, <2>4
      <4> QED  BY <1>4, <2>6, <4>1, Zenon DEF ContiguousMorecore
    <3>2. CASE i > nb /\ i < HalfMax /\ UnderLimit(m, m.footprint + i)
      <4>1. got = CallMorecore(m, i)
        BY <3>1, <3>2, Zenon DEF FirstMorecore
      <4>2. i \in Nat /\ i < HalfMax
        BY <3>2
      <4>3. i > nb + TopFoot
        BY <1>1, <2>1, <2>3, <2>4, <4>2
      <4>4. Affordable(m, i)
        BY <3>2, <4>2, AffordableIs
      <4>5. Suitable(m, i, nb)
        BY <1>4, <4>3, <4>4 DEF Suitable, Ample
      <4> QED  BY <1>2, <4>1, <4>2, <4>5, CallMorecoreIs
    <3>3. CASE ~(i > nb /\ i < HalfMax /\ UnderLimit(m, m.footprint + i))
      <4>1. got = Refused(m)
        BY <3>1, <3>3, Zenon DEF FirstMorecore
      <4> QED  BY <4>1, RefusedIs
    <3> QED  BY <3>2, <3>3
  <2> QED  BY <2>5, <2>6
<1> QED  BY <1>3, <1>4

(* sys_alloc's attempt to get memory wherever MORECORE has some.           *)
LEMMA NoncontiguousMorecoreIs ==
  ASSUME NEW m, Breaking(m), NEW nb \in Nat, m.topsize \in 0 .. nb,
         NEW asize \in Nat, Affordable(m, asize),
         NEW got, got = NoncontiguousMorecore(m, nb, asize)
  PROVE  Moved(m, got, nb)
<1>1. CASE asize < HalfMax /\ asize > nb + TopFoot
  <2>1. got = CallMorecore(m, asize)
    BY <1>1, Zenon DEF NoncontiguousMorecore
  <2>2. asize > nb + TopFoot /\ m.topsize + asize > nb
    BY <1>1, TagsAssumption
  <2>3. Suitable(m, asize, nb)
    BY <2>2 DEF Suitable, Ample
  <2> QED  BY <1>1, <2>1, <2>3, CallMorecoreIs DEF Breaking
<1>2. CASE ~(asize < HalfMax /\ asize > nb + TopFoot)
  <2>1. got = Refused(m)
    BY <1>2, Zenon DEF NoncontiguousMorecore
  <2> QED  BY <2>1, RefusedIs
<1> QED  BY <1>1, <1>2

(* The two attempts, one after the other.                                  *)
LEMMA MorecoreIs ==
  ASSUME NEW m, Breaking(m), NEW nb \in Nat, m.topsize \in 0 .. nb, m.footprint \in Int,
         NEW asize \in Nat, Rounded(nb, asize), Affordable(m, asize),
         NEW got, got = Morecore(m, nb, asize)
  PROVE  Moved(m, got, nb)
<1>1. CASE ~m.contiguous
  <2>1. got = NoncontiguousMorecore(m, nb, asize)
    BY <1>1, Zenon DEF Morecore
  <2> QED  BY <2>1, NoncontiguousMorecoreIs
<1>2. CASE m.contiguous
  <2>1. PICK tried : tried = ContiguousMorecore(m, nb, asize)
    OBVIOUS
  <2>2. got = OrNoncontiguous(tried, nb, asize)
    BY <1>2, <2>1, Zenon DEF Morecore
  <2>3. Moved(m, tried, nb)
    BY <2>1, ContiguousMorecoreIs
  <2>4. CASE tried.base # Sys!MFAIL
    <3>1. got = tried
      BY <2>2, <2>4, Zenon DEF OrNoncontiguous
    <3> QED  BY <2>3, <3>1
  <2>5. CASE tried.base = Sys!MFAIL
    <3>1. PICK k : k = [tried.heap EXCEPT !.contiguous = FALSE]
      OBVIOUS
    <3>2. got = NoncontiguousMorecore(k, nb, asize)
      BY <2>2, <2>5, <3>1, Zenon DEF OrNoncontiguous
    <3>3. tried.heap.brk = m.brk /\ Keeps(m, tried.heap, {"brk", "contiguous"})
      <4>1. m.brk # Sys!MFAIL
        BY HeapAssumption DEF Breaking, Sys!MFAIL
      <4> QED  BY <2>3, <2>5, <4>1 DEF Moved
    <3>4. /\ Keeps(m, k, {"brk", "contiguous"}) /\ k.brk = m.brk /\ k.top = m.top
          /\ k.topsize = m.topsize /\ k.footprint = m.footprint
          /\ k.footprint_limit = m.footprint_limit /\ k.contiguous \in BOOLEAN
      BY <3>1, <3>3 DEF Keeps, HeapFields
    <3>5. Breaking(k)
      BY <3>4 DEF Breaking, Keeps
    <3>8. \A i : Affordable(k, i) <=> Affordable(m, i)
      BY <3>4 DEF Affordable, Capped
    <3>9. \A i : Suitable(k, i, nb) <=> Suitable(m, i, nb)
      BY <3>4, <3>8 DEF Suitable, Ample
    <3>6. Moved(k, got, nb)
      BY <3>2, <3>4, <3>5, <3>8, NoncontiguousMorecoreIs
    <3>7. Keeps(m, got.heap, {"brk", "contiguous"})
      BY <3>4, <3>6 DEF Moved, Keeps
    <3> QED  BY <3>4, <3>6, <3>7, <3>9 DEF Moved
  <2> QED  BY <2>4, <2>5
<1> QED  BY <1>1, <1>2

(* init_top made the top chunk the one from p to e, and capped it there.   *)
InitTopTo(h, f, h2, f2, p, e) ==
  /\ \A x : x \in DOMAIN h2 <=> x = p \/ x = e \/ (x \in DOMAIN h /\ x < p)
  /\ h2[p] = Tag(e - p, FALSE, TRUE) /\ h2[e] = Tag(TopFoot, FALSE, FALSE)
  /\ \A x \in DOMAIN h : x < p => h2[x] = h[x]
  /\ \A x : x \in DOMAIN f2 <=> x \in DOMAIN f /\ x <= p
  /\ \A x \in DOMAIN f2 : f2[x] = f[x]

TopFields == {"head", "foot", "top", "topsize", "trim_check"}

(* The words from e on were replaced by the head of the fake chunk.        *)
CappedTo(h, f, h2, f2, e) ==
  /\ DOMAIN h2 = {x \in DOMAIN h : x < e} \cup {e}
  /\ h2[e] = Tag(TopFoot, FALSE, FALSE)
  /\ \A x \in DOMAIN h : x < e /\ x # e => h2[x] = h[x]
  /\ DOMAIN f2 = {x \in DOMAIN f : x < e}
  /\ \A x \in DOMAIN f2 : f2[x] = f[x]

(* The fake chunk's head replaces what was beyond the end of the top       *)
(* chunk.                                                                  *)
LEMMA CapSegmentIs ==
  ASSUME NEW m, DOMAIN m = HeapFields, NEW e, NEW n, n = CapSegment(m, e)
  PROVE  KeepsTags(m, n) /\ CappedTo(m.head, m.foot, n.head, n.foot, e)
<1>1. KeepsTags(m, n)
  BY DEF CapSegment, KeepsTags, Keeps, HeapFields
<1>2. /\ n.head = Put([x \in {y \in DOMAIN m.head : y < e} |-> m.head[x]], e, Tag(TopFoot, FALSE, FALSE))
      /\ n.foot = [x \in {y \in DOMAIN m.foot : y < e} |-> m.foot[x]]
  BY DEF CapSegment, HeapFields, Tag
<1> QED  BY <1>1, <1>2 DEF Put, CappedTo

(* init_top makes a top chunk of the given size and caps it.               *)
LEMMA InitTopIs ==
  ASSUME NEW m, DOMAIN m = HeapFields, DOMAIN m.head \subseteq Int, DOMAIN m.foot \subseteq Int,
         NEW p \in Int, NEW s \in Int, s > 0, NEW n, n = InitTop(m, p, s)
  PROVE  /\ Keeps(m, n, TopFields)
         /\ n.top = p /\ n.topsize = s /\ n.trim_check = TrimThreshold
         /\ InitTopTo(m.head, m.foot, n.head, n.foot, p, p + s)
<1>1. PICK j : j = [m EXCEPT !.top = p, !.topsize = s, !.trim_check = TrimThreshold]
  OBVIOUS
<1>2. PICK k : k = PutHead(j, p, s, FALSE, TRUE)
  OBVIOUS
<1>3. n = CapSegment(k, p + s)
  BY <1>1, <1>2 DEF InitTop
<1>4. /\ DOMAIN j = HeapFields /\ j.head = m.head /\ j.foot = m.foot /\ Keeps(m, j, TopFields)
      /\ j.top = p /\ j.topsize = s /\ j.trim_check = TrimThreshold
  BY <1>1 DEF Keeps, HeapFields, TopFields
<1>5. PICK h, f, h1, f1, h2, f2, e : /\ h = m.head /\ f = m.foot /\ h1 = k.head /\ f1 = k.foot
                                     /\ h2 = n.head /\ f2 = n.foot /\ e = p + s
  OBVIOUS
<1>6. KeepsTags(j, k) /\ PutHeadTo(h, f, h1, f1, p, s, Tag(s, FALSE, TRUE))
  BY <1>2, <1>4, <1>5, PutHeadIs
<1>7. /\ KeepsTags(k, n) /\ DOMAIN h2 = {x \in DOMAIN h1 : x < e} \cup {e}
      /\ h2[e] = Tag(TopFoot, FALSE, FALSE) /\ \A x \in DOMAIN h1 : x < e /\ x # e => h2[x] = h1[x]
      /\ DOMAIN f2 = {x \in DOMAIN f1 : x < e} /\ \A x \in DOMAIN f2 : f2[x] = f1[x]
  <2>1. DOMAIN k = HeapFields
    BY <1>6 DEF KeepsTags, Keeps
  <2>2. KeepsTags(k, n) /\ CappedTo(h1, f1, h2, f2, e)
    BY <1>3, <1>5, <2>1, CapSegmentIs
  <2> QED  BY <2>2 DEF CappedTo
<1>8. /\ Keeps(m, n, TopFields) /\ n.top = p /\ n.topsize = s /\ n.trim_check = TrimThreshold
  BY <1>4, <1>6, <1>7 DEF KeepsTags, Keeps, HeapFields, TopFields
<1>9. DOMAIN h \subseteq Int /\ DOMAIN f \subseteq Int /\ e \in Int /\ p < e /\ e - p = s
  BY <1>5
<1>10. \A x : x \in DOMAIN h2 <=> x = p \/ x = e \/ (x \in DOMAIN h /\ x < p)
  <2> TAKE x
  <2>1. x \in DOMAIN h1 <=> x = p \/ (x \in DOMAIN h /\ (x <= p \/ x >= e))
    BY <1>5, <1>6 DEF PutHeadTo
  <2>2. x \in DOMAIN h2 <=> x = e \/ (x \in DOMAIN h1 /\ x < e)
    BY <1>7
  <2>3. CASE x \in Int
    BY <1>9, <2>1, <2>2, <2>3
  <2>4. CASE x \notin Int
    BY <1>9, <2>1, <2>2, <2>4
  <2> QED  BY <2>3, <2>4
<1>11. h2[p] = Tag(e - p, FALSE, TRUE)
  <2>1. p \in DOMAIN h1 /\ h1[p] = Tag(s, FALSE, TRUE)
    BY <1>6 DEF PutHeadTo
  <2>2. p < e /\ p # e
    BY <1>9
  <2> QED  BY <1>7, <1>9, <2>1, <2>2
<1>12. \A x \in DOMAIN h : x < p => h2[x] = h[x]
  <2> SUFFICES ASSUME NEW x \in DOMAIN h, x < p PROVE h2[x] = h[x]
    OBVIOUS
  <2>1. x \in Int /\ x <= p /\ x # p /\ x < e /\ x # e
    BY <1>9
  <2>2. x \in DOMAIN h1 /\ h1[x] = h[x]
    BY <1>6, <2>1 DEF PutHeadTo
  <2> QED  BY <1>7, <2>1, <2>2
<1>13. \A x : x \in DOMAIN f2 <=> x \in DOMAIN f /\ x <= p
  <2> TAKE x
  <2>1. x \in DOMAIN f2 <=> x \in DOMAIN f /\ (x <= p \/ x >= e) /\ x < e
    BY <1>5, <1>6, <1>7 DEF PutHeadTo
  <2> QED  BY <1>9, <2>1
<1>14. \A x \in DOMAIN f2 : f2[x] = f[x]
  BY <1>5, <1>6, <1>7 DEF PutHeadTo
<1>15. InitTopTo(h, f, h2, f2, p, e)
  BY <1>7, <1>10, <1>11, <1>12, <1>13, <1>14 DEF InitTopTo
<1> QED  BY <1>5, <1>8, <1>15

(* The heap of a program that has obtained no memory yet.                  *)
Empty(m) ==
  /\ DOMAIN m = HeapFields /\ m.ok = TRUE
  /\ DOMAIN m.bins = MinChunk .. HeapSize /\ \A s \in DOMAIN m.bins : m.bins[s] = <<>>
  /\ m.top = NULL /\ m.topsize = 0 /\ m.dv = NULL /\ m.dvsize = 0
  /\ DOMAIN m.head = {} /\ DOMAIN m.foot = {}
  /\ m.segbase = 0 /\ m.segsize = 0 /\ m.brk = HeapStart
  /\ m.footprint = 0 /\ m.max_footprint = 0 /\ m.trim_check = 0 /\ m.contiguous \in BOOLEAN

(* A heap between two calls.                                               *)
Heap(m) == Empty(m) \/ Grown(m)

(* n is a heap with the chunks in use of m.                                *)
SameBlocks(m, n) ==
  /\ Heap(n) /\ UsedIn(n.head) = UsedIn(m.head) /\ SizesKept(m.head, n.head, UsedIn(m.head))
  /\ Called(m, n)

(* The memory of the heap goes up to e: the counts agree.                  *)
CountedTo(m, e) ==
  /\ m.segsize \in Int /\ m.segbase + m.segsize = e /\ m.brk = e
  /\ m.footprint = m.segsize /\ m.max_footprint \in Int /\ m.footprint <= m.max_footprint
  /\ m.contiguous \in BOOLEAN

CountFields == {"segsize", "brk", "contiguous", "footprint", "max_footprint"}

(* The top chunk begins where it did and has another size, the break       *)
(* having moved with it: a sound heap, with the same chunks in use.        *)
LEMMA TopResized ==
  ASSUME NEW m, Grown(m), NEW j, Keeps(m, j, CountFields), NEW s \in Int, s > 0,
         m.top + s + TopFoot <= HeapEnd, CountedTo(j, m.top + s + TopFoot), BreakMoves(m, j),
         NEW n, n = InitTop(j, m.top, s)
  PROVE  /\ Grown(n) /\ SameBlocks(m, n) /\ n.top = m.top /\ n.topsize = s
         /\ Keeps(j, n, TopFields)
<1>1. Sound(m, FreeIn(m.head, m.top))
  BY DEF Grown
<1>2. /\ DOMAIN m = HeapFields /\ Segment(m.head, m.foot, m.segbase, m.top, m.topsize)
      /\ Listed(m, FreeIn(m.head, m.top), m.head) /\ DOMAIN m.bins = MinChunk .. HeapSize
      /\ m.top \in Int /\ m.topsize \in Int /\ m.ok = TRUE /\ m.top # NULL
  BY <1>1, SoundIs
<1>3. PICK h, f, h2, f2, p, e, a, z : /\ h = m.head /\ f = m.foot /\ p = m.top /\ e = m.top + s
                                      /\ h2 = n.head /\ f2 = n.foot /\ a = m.segbase /\ z = m.topsize
  OBVIOUS
<1>4. Segment(h, f, a, p, z) /\ DOMAIN h \subseteq Int /\ DOMAIN f \subseteq Int /\ p \in DOMAIN h /\ Words(h)
  BY <1>2, <1>3, SegmentIs
<1>5. p \in Int /\ e \in Int /\ p < e /\ p + s = e /\ e + TopFoot <= HeapEnd /\ e - p = s
  BY <1>2, <1>3, TagsAssumption
<1>6. DOMAIN j = HeapFields /\ j.head = h /\ j.foot = f
  BY <1>3 DEF Keeps, HeapFields, CountFields
<1>7. /\ Keeps(j, n, TopFields) /\ n.top = p /\ n.topsize = s /\ n.trim_check = TrimThreshold
      /\ InitTopTo(h, f, h2, f2, p, e)
  <2>1. n = InitTop(j, p, s) /\ DOMAIN j.head \subseteq Int /\ DOMAIN j.foot \subseteq Int
    BY <1>3, <1>4, <1>6
  <2>2. /\ Keeps(j, n, TopFields) /\ n.top = p /\ n.topsize = s /\ n.trim_check = TrimThreshold
        /\ InitTopTo(j.head, j.foot, n.head, n.foot, p, p + s)
    BY <1>5, <1>6, <2>1, InitTopIs
  <2> QED  BY <1>3, <1>5, <1>6, <2>2
<1>8. h[p].pinuse /\ \A x \in DOMAIN f : x <= p
  <2>1. h[p].pinuse
    BY <1>4, TopIs
  <2> QED  BY <1>4, <2>1 DEF Segment
<1>9. TopMoved(h, f, h2, f2, p, p, s, e)
  <2>1. p \in DOMAIN h2 /\ e \in DOMAIN h2 /\ h2[p] = Tag(s, FALSE, TRUE) /\ h2[e] = Tag(TopFoot, FALSE, FALSE)
    BY <1>5, <1>7 DEF InitTopTo
  <2>2. h2[p].pinuse
    BY <2>1 DEF Tag
  <2>3. \A x \in DOMAIN h : x < p => x \in DOMAIN h2 /\ h2[x] = h[x]
    BY <1>7 DEF InitTopTo
  <2>4. \A x \in DOMAIN h2 : (x \in DOMAIN h /\ x < p) \/ x = p \/ x = e
    BY <1>7 DEF InitTopTo
  <2>5. Words(h2)
    <3>1. Tag(s, FALSE, TRUE) \in [size : Int, cinuse : BOOLEAN, pinuse : BOOLEAN]
      BY TagInWords
    <3>2. Tag(TopFoot, FALSE, FALSE) \in [size : Int, cinuse : BOOLEAN, pinuse : BOOLEAN]
      <4>1. TopFoot \in Int
        BY TagsAssumption
      <4> QED  BY <4>1, TagInWords
    <3> QED  BY <1>4, <1>5, <2>1, <2>3, <2>4, <3>1, <3>2 DEF Words
  <2>6. \A x \in DOMAIN f : x <= p => x \in DOMAIN f2 /\ f2[x] = f[x]
    BY <1>7 DEF InitTopTo
  <2>7. \A x \in DOMAIN f2 : x \in DOMAIN f /\ x <= p /\ f2[x] = f[x]
    BY <1>7 DEF InitTopTo
  <2>8. ~(p < p)
    BY <1>5
  <2> QED  BY <1>8, <2>1, <2>2, <2>3, <2>4, <2>5, <2>6, <2>7, <2>8 DEF TopMoved
<1>10. Segment(h2, f2, a, p, s) /\ BeforeTop(h, h2, p, p, p)
  <2>1. p <= p /\ p = p /\ p + s = e
    BY <1>5
  <2> QED  BY <1>4, <1>5, <1>9, <2>1, SegmentEndMoved
<1>11. UsedIn(h2) = UsedIn(h)
  <2>1. \A x \in UsedIn(h) : x < p
    BY <1>4, ChunkIs DEF UsedIn
  <2>2. ~(p < p)
    BY <1>5
  <2> QED  BY <1>10, <2>1, <2>2 DEF BeforeTop
<1>12. PICK F : F = FreeIn(h, p)
  OBVIOUS
<1>13. FreeIn(h2, p) = F
  BY <1>10, <1>12 DEF BeforeTop, FreeIn
<1>14. /\ n.bins = m.bins /\ n.dv = m.dv /\ n.dvsize = m.dvsize /\ n.ok = m.ok /\ n.segbase = m.segbase
       /\ n.segsize = j.segsize /\ n.brk = j.brk /\ n.footprint = j.footprint
       /\ n.max_footprint = j.max_footprint /\ n.contiguous = j.contiguous
       /\ DOMAIN n = HeapFields /\ Keeps(m, n, CallFields) /\ n.footprint_limit = j.footprint_limit
  BY <1>7 DEF Keeps, HeapFields, CountFields, TopFields, CallFields, StillFields, ChunkFields
<1>21. Called(m, n)
  BY <1>14 DEF Called, BreakMoves, Capped
<1>15. Listed(n, F, h2)
  <2>1. \A x \in F : h2[x].size = h[x].size
    BY <1>10, <1>12 DEF BeforeTop, FreeIn
  <2>2. Listed(m, F, h)
    BY <1>2, <1>3, <1>12
  <2> QED  BY <1>14, <2>1, <2>2, ListedFrame
<1>16. Counted(n)
  <2>1. PICK E : E = m.top + s + TopFoot
    OBVIOUS
  <2>2. j.segbase = n.segbase
    BY <1>7 DEF Keeps, HeapFields, TopFields
  <2>3. CountedTo(j, E)
    BY <2>1
  <2>4. n.top + n.topsize + TopFoot = E
    BY <1>3, <1>7, <2>1
  <2>5. /\ n.segsize \in Int /\ n.segbase + n.segsize = E /\ n.brk = E /\ n.contiguous \in BOOLEAN
        /\ n.footprint = n.segsize /\ n.max_footprint \in Int /\ n.footprint <= n.max_footprint
    BY <1>14, <2>2, <2>3 DEF CountedTo
  <2>6. n.trim_check \in {TrimThreshold, MaxSize}
    BY <1>7
  <2> QED  BY <2>4, <2>5, <2>6 DEF Counted
<1>17. Sound(n, F)
  BY <1>2, <1>3, <1>7, <1>10, <1>14, <1>15, <1>16 DEF Sound
<1>18. Grown(n)
  BY <1>3, <1>7, <1>13, <1>17 DEF Grown
<1>19. SizesKept(h, h2, UsedIn(h))
  <2>1. \A x \in UsedIn(h) : x \in DOMAIN h /\ x < p
    BY <1>4, ChunkIs DEF UsedIn
  <2> QED  BY <1>10, <2>1 DEF SizesKept, BeforeTop
<1>20. SameBlocks(m, n)
  BY <1>3, <1>11, <1>18, <1>19, <1>21 DEF SameBlocks, Heap
<1> QED  BY <1>3, <1>7, <1>18, <1>20

FirstFields == CountFields \cup {"segbase"}

(* The first memory makes a sound heap of one top chunk.                   *)
LEMMA FirstTop ==
  ASSUME NEW m, Empty(m), NEW j, Keeps(m, j, FirstFields), NEW s \in Int, s > 0,
         HeapStart + s + TopFoot <= HeapEnd, CountedTo(j, HeapStart + s + TopFoot),
         j.segbase = HeapStart, BreakMoves(m, j),
         NEW n, n = InitTop(j, HeapStart, s)
  PROVE  /\ Grown(n) /\ SameBlocks(m, n) /\ n.topsize = s /\ Keeps(j, n, TopFields)
<1>1. /\ DOMAIN m = HeapFields /\ DOMAIN m.bins = MinChunk .. HeapSize
      /\ \A x \in DOMAIN m.bins : m.bins[x] = <<>>
      /\ m.dv = NULL /\ m.dvsize = 0 /\ m.ok = TRUE /\ DOMAIN m.head = {} /\ DOMAIN m.foot = {}
  BY DEF Empty
<1>2. PICK p, e, h2, f2 : p = HeapStart /\ e = HeapStart + s /\ h2 = n.head /\ f2 = n.foot
  OBVIOUS
<1>3. /\ p \in Int /\ e \in Int /\ p < e /\ p + s = e /\ e + TopFoot <= HeapEnd /\ e - p = s
      /\ p # NULL /\ TopFoot \in Int
  BY <1>2, HeapAssumption, TagsAssumption
<1>4. DOMAIN j = HeapFields /\ DOMAIN j.head = {} /\ DOMAIN j.foot = {}
  BY <1>1 DEF Keeps, HeapFields, CountFields, FirstFields
<1>5. /\ Keeps(j, n, TopFields) /\ n.top = p /\ n.topsize = s /\ n.trim_check = TrimThreshold
      /\ InitTopTo(j.head, j.foot, h2, f2, p, e)
  <2>1. DOMAIN j.head \subseteq Int /\ DOMAIN j.foot \subseteq Int
    BY <1>4
  <2>2. n = InitTop(j, p, s)
    BY <1>2
  <2> QED  BY <1>2, <1>3, <1>4, <2>1, <2>2, InitTopIs
<1>6. /\ DOMAIN h2 = {p, e} /\ h2[p] = Tag(s, FALSE, TRUE) /\ h2[e] = Tag(TopFoot, FALSE, FALSE)
      /\ DOMAIN f2 = {}
  BY <1>3, <1>4, <1>5 DEF InitTopTo
<1>7. Words(h2)
  <2>1. Tag(s, FALSE, TRUE) \in [size : Int, cinuse : BOOLEAN, pinuse : BOOLEAN]
    BY TagInWords
  <2>2. Tag(TopFoot, FALSE, FALSE) \in [size : Int, cinuse : BOOLEAN, pinuse : BOOLEAN]
    BY <1>3, TagInWords
  <2> QED  BY <1>3, <1>6, <2>1, <2>2 DEF Words
<1>8. h2[p].pinuse /\ ~h2[p].cinuse /\ ~h2[e].cinuse
  BY <1>6 DEF Tag
<1>9. Segment(h2, f2, p, p, s)
  <2>1. Tiles(h2, f2, p, p)
    <3>1. \A x \in DOMAIN h2 : ~(p <= x /\ x < p)
      BY <1>3, <1>6
    <3> QED  BY <1>3, <1>6, <3>1 DEF Tiles
  <2>2. \A x \in DOMAIN h2 : p <= x /\ (x <= p \/ x = p + s)
    BY <1>3, <1>6
  <2>3. p + s \in DOMAIN h2 /\ h2[p + s] = Tag(TopFoot, FALSE, FALSE)
    BY <1>3, <1>6
  <2>4. HeapStart <= p /\ p + s + TopFoot <= HeapEnd
    BY <1>2, <1>3
  <2> QED  BY <1>6, <1>7, <1>8, <2>1, <2>2, <2>3, <2>4 DEF Segment
<1>10. UsedIn(h2) = {} /\ FreeIn(h2, p) = {}
  <2>1. UsedIn(h2) = {}
    BY <1>6, <1>8 DEF UsedIn
  <2>2. FreeIn(h2, p) = {}
    BY <1>3, <1>6 DEF FreeIn
  <2> QED  BY <2>1, <2>2
<1>11. /\ n.bins = m.bins /\ n.dv = m.dv /\ n.dvsize = m.dvsize /\ n.ok = m.ok
       /\ n.segbase = p
       /\ n.segsize = j.segsize /\ n.brk = j.brk /\ n.footprint = j.footprint
       /\ n.max_footprint = j.max_footprint /\ n.contiguous = j.contiguous
       /\ DOMAIN n = HeapFields /\ Keeps(m, n, CallFields) /\ n.footprint_limit = j.footprint_limit
  BY <1>2, <1>5 DEF Keeps, HeapFields, FirstFields, CountFields, TopFields, CallFields, StillFields, ChunkFields
<1>18. Called(m, n)
  BY <1>11 DEF Called, BreakMoves, Capped
<1>12. Listed(n, {}, h2)
  <2>1. <<>> \in Seq(Int) /\ Len(<<>>) = 0
    OBVIOUS
  <2>2. PICK b : b = n.bins
    OBVIOUS
  <2>3. \A x \in DOMAIN b : b[x] \in Seq(Int) /\ Len(b[x]) = 0
    BY <1>1, <1>11, <2>1, <2>2, Zenon
  <2>4. Binned(b, {}, h2)
    BY <2>3 DEF Binned
  <2>5. n.dv = NULL /\ n.dvsize = 0 /\ {} \ {n.dv} = {}
    BY <1>1, <1>11
  <2> QED  BY <2>2, <2>4, <2>5 DEF Listed
<1>13. Counted(n)
  <2>1. PICK E : E = HeapStart + s + TopFoot
    OBVIOUS
  <2>2. CountedTo(j, E) /\ j.segbase = n.segbase
    BY <1>2, <1>11, <2>1
  <2>3. n.top + n.topsize + TopFoot = E
    BY <1>2, <1>5, <2>1
  <2>4. /\ n.segsize \in Int /\ n.segbase + n.segsize = E /\ n.brk = E /\ n.contiguous \in BOOLEAN
        /\ n.footprint = n.segsize /\ n.max_footprint \in Int /\ n.footprint <= n.max_footprint
    BY <1>11, <2>2 DEF CountedTo
  <2>5. n.trim_check \in {TrimThreshold, MaxSize}
    BY <1>5
  <2> QED  BY <2>3, <2>4, <2>5 DEF Counted
<1>14. Sound(n, {})
  BY <1>1, <1>2, <1>3, <1>5, <1>9, <1>11, <1>12, <1>13 DEF Sound
<1>15. Grown(n)
  BY <1>2, <1>5, <1>10, <1>14 DEF Grown
<1>16. UsedIn(m.head) = {}
  BY <1>1 DEF UsedIn
<1>17. SameBlocks(m, n)
  BY <1>2, <1>10, <1>15, <1>16, <1>18 DEF SameBlocks, Heap, SizesKept
<1> QED  BY <1>5, <1>15, <1>17

(* What a heap has, for the proofs that expand no definition of it.        *)
LEMMA HeapIs ==
  ASSUME NEW m, Heap(m)
  PROVE  /\ DOMAIN m = HeapFields /\ m.ok = TRUE /\ DOMAIN m.bins = MinChunk .. HeapSize
         /\ m.topsize \in Int /\ 0 <= m.topsize /\ Words(m.head) /\ Breaking(m)
         /\ m.top # NULL => Grown(m)
<1>1. HeapStart \in Nat /\ HeapSize \in Nat /\ HeapEnd = HeapStart + HeapSize /\ NULL = 0
  BY HeapAssumption DEF HeapEnd, NULL
<1>2. CASE Empty(m)
  BY <1>1, <1>2 DEF Empty, Words, Breaking
<1>3. CASE Grown(m)
  <2>1. Sound(m, FreeIn(m.head, m.top))
    BY <1>3 DEF Grown
  <2>2. /\ DOMAIN m = HeapFields /\ m.ok = TRUE /\ DOMAIN m.bins = MinChunk .. HeapSize
        /\ Words(m.head) /\ m.topsize \in Int /\ m.top \in Int
        /\ Counted(m) /\ Segment(m.head, m.foot, m.segbase, m.top, m.topsize)
    BY <2>1, SoundIs
  <2>3. /\ HeapStart <= m.segbase /\ m.segbase <= m.top /\ m.topsize > 0 /\ m.segbase \in Int
        /\ m.top + m.topsize + TopFoot <= HeapEnd
    BY <2>2, SegmentIs
  <2>4. m.brk \in HeapStart .. HeapEnd
    BY <1>1, <2>2, <2>3, TagsAssumption DEF Counted
  <2>5. 0 <= m.topsize /\ m.contiguous \in BOOLEAN
    BY <2>2, <2>3 DEF Counted
  <2> QED  BY <1>3, <2>2, <2>4, <2>5 DEF Breaking
<1> QED  BY <1>2, <1>3 DEF Heap

(* What the allocator has from the system is within the heap region.       *)
LEMMA FootprintBounds ==
  ASSUME NEW m, Heap(m)
  PROVE  m.footprint \in 0 .. HeapSize
<1>1. HeapStart \in Nat /\ HeapSize \in Nat /\ HeapEnd = HeapStart + HeapSize
  BY HeapAssumption DEF HeapEnd
<1>2. CASE Empty(m)
  BY <1>1, <1>2 DEF Empty
<1>3. CASE Grown(m)
  <2>1. Sound(m, FreeIn(m.head, m.top))
    BY <1>3 DEF Grown
  <2>2. Counted(m) /\ Segment(m.head, m.foot, m.segbase, m.top, m.topsize)
        /\ m.topsize \in Int /\ m.top \in Int /\ m.segbase \in Int
    BY <2>1, SoundIs
  <2>3. /\ HeapStart <= m.segbase /\ m.segbase <= m.top /\ m.topsize > 0
        /\ m.top + m.topsize + TopFoot <= HeapEnd
    BY <2>2, SegmentIs
  <2>4. /\ m.footprint = m.segsize /\ m.segsize \in Int
        /\ m.segbase + m.segsize = m.top + m.topsize + TopFoot
    BY <2>2 DEF Counted
  <2> QED  BY <1>1, <2>2, <2>3, <2>4, TagsAssumption
<1> QED  BY <1>2, <1>3 DEF Heap

(* sys_alloc counts what MORECORE gave it, and the largest count.          *)
LEMMA CountFootprintIs ==
  ASSUME NEW k, DOMAIN k = HeapFields, k.footprint \in Int, k.max_footprint \in Int,
         NEW size \in Nat, NEW c, c = CountFootprint(k, size)
  PROVE  /\ Keeps(k, c, {"footprint", "max_footprint"}) /\ c.footprint = k.footprint + size
         /\ c.max_footprint \in Int /\ c.footprint <= c.max_footprint
<1>1. /\ Keeps(k, c, {"footprint", "max_footprint"}) /\ c.footprint = k.footprint + size
      /\ c.max_footprint = IF k.footprint + size > k.max_footprint THEN k.footprint + size
                           ELSE k.max_footprint
  BY DEF CountFootprint, Keeps, HeapFields
<1> QED  BY <1>1

(* What MORECORE gave becomes part of the top chunk.                       *)
LEMMA GrowIs ==
  ASSUME NEW m, Heap(m), NEW k, Keeps(m, k, {"brk", "contiguous"}), k.contiguous \in BOOLEAN,
         NEW size \in Nat, NEW nb \in Nat, Suitable(m, size, nb),
         k.brk = m.brk + size, k.brk <= HeapEnd, Sys!Grantable(k.brk),
         NEW n, n = Grow(CountFootprint(k, size), m.brk, size)
  PROVE  Grown(n) /\ SameBlocks(m, n) /\ nb < n.topsize
<1>1. PICK c : c = CountFootprint(k, size)
  OBVIOUS
<1>2. /\ DOMAIN m = HeapFields /\ k.footprint = m.footprint /\ k.max_footprint = m.max_footprint
      /\ k.top = m.top /\ k.topsize = m.topsize /\ DOMAIN k = HeapFields
      /\ k.segsize = m.segsize /\ k.segbase = m.segbase /\ k.footprint_limit = m.footprint_limit
  BY DEF Keeps, HeapFields
<1>3. TopFoot \in Int /\ HeapStart \in Int /\ 0 < TopFoot
  BY HeapAssumption, TagsAssumption, ListsAssumption
<1>6. PICK b \in Int : b = k.brk
  <2>1. Breaking(m)
    BY HeapIs
  <2>2. m.brk \in HeapStart .. HeapEnd
    BY <2>1 DEF Breaking
  <2>3. m.brk + size \in Int
    BY <2>2, HeapAssumption DEF HeapEnd
  <2> QED  BY <2>3
<1>7. ASSUME NEW j, j.brk = k.brk, j.footprint = m.footprint + size, j.footprint_limit = m.footprint_limit
      PROVE  BreakMoves(m, j)
  <2>1. Sys!Grantable(j.brk)
    BY <1>7
  <2>2. ASSUME NEW z \in Int, Capped(m, z) PROVE Capped(j, z)
    BY <1>7, <2>2 DEF Capped, Suitable, Affordable
  <2> QED  BY <2>1, <2>2 DEF BreakMoves
<1>4. CASE Empty(m)
  <2>1. /\ m.top = NULL /\ m.footprint = 0 /\ m.max_footprint = 0 /\ m.brk = HeapStart
        /\ size > nb + TopFoot
    BY <1>4 DEF Empty, Suitable, Ample
  <2>2. /\ Keeps(k, c, {"footprint", "max_footprint"}) /\ c.footprint = size
        /\ c.max_footprint \in Int /\ c.footprint <= c.max_footprint
    <3>1. k.footprint \in Int /\ k.max_footprint \in Int /\ k.footprint + size = size
      BY <1>2, <2>1
    <3> QED  BY <1>1, <1>2, <3>1, CountFootprintIs
  <2>3. PICK j : j = [c EXCEPT !.segbase = HeapStart, !.segsize = size]
    OBVIOUS
  <2>4. n = InitTop(j, HeapStart, size - TopFoot)
    <3>1. c.top = NULL
      BY <1>2, <2>1, <2>2 DEF Keeps, HeapFields
    <3> QED  BY <1>1, <2>1, <2>3, <3>1, Zenon DEF Grow
  <2>5. /\ Keeps(m, j, FirstFields) /\ j.segbase = HeapStart /\ j.segsize = size
        /\ j.brk = k.brk /\ j.contiguous = k.contiguous
        /\ j.footprint = size /\ j.max_footprint = c.max_footprint
        /\ j.footprint_limit = m.footprint_limit
    BY <1>2, <2>2, <2>3 DEF Keeps, HeapFields, FirstFields, CountFields
  <2>6. PICK s \in Int : s = size - TopFoot
    BY <1>3
  <2>7. HeapStart + s + TopFoot = HeapStart + size /\ s > 0 /\ nb < s
    BY <1>3, <2>1, <2>6
  <2>8. CountedTo(j, HeapStart + s + TopFoot)
    BY <1>3, <2>1, <2>2, <2>5, <2>7 DEF CountedTo
  <2>9. HeapStart + s + TopFoot <= HeapEnd
    BY <2>1, <2>7
  <2>10. BreakMoves(m, j)
    <3>1. j.footprint = m.footprint + size
      BY <2>1, <2>5
    <3> QED  BY <1>7, <2>5, <3>1
  <2>11. n = InitTop(j, HeapStart, s)
    BY <2>4, <2>6
  <2>12. Grown(n) /\ SameBlocks(m, n) /\ n.topsize = s
    BY <1>4, <2>5, <2>6, <2>7, <2>8, <2>9, <2>10, <2>11, FirstTop
  <2> QED  BY <2>7, <2>12
<1>5. CASE Grown(m)
  <2>1. Sound(m, FreeIn(m.head, m.top))
    BY <1>5 DEF Grown
  <2>2. /\ m.top # NULL /\ m.top \in Int /\ m.topsize \in Int /\ m.segbase \in Int /\ m.topsize > 0
        /\ Counted(m)
    BY <2>1, SoundIs, SegmentIs
  <2>3. /\ m.top + m.topsize + TopFoot = m.brk /\ m.segbase + m.segsize = m.brk /\ m.brk \in Int
        /\ m.segsize \in Int /\ m.footprint = m.segsize /\ m.max_footprint \in Int
    BY <1>3, <2>2 DEF Counted
  <2>4. /\ Keeps(k, c, {"footprint", "max_footprint"}) /\ c.footprint = m.segsize + size
        /\ c.max_footprint \in Int /\ c.footprint <= c.max_footprint
    <3>1. k.footprint \in Int /\ k.max_footprint \in Int /\ k.footprint + size = m.segsize + size
      BY <1>2, <2>3
    <3> QED  BY <1>1, <1>2, <3>1, CountFootprintIs
  <2>5. PICK j : j = [c EXCEPT !.segsize = @ + size]
    OBVIOUS
  <2>6. PICK s \in Int : s = m.topsize + size
    BY <2>2
  <2>7. n = InitTop(j, m.top, s)
    <3>1. /\ c.top = m.top /\ c.topsize = m.topsize /\ c.segbase = m.segbase /\ c.segsize = m.segsize
      BY <1>2, <2>4 DEF Keeps, HeapFields
    <3>2. m.brk = SegmentEnd(c)
      BY <2>3, <3>1 DEF SegmentEnd
    <3>3. Check(c, m.brk = SegmentEnd(c)) = c
      BY <3>2, Zenon DEF Check
    <3>4. n = InitTop([Check(c, m.brk = SegmentEnd(c)) EXCEPT !.segsize = @ + size],
                      c.top, c.topsize + size)
      BY <1>1, <2>2, <3>1, Zenon DEF Grow
    <3> QED  BY <2>5, <2>6, <3>1, <3>3, <3>4, Zenon
  <2>8. /\ Keeps(m, j, CountFields) /\ j.segbase = m.segbase /\ j.segsize = m.segsize + size
        /\ j.brk = k.brk /\ j.contiguous = k.contiguous
        /\ j.footprint = c.footprint /\ j.max_footprint = c.max_footprint
        /\ j.footprint_limit = m.footprint_limit
    BY <1>2, <2>4, <2>5 DEF Keeps, HeapFields, CountFields
  <2>9. m.top + s + TopFoot = m.brk + size /\ s > 0 /\ nb < s
    <3>1. m.topsize + size > nb
      BY <2>2 DEF Suitable, Ample
    <3> QED  BY <1>3, <2>2, <2>3, <2>6, <3>1
  <2>10. CountedTo(j, m.top + s + TopFoot)
    <3>1. j.segbase + j.segsize = m.brk + size
      BY <2>2, <2>3, <2>8
    <3> QED  BY <2>3, <2>4, <2>8, <2>9, <3>1 DEF CountedTo
  <2>11. BreakMoves(m, j)
    <3>1. j.footprint = m.footprint + size
      BY <2>3, <2>4, <2>8
    <3> QED  BY <1>7, <2>8, <3>1
  <2>12. Grown(n) /\ SameBlocks(m, n) /\ n.topsize = s
    BY <1>5, <2>6, <2>7, <2>8, <2>9, <2>10, <2>11, TopResized
  <2> QED  BY <2>9, <2>12
<1> QED  BY <1>4, <1>5 DEF Heap

(* What a call of the allocator may come back with: a chunk of nb granules *)
(* or nothing, when the heap is as it was.                                 *)
Answered(m, got, nb) ==
  \/ got.mem = NULL /\ SameBlocks(m, got.heap) /\ Keeps(m, got.heap, {"contiguous"})
  \/ got.mem # NULL /\ Acquired(m, got.heap, got.mem, nb)

(* Fields on which the heap does not depend, or hardly.                    *)
QuietFields == {"contiguous", "trim_check", "footprint_limit", "usage"}

(* A heap on whose chunks nothing was done is one still.                   *)
LEMMA HeapFrame ==
  ASSUME NEW m, Heap(m), NEW n, Keeps(m, n, QuietFields), n.contiguous \in BOOLEAN,
         n.trim_check = m.trim_check \/ (m.top # NULL /\ n.trim_check = MaxSize)
  PROVE  Heap(n) /\ n.head = m.head /\ n.top = m.top /\ (Grown(m) => Grown(n))
<1>1. /\ DOMAIN n = HeapFields /\ n.head = m.head /\ n.foot = m.foot /\ n.bins = m.bins
      /\ n.dv = m.dv /\ n.dvsize = m.dvsize /\ n.top = m.top /\ n.topsize = m.topsize
      /\ n.segbase = m.segbase /\ n.segsize = m.segsize /\ n.brk = m.brk
      /\ n.footprint = m.footprint /\ n.max_footprint = m.max_footprint /\ n.ok = m.ok
  BY DEF Keeps, HeapFields, QuietFields
<1>2. ASSUME Empty(m) PROVE Empty(n)
  <2>1. m.top = NULL
    BY <1>2 DEF Empty
  <2> QED  BY <1>1, <1>2, <2>1 DEF Empty
<1>3. ASSUME Grown(m) PROVE Grown(n)
  <2>1. PICK F : F = FreeIn(m.head, m.top)
    OBVIOUS
  <2>2. Sound(m, F)
    BY <1>3, <2>1 DEF Grown
  <2>3. Listed(n, F, n.head)
    <3>1. Listed(m, F, m.head)
      BY <2>2 DEF Sound
    <3>2. \A p \in F : n.head[p].size = m.head[p].size
      BY <1>1
    <3> QED  BY <1>1, <3>1, <3>2, ListedFrame
  <2>4. Counted(n)
    BY <1>1, <2>2 DEF Sound, Counted
  <2>5. Sound(n, F)
    BY <1>1, <2>2, <2>3, <2>4 DEF Sound
  <2> QED  BY <1>1, <2>1, <2>5 DEF Grown
<1> QED  BY <1>1, <1>2, <1>3 DEF Heap

(* The same with what was kept back in one step, and got in the next.      *)
LEMMA ObtainedAfter ==
  ASSUME NEW m, NEW k, SameBlocks(m, k), NEW n, NEW p, NEW nb, Acquired(k, n, p, nb)
  PROVE  Acquired(m, n, p, nb)
<1>1. UsedIn(k.head) = UsedIn(m.head)
  BY DEF SameBlocks
<1>2. Called(m, n)
  <2>1. Called(m, k) /\ Called(k, n)
    BY DEF SameBlocks, Acquired
  <2> QED  BY <2>1, CalledTwice
<1>3. SizesKept(m.head, n.head, UsedIn(m.head))
  BY <1>1 DEF SameBlocks, Acquired, SizesKept
<1> QED  BY <1>1, <1>2, <1>3 DEF Acquired

(* A chunk in use is at an address before the top chunk.                   *)
LEMMA UsedChunkIs ==
  ASSUME NEW m, Grown(m), NEW p \in UsedIn(m.head)
  PROVE  p \in Int /\ p # NULL /\ p \in DOMAIN m.head /\ p < m.top /\ m.segbase <= p
<1>1. Segment(m.head, m.foot, m.segbase, m.top, m.topsize)
  BY SoundIs DEF Grown
<1>2. p \in DOMAIN m.head /\ m.head[p].cinuse
  BY DEF UsedIn
<1>3. p \in Int /\ m.segbase <= p /\ p < m.top /\ HeapStart <= p
  BY <1>1, <1>2, ChunkIs
<1> QED  BY <1>2, <1>3, HeapAssumption DEF NULL

(* What was obtained is a chunk in use.                                    *)
LEMMA ObtainedIs ==
  ASSUME NEW m, NEW n, NEW p, NEW nb, Acquired(m, n, p, nb)
  PROVE  p # NULL /\ p \in UsedIn(n.head) /\ p \in Int
<1>1. p \in UsedIn(n.head) /\ Grown(n)
  BY DEF Acquired
<1> QED  BY <1>1, UsedChunkIs

(* A call that does nothing leaves the blocks alone.                       *)
LEMMA NothingChanged ==
  ASSUME NEW m, Heap(m)
  PROVE  SameBlocks(m, m) /\ Called(m, m) /\ Keeps(m, m, {"contiguous"})
<1>1. Keeps(m, m, StillFields) /\ Keeps(m, m, {"contiguous"})
  BY HeapIs DEF Keeps
<1>2. Called(m, m)
  BY <1>1, StillCalled
<1> QED  BY <1>1, <1>2 DEF SameBlocks, SizesKept

(* sys_alloc takes a chunk off the top it made, or comes back with         *)
(* nothing.                                                                *)
LEMMA AllocFromIs ==
  ASSUME NEW m, Heap(m), NEW nb \in Int, nb >= MinChunk, NEW got, Moved(m, got, nb),
         NEW ans, ans = AllocFrom(got, nb)
  PROVE  Answered(m, ans, nb)
<1>1. Breaking(m)
  BY HeapIs
<1>2. m.brk # Sys!MFAIL
  BY <1>1, HeapAssumption DEF Breaking, Sys!MFAIL
<1>3. CASE got.base = Sys!MFAIL
  <2>1. ans.heap = got.heap /\ ans.mem = NULL
    BY <1>3 DEF AllocFrom, Result
  <2>2. Keeps(m, got.heap, {"contiguous"}) /\ got.heap.contiguous \in BOOLEAN
    <3>1. got.heap.brk = m.brk /\ Keeps(m, got.heap, {"brk", "contiguous"}) /\ got.heap.contiguous \in BOOLEAN
      BY <1>2, <1>3 DEF Moved
    <3> QED  BY <3>1 DEF Keeps
  <2>3. PICK k : k = got.heap
    OBVIOUS
  <2>4. /\ Keeps(m, k, QuietFields) /\ k.trim_check = m.trim_check /\ Keeps(m, k, StillFields)
        /\ Keeps(m, k, {"contiguous"})
    BY <2>2, <2>3 DEF Keeps, QuietFields, HeapFields, StillFields
  <2>5. Heap(k) /\ k.head = m.head
    BY <2>2, <2>3, <2>4, HeapFrame
  <2>6. SameBlocks(m, k)
    <3>1. Called(m, k)
      BY <2>4, StillCalled
    <3> QED  BY <2>5, <3>1 DEF SameBlocks, SizesKept
  <2> QED  BY <2>1, <2>3, <2>4, <2>6 DEF Answered
<1>4. CASE got.base # Sys!MFAIL
  <2>1. /\ Keeps(m, got.heap, {"brk", "contiguous"}) /\ got.heap.contiguous \in BOOLEAN
        /\ got.base = m.brk /\ got.size \in Nat /\ got.heap.brk = m.brk + got.size
        /\ got.heap.brk <= HeapEnd /\ Sys!Grantable(got.heap.brk) /\ Suitable(m, got.size, nb)
    BY <1>4 DEF Moved
  <2>2. PICK k, size : k = got.heap /\ size = got.size
    OBVIOUS
  <2>3. PICK n : n = Grow(CountFootprint(k, size), m.brk, size)
    OBVIOUS
  <2>4. nb \in Nat
    BY ListsAssumption
  <2>5. Grown(n) /\ SameBlocks(m, n) /\ nb < n.topsize
    BY <2>1, <2>2, <2>3, <2>4, GrowIs
  <2>6. PICK top : top = FromTop(n, nb)
    OBVIOUS
  <2>7. ans = top
    <3>1. ans = AllocFromTop(n, nb)
      BY <1>4, <2>1, <2>2, <2>3, Zenon DEF AllocFrom
    <3> QED  BY <2>5, <2>6, <3>1, Zenon DEF AllocFromTop
  <2>8. Obtained(n, top.heap, top.mem, nb)
    BY <2>5, <2>6, FromTopIs
  <2>9. Acquired(n, top.heap, top.mem, nb)
    BY <2>8 DEF Obtained
  <2>10. Acquired(m, top.heap, top.mem, nb)
    BY <2>5, <2>9, ObtainedAfter
  <2>11. top.mem # NULL
    BY <2>10, ObtainedIs
  <2> QED  BY <2>7, <2>10, <2>11 DEF Answered
<1> QED  BY <1>3, <1>4

(* sys_alloc                                                               *)
LEMMA SysAllocIs ==
  ASSUME NEW m, Heap(m), NEW nb \in MinChunk .. MaxSize, ~(nb < m.topsize),
         NEW ans, ans = SysAlloc(m, nb)
  PROVE  Answered(m, ans, nb)
<1>1. /\ nb \in Nat /\ nb >= MinChunk /\ nb < AddrSpace /\ AddrSpace \in Nat /\ Granularity \in Nat
      /\ SysPadding \in Nat /\ SysPadding = TopFoot + 1 /\ TopFoot < Granularity /\ TopFoot \in Nat
      /\ Granularity < AddrSpace
  BY ListsAssumption, TagsAssumption, HeapAssumption DEF MaxSize, SysPadding, HalfMax
<1>2. PICK w \in Nat : w = Word(nb + SysPadding)
  BY <1>1, WordIs
<1>3. PICK asize \in Nat : asize = GranularityAlign(w)
  BY <1>2, AlignedSpace
<1>4. asize + Granularity <= AddrSpace
  BY <1>2, <1>3, AlignedSpace
<1>5. CASE asize <= nb \/ ~UnderLimit(m, Word(m.footprint + asize))
  <2>1. ans = Result(m, NULL)
    BY <1>2, <1>3, <1>5, Zenon DEF SysAlloc
  <2>2. ans.heap = m /\ ans.mem = NULL
    BY <2>1 DEF Result
  <2> QED  BY <2>2, NothingChanged DEF Answered
<1>6. CASE ~(asize <= nb \/ ~UnderLimit(m, Word(m.footprint + asize)))
  <2>1. PICK got : got = Morecore(m, nb, asize)
    OBVIOUS
  <2>2. ans = AllocFrom(got, nb)
    BY <1>2, <1>3, <1>6, <2>1, Zenon DEF SysAlloc
  <2>3. asize > nb
    BY <1>6
  <2>4. Rounded(nb, asize)
    <3>1. nb + SysPadding < AddrSpace
      BY <1>1, <1>4, <2>3
    <3>2. w = nb + SysPadding /\ w < AddrSpace
      BY <1>1, <1>2, <3>1, WordIs
    <3>3. w <= asize \/ asize = 0
      BY <1>2, <1>3, <3>2, AlignedSpace
    <3> QED  BY <1>1, <1>3, <1>4, <2>3, <3>1, <3>2, <3>3 DEF Rounded
  <2>5. m.footprint \in 0 .. HeapSize /\ HeapSize \in Nat /\ HeapSize < AddrSpace
    BY FootprintBounds, HeapAssumption, ListsAssumption DEF HalfMax
  <2>6. Affordable(m, asize)
    <3> SUFFICES ASSUME NEW z \in Int, Capped(m, z) PROVE m.footprint + asize <= z
      BY DEF Affordable
    <3>1. PICK fp \in Nat : fp = m.footprint /\ fp < AddrSpace
      BY <2>5, <1>1
    <3>2. PICK x \in Nat : x = Word(fp + asize)
      BY <1>1, <3>1, WordIs
    <3>3. m.footprint_limit \in 1 .. z
      BY DEF Capped
    <3>4. x > fp /\ x <= m.footprint_limit
      BY <1>6, <3>1, <3>2, <3>3 DEF UnderLimit
    <3>5. fp + asize < AddrSpace
      <4>1. asize < AddrSpace
        BY <1>1, <1>4
      <4>2. CASE AddrSpace <= fp + asize
        <5>1. x = fp + asize - AddrSpace
          BY <1>1, <3>1, <3>2, <4>1, <4>2, WordIs
        <5> QED  BY <1>1, <3>1, <3>4, <4>1, <5>1
      <4> QED  BY <1>1, <3>1, <4>2
    <3>6. x = fp + asize
      BY <1>1, <3>1, <3>2, <3>5, WordIs
    <3> QED  BY <3>1, <3>3, <3>4, <3>6
  <2>7. Moved(m, got, nb)
    <3>1. Breaking(m) /\ m.topsize \in Int /\ 0 <= m.topsize
      BY HeapIs
    <3>2. m.topsize \in 0 .. nb
      BY <1>1, <3>1
    <3>3. m.footprint \in Int
      BY <2>5
    <3> QED  BY <1>1, <2>1, <2>4, <2>6, <3>1, <3>2, <3>3, MorecoreIs
  <2> QED  BY <1>1, <2>2, <2>7, AllocFromIs
<1> QED  BY <1>5, <1>6

-----------------------------------------------------------------------------
(* Trimming                                                                *)

(* sys_trim after the break was moved down to b, or was not.               *)
LEMMA TrimToIs ==
  ASSUME NEW m, Grown(m), NEW b \in Int, b <= m.brk, m.brk - b < m.topsize,
         b = m.brk \/ Sys!Grantable(b),
         NEW n, n = TrimTo(m, b)
  PROVE  Grown(n) /\ SameBlocks(m, n)
<1>1. Sound(m, FreeIn(m.head, m.top)) /\ Heap(m)
  BY DEF Grown, Heap
<1>2. /\ DOMAIN m = HeapFields /\ m.top \in Int /\ m.topsize \in Int /\ m.segbase \in Int
      /\ Counted(m) /\ Segment(m.head, m.foot, m.segbase, m.top, m.topsize) /\ m.top # NULL
  BY <1>1, SoundIs
<1>3. m.top + m.topsize + TopFoot <= HeapEnd /\ TopFoot \in Int /\ HeapEnd \in Int
  BY <1>2, SegmentIs, TagsAssumption, HeapAssumption DEF HeapEnd
<1>4. /\ m.top + m.topsize + TopFoot = m.brk /\ m.segbase + m.segsize = m.brk /\ m.brk \in Int
      /\ m.segsize \in Int /\ m.footprint = m.segsize /\ m.max_footprint \in Int
      /\ m.footprint <= m.max_footprint /\ m.contiguous \in BOOLEAN
      /\ m.trim_check \in {TrimThreshold, MaxSize}
  BY <1>2, <1>3 DEF Counted
<1>5. PICK r \in Int : r = m.brk - b
  BY <1>4
<1>6. CASE r # 0
  <2>1. PICK j : j = [m EXCEPT !.brk = b, !.segsize = @ - r, !.footprint = @ - r]
    OBVIOUS
  <2>2. PICK s \in Int : s = m.topsize - r
    BY <1>2
  <2>3. n = InitTop(j, m.top, s)
    BY <1>5, <1>6, <2>1, <2>2, Zenon DEF TrimTo
  <2>4. /\ Keeps(m, j, CountFields) /\ j.segbase = m.segbase /\ j.segsize = m.segsize - r
        /\ j.brk = b /\ j.contiguous = m.contiguous
        /\ j.footprint = m.footprint - r /\ j.max_footprint = m.max_footprint
        /\ j.footprint_limit = m.footprint_limit
    BY <1>2, <2>1 DEF Keeps, HeapFields, CountFields
  <2>5. m.top + s + TopFoot = b /\ s > 0 /\ m.top + s + TopFoot <= HeapEnd
    BY <1>2, <1>3, <1>4, <1>5, <2>2
  <2>6. CountedTo(j, m.top + s + TopFoot)
    <3>1. j.segbase + j.segsize = b /\ j.segsize \in Int /\ j.footprint = j.segsize
      BY <1>2, <1>4, <1>5, <2>4
    <3>2. j.max_footprint \in Int /\ j.footprint <= j.max_footprint
      BY <1>4, <1>5, <2>4
    <3> QED  BY <1>4, <2>4, <2>5, <3>1, <3>2 DEF CountedTo
  <2>7. BreakMoves(m, j)
    <3>1. Sys!Grantable(j.brk)
      BY <1>5, <1>6, <2>4
    <3>2. ASSUME NEW z \in Int, Capped(m, z) PROVE Capped(j, z)
      <4>1. j.footprint <= m.footprint /\ m.footprint \in Int /\ j.footprint \in Int
        BY <1>4, <1>5, <2>4
      <4> QED  BY <2>4, <3>2, <4>1 DEF Capped
    <3> QED  BY <3>1, <3>2 DEF BreakMoves
  <2> QED  BY <2>2, <2>3, <2>4, <2>5, <2>6, <2>7, TopResized
<1>7. CASE r = 0
  <2>1. n = [m EXCEPT !.trim_check = IF m.topsize > @ THEN MaxSize ELSE @]
    BY <1>5, <1>7, Zenon DEF TrimTo
  <2>2. /\ Keeps(m, n, QuietFields) /\ Keeps(m, n, StillFields) /\ n.contiguous = m.contiguous
        /\ (n.trim_check = m.trim_check \/ n.trim_check = MaxSize)
    BY <1>2, <2>1 DEF Keeps, HeapFields, QuietFields, StillFields
  <2>3. Heap(n) /\ n.head = m.head /\ Grown(n)
    BY <1>1, <1>2, <1>4, <2>2, HeapFrame
  <2>4. Called(m, n)
    BY <2>2, StillCalled
  <2> QED  BY <2>3, <2>4 DEF SameBlocks, SizesKept
<1> QED  BY <1>6, <1>7

(* What sys_trim gives back are whole pages, all that there are in what it *)
(* need not keep, but for the last granule.                                *)
LEMMA TrimExtra ==
  ASSUME NEW topsize \in Int, NEW keep \in Nat, topsize > keep,
         NEW extra, extra = ((topsize - keep + Granularity - 1) \div Granularity - 1) * Granularity
  PROVE  /\ extra \in Int /\ 0 <= extra /\ extra < topsize - keep
         /\ topsize - keep <= extra + Granularity
<1>1. Granularity \in Nat /\ Granularity > 0
  BY TagsAssumption
<1>2. PICK x \in Nat : x = topsize - keep + Granularity - 1 /\ x >= Granularity
  BY <1>1
<1>3. PICK k \in Nat : k = x \div Granularity
  BY <1>1, <1>2, DivBounds
<1>4. PICK y \in Int : y = k * Granularity
  BY <1>1
<1>5. y <= x /\ x < y + Granularity
  BY <1>1, <1>2, <1>3, <1>4, DivBounds
<1>6. extra = y - Granularity
  BY <1>1, <1>2, <1>3, <1>4
<1>7. y >= Granularity
  <2>1. k >= 1
    BY <1>1, <1>2, <1>3
  <2>2. PICK d \in Nat : k = 1 + d
    BY <2>1
  <2>3. y = Granularity + d * Granularity
    BY <1>1, <1>4, <2>2
  <2>4. d * Granularity >= 0
    BY <1>1
  <2> QED  BY <1>1, <2>3, <2>4
<1> QED  BY <1>1, <1>2, <1>5, <1>6, <1>7

(* sys_trim leaves the chunks alone whatever it keeps.                     *)
LEMMA TrimKeepingIs ==
  ASSUME NEW m, Grown(m), NEW keep \in Nat, NEW n, n = TrimKeeping(m, keep)
  PROVE  Grown(n) /\ SameBlocks(m, n)
<1>1. Sound(m, FreeIn(m.head, m.top))
  BY DEF Grown
<1>2. /\ m.top \in Int /\ m.topsize \in Int /\ m.segbase \in Int /\ m.topsize > 0
      /\ Counted(m) /\ Segment(m.head, m.foot, m.segbase, m.top, m.topsize)
  BY <1>1, SoundIs, SegmentIs
<1>3. /\ TopFoot \in Int /\ TopFoot > 0 /\ Granularity \in Nat /\ Granularity > 0
      /\ HeapStart \in Nat /\ AddrSpace \in Nat /\ HeapEnd < AddrSpace /\ HeapEnd \in Int
  BY TagsAssumption, HeapAssumption, ListsAssumption DEF HeapEnd
<1>4. PICK b \in Int : b = m.brk /\ m.top + m.topsize + TopFoot = b /\ HeapStart <= m.top /\ b <= HeapEnd
  <2>1. HeapStart <= m.top /\ m.top + m.topsize + TopFoot <= HeapEnd
    BY <1>2, <1>3, SegmentIs
  <2> QED  BY <1>2, <1>3, <2>1 DEF Counted
<1>5. PICK x : x = m.topsize - keep + Granularity - 1
  OBVIOUS
<1>6. PICK extra : extra = (x \div Granularity - 1) * Granularity
  OBVIOUS
<1>7. PICK c : c = IF m.topsize > keep /\ Sys!SbrkReturns(m.brk, 0) = SegmentEnd(m)
                   THEN Sys!BreakAfter(m.brk, -extra) ELSE m.brk
  OBVIOUS
<1>8. n = TrimTo(m, c)
  BY <1>5, <1>6, <1>7, Zenon DEF TrimKeeping
<1>9. c \in Int /\ c <= b /\ b - c < m.topsize /\ (c = b \/ Sys!Grantable(c))
  <2>1. CASE c = b
    BY <1>2, <1>4, <2>1
  <2>2. CASE c # b
    <3>1. m.topsize > keep /\ c = Sys!BreakAfter(b, -extra)
      BY <1>4, <1>7, <2>2, Zenon
    <3>8. extra \in Int /\ 0 <= extra /\ extra < m.topsize - keep
      <4>1. PICK t \in Int : t = m.topsize /\ t > keep
        BY <1>2, <3>1
      <4>2. extra = ((t - keep + Granularity - 1) \div Granularity - 1) * Granularity
        BY <1>5, <1>6, <4>1
      <4> QED  BY <4>1, <4>2, TrimExtra
    <3>9. PICK w \in Int : w = b + (-extra)
      BY <3>8
    <3>10. 0 <= w /\ w < AddrSpace /\ w <= b /\ b - w < m.topsize
      BY <1>2, <1>3, <1>4, <3>8, <3>9
    <3>11. Sys!Wrap(w) = w
      BY <1>3, <3>10 DEF Sys!Wrap
    <3>12. c = w
      BY <2>2, <3>1, <3>9, <3>11, Zenon DEF Sys!BreakAfter
    <3>13. Sys!Grantable(c)
      BY <2>2, <3>1, <3>9, <3>11, Zenon DEF Sys!BreakAfter
    <3> QED  BY <3>10, <3>12, <3>13
  <2> QED  BY <2>1, <2>2
<1> QED  BY <1>4, <1>8, <1>9, TrimToIs

(* sys_trim                                                                *)
LEMMA SysTrimIs ==
  ASSUME NEW m, Heap(m), NEW pad \in Nat, NEW n, n = SysTrim(m, pad)
  PROVE  SameBlocks(m, n) /\ (Grown(m) => Grown(n))
<1>1. CASE pad >= MaxRequest \/ m.top = NULL
  <2>1. n = m
    BY <1>1, Zenon DEF SysTrim
  <2> QED  BY <2>1, NothingChanged
<1>2. CASE ~(pad >= MaxRequest \/ m.top = NULL)
  <2>1. PICK keep : keep = pad + TopFoot
    OBVIOUS
  <2>2. n = TrimKeeping(m, keep)
    BY <1>2, <2>1, Zenon DEF SysTrim
  <2>3. Grown(m)
    BY <1>2, HeapIs
  <2>4. keep \in Nat
    BY <2>1, TagsAssumption
  <2> QED  BY <2>2, <2>3, <2>4, TrimKeepingIs
<1> QED  BY <1>1, <1>2

-----------------------------------------------------------------------------
(* malloc                                                                  *)

(* The sizes of the chunks in the bins.                                    *)
Filled(m) == {s \in DOMAIN m.bins : m.bins[s] # <<>>}

(* The list that malloc takes a chunk from has one that is large enough;   *)
(* when the rest is to replace the designated victim, that one is small.   *)
LEMMA BinnedFitIs ==
  ASSUME NEW m, DOMAIN m.bins = MinChunk .. HeapSize, m.dvsize \in Nat, NEW nb \in Nat,
         NEW fit, fit = BinnedFit(m, nb), fit # 0
  PROVE  /\ fit \in Filled(m) /\ fit \in Nat /\ nb <= fit
         /\ fit = nb \/ SmallRoom(nb, m.dvsize)
<1>1. PICK small, large : /\ small = {s \in SmallSizes(m) : s >= nb}
                          /\ large = {s \in TreeSizes(m) : s >= nb}
  OBVIOUS
<1>2. /\ small \subseteq Filled(m) /\ large \subseteq Filled(m) /\ Filled(m) \subseteq Nat
      /\ \A s \in small \cup large : nb <= s
  <2>1. SmallSizes(m) \subseteq Filled(m) /\ TreeSizes(m) \subseteq Filled(m)
    BY Zenon DEF SmallSizes, TreeSizes, Filled
  <2>2. Filled(m) \subseteq Nat
    <3>1. Filled(m) \subseteq MinChunk .. HeapSize
      BY Zenon DEF Filled
    <3> QED  BY <3>1, ListsAssumption
  <2> QED  BY <1>1, <2>1, <2>2
<1>3. CASE IsSmall(nb)
  <2>1. fit = IF nb \in small THEN nb
              ELSE IF nb <= m.dvsize THEN 0
              ELSE IF small # {} THEN Least(small)
              ELSE IF large # {} THEN Least(large) ELSE 0
    BY <1>1, <1>3, Zenon DEF BinnedFit
  <2>2. CASE nb \in small
    BY <1>2, <2>1, <2>2
  <2>3. CASE nb \notin small
    <3>1. ~(nb <= m.dvsize)
      BY <2>1, <2>3
    <3>2. SmallRoom(nb, m.dvsize)
      BY <1>3, <3>1, ListsAssumption DEF SmallRoom, IsSmall
    <3>3. CASE small # {}
      <4>1. fit = Least(small)
        BY <2>1, <2>3, <3>1, <3>3, Zenon
      <4>2. Least(small) \in small
        BY <1>2, <3>3, LeastIs
      <4> QED  BY <1>2, <3>2, <4>1, <4>2
    <3>4. CASE small = {}
      <4>1. fit = Least(large) /\ large # {}
        BY <2>1, <2>3, <3>1, <3>4, Zenon
      <4>2. Least(large) \in large
        BY <1>2, <4>1, LeastIs
      <4> QED  BY <1>2, <3>2, <4>1, <4>2
    <3> QED  BY <3>3, <3>4
  <2> QED  BY <2>2, <2>3
<1>4. CASE ~IsSmall(nb)
  <2>1. fit = IF large # {} /\ Least(large) - nb < Word(m.dvsize - nb) THEN Least(large) ELSE 0
    BY <1>1, <1>4, Zenon DEF BinnedFit
  <2>2. fit = Least(large) /\ large # {}
    BY <2>1
  <2>3. Least(large) \in large
    BY <1>2, <2>2, LeastIs
  <2>4. SmallRoom(nb, m.dvsize)
    BY <1>4 DEF SmallRoom
  <2> QED  BY <1>2, <2>2, <2>3, <2>4
<1> QED  BY <1>3, <1>4

(* A heap without memory has nothing to allocate from.                     *)
LEMMA NothingBinned ==
  ASSUME NEW m, Empty(m)
  PROVE  Filled(m) = {} /\ m.dvsize = 0 /\ m.topsize = 0
BY Zenon DEF Empty, Filled

(* Neither a bin nor the designated victim nor the top has nb granules.    *)
Exhausted(m, nb) == BinnedFit(m, nb) = 0 /\ ~(nb <= m.dvsize) /\ ~(nb < m.topsize)

(* Where a chunk came from: out of the heap, unless that is exhausted.     *)
Came(m, got, nb) ==
  /\ Answered(m, got, nb)
  /\ got.mem = NULL \/ got.heap.brk # m.brk => Exhausted(m, nb)

(* malloc() without its accounting                                         *)
LEMMA MallocChunkIs ==
  ASSUME NEW m, Heap(m), NEW nb \in MinChunk .. MaxSize, NEW fit, fit = BinnedFit(m, nb),
         NEW got, got = MallocChunk(m, nb, fit)
  PROVE  Came(m, got, nb)
<1>1. nb \in Nat /\ nb >= MinChunk /\ nb > 0
  BY ListsAssumption, HeapAssumption DEF MaxSize
<1>2. /\ DOMAIN m.bins = MinChunk .. HeapSize /\ m.topsize \in Int /\ (m.top # NULL => Grown(m))
  BY HeapIs
<1>3. m.dvsize \in Nat /\ (Empty(m) => Filled(m) = {} /\ m.dvsize = 0 /\ m.topsize = 0)
  <2>1. CASE Empty(m)
    BY <2>1, NothingBinned
  <2>2. CASE Grown(m)
    <3>1. m.dvsize \in 0 .. HeapSize
      BY <2>2, DvIs
    <3>2. ~Empty(m)
      BY <2>2 DEF Grown, Sound, Empty
    <3> QED  BY <3>1, <3>2
  <2> QED  BY <2>1, <2>2 DEF Heap
<1>4. fit # 0 => /\ fit \in Filled(m) /\ fit \in Nat /\ nb <= fit
                 /\ fit = nb \/ SmallRoom(nb, m.dvsize)
  BY <1>1, <1>2, <1>3, BinnedFitIs
<1>5. ASSUME Obtained(m, got.heap, got.mem, nb) PROVE Came(m, got, nb)
  <2>1. Acquired(m, got.heap, got.mem, nb) /\ got.heap.brk = m.brk
    BY <1>5 DEF Obtained
  <2>2. got.mem # NULL
    BY <2>1, ObtainedIs
  <2> QED  BY <2>1, <2>2 DEF Came, Answered
<1>6. CASE fit # 0
  <2>1. Grown(m)
    <3>1. ~Empty(m)
      BY <1>3, <1>4, <1>6
    <3> QED  BY <3>1 DEF Heap
  <2>2. got = FromBin(m, fit, nb)
    BY <1>6, Zenon DEF MallocChunk
  <2>3. fit \in DOMAIN m.bins /\ m.bins[fit] # <<>> /\ nb <= fit /\ (fit = nb \/ SmallRoom(nb, m.dvsize))
    BY <1>4, <1>6, Zenon DEF Filled
  <2> QED  BY <1>1, <1>5, <2>1, <2>2, <2>3, FromBinIs
<1>7. CASE fit = 0 /\ nb <= m.dvsize
  <2>1. Grown(m)
    <3>1. ~Empty(m)
      BY <1>1, <1>3, <1>7
    <3> QED  BY <3>1 DEF Heap
  <2>2. got = FromDv(m, nb)
    BY <1>7, Zenon DEF MallocChunk
  <2> QED  BY <1>1, <1>5, <1>7, <2>1, <2>2, FromDvIs
<1>8. CASE fit = 0 /\ ~(nb <= m.dvsize) /\ nb < m.topsize
  <2>1. Grown(m)
    <3>1. ~Empty(m)
      BY <1>1, <1>3, <1>8
    <3> QED  BY <3>1 DEF Heap
  <2>2. got = FromTop(m, nb)
    BY <1>8, Zenon DEF MallocChunk
  <2> QED  BY <1>1, <1>5, <1>8, <2>1, <2>2, FromTopIs
<1>9. CASE fit = 0 /\ ~(nb <= m.dvsize) /\ ~(nb < m.topsize)
  <2>1. got = SysAlloc(m, nb)
    BY <1>9, Zenon DEF MallocChunk
  <2>2. Answered(m, got, nb)
    BY <1>9, <2>1, SysAllocIs
  <2> QED  BY <1>9, <2>2 DEF Came, Exhausted
<1> QED  BY <1>6, <1>7, <1>8, <1>9

(* The call took p, a chunk of nb granules or a little more, from a heap m.*)
Given(m, n, p, nb) ==
  /\ Grown(n) /\ UsedIn(n.head) = UsedIn(m.head) \cup {p} /\ p \notin UsedIn(m.head)
  /\ SizesKept(m.head, n.head, UsedIn(m.head))
  /\ n.head[p].size \in Int /\ nb <= n.head[p].size /\ n.head[p].size <= nb + MinChunk
  /\ Called(m, n)

(* The call left the chunks of U in use as they were, and took the others. *)
Left(m, n, U) ==
  /\ Heap(n) /\ UsedIn(n.head) = U /\ SizesKept(m.head, n.head, U)
  /\ Called(m, n)

Served(m, got, nb) ==
  \/ got.mem = NULL /\ Left(m, got.heap, UsedIn(m.head)) /\ Keeps(m, got.heap, {"contiguous"})
  \/ got.mem # NULL /\ Given(m, got.heap, got.mem, nb)

(* The size that malloc() looks for on behalf of a request.                *)
SizeFor(r) == IF r >= MaxRequest THEN MaxSize ELSE Request2Size(r)

(* The size malloc() looks for is that of a chunk, and pad_request's where *)
(* the request is not too large.                                           *)
LEMMA SizeForIs ==
  ASSUME NEW r \in Nat
  PROVE  SizeFor(r) \in MinChunk .. MaxSize /\ (r < MaxRequest => SizeFor(r) = Request2Size(r))
<1>1. /\ MinChunk \in Nat /\ Overhead \in Nat /\ AddrSpace \in Nat /\ Overhead < MinChunk
      /\ MinChunk < AddrSpace /\ 0 < MinChunk
  BY ListsAssumption, TagsAssumption
<1> QED  BY <1>1 DEF SizeFor, Request2Size, MaxRequest, MaxSize

(* What a heap with memory has, for the proofs that expand no definition   *)
(* of it.                                                                  *)
LEMMA GrownIs ==
  ASSUME NEW m, Grown(m)
  PROVE  /\ Heap(m) /\ DOMAIN m = HeapFields /\ DOMAIN m.bins = MinChunk .. HeapSize /\ m.top # NULL
         /\ m.ok = TRUE /\ Words(m.head) /\ m.top \in Int /\ m.topsize \in Int /\ m.topsize > 0
         /\ Listed(m, FreeIn(m.head, m.top), m.head)
         /\ Segment(m.head, m.foot, m.segbase, m.top, m.topsize)
         /\ DOMAIN m.foot \subseteq Int /\ DOMAIN m.head \subseteq Int
<1>1. Sound(m, FreeIn(m.head, m.top))
  BY DEF Grown
<1>2. /\ DOMAIN m = HeapFields /\ DOMAIN m.bins = MinChunk .. HeapSize /\ m.top # NULL /\ m.ok = TRUE
      /\ Words(m.head) /\ m.top \in Int /\ m.topsize \in Int
      /\ Listed(m, FreeIn(m.head, m.top), m.head)
      /\ Segment(m.head, m.foot, m.segbase, m.top, m.topsize)
      /\ DOMAIN m.foot \subseteq Int /\ DOMAIN m.head \subseteq Int
  BY <1>1, SoundIs
<1>3. m.topsize > 0
  BY <1>2, SegmentIs
<1> QED  BY <1>2, <1>3 DEF Heap

(* The usage is of no consequence.                                         *)
LEMMA UsageFrame ==
  ASSUME NEW m, Grown(m), NEW n, Keeps(m, n, {"usage"})
  PROVE  Grown(n) /\ n.head = m.head /\ n.foot = m.foot /\ n.segbase = m.segbase /\ n.top = m.top
<1>1. /\ n.head = m.head /\ n.foot = m.foot /\ n.segbase = m.segbase /\ n.top = m.top
      /\ n.contiguous = m.contiguous /\ n.trim_check = m.trim_check /\ Keeps(m, n, QuietFields)
  BY DEF Keeps, HeapFields, QuietFields
<1>2. Heap(m) /\ m.contiguous \in BOOLEAN
  <2>1. Heap(m)
    BY DEF Heap
  <2> QED  BY <2>1, HeapIs DEF Breaking
<1> QED  BY <1>1, <1>2, HeapFrame

(* No free chunk is before a chunk that was obtained.                      *)
Packed(got) == got.mem # NULL => UsedBefore(got.heap.head, got.mem)

(* malloc() counts what it returns and changes nothing else.               *)
LEMMA CountMallocIs ==
  ASSUME NEW m, NEW got, NEW nb \in Int, Answered(m, got, nb), NEW ans, ans = CountMalloc(got)
  PROVE  Served(m, ans, nb) /\ Packed(ans)
<1>1. CASE got.mem = NULL
  <2>1. ans = got /\ SameBlocks(m, got.heap) /\ Keeps(m, got.heap, {"contiguous"})
    BY <1>1, ObtainedIs DEF CountMalloc, Answered
  <2>2. Left(m, got.heap, UsedIn(m.head))
    BY <2>1 DEF Left, SameBlocks
  <2> QED  BY <1>1, <2>1, <2>2 DEF Served, Packed
<1>2. CASE got.mem # NULL
  <2>1. PICK k, p : k = got.heap /\ p = got.mem
    OBVIOUS
  <2>2. Acquired(m, k, p, nb)
    BY <1>2, <2>1 DEF Answered
  <2>3. PICK n : n = [k EXCEPT !.usage = @ + ChunkSize(k, p)]
    OBVIOUS
  <2>4. ans.heap = n /\ ans.mem = p
    BY <1>2, <2>1, <2>3 DEF CountMalloc, Result
  <2>5. Grown(k) /\ Called(m, k)
    BY <2>2 DEF Acquired
  <2>6. Keeps(k, n, {"usage"}) /\ Called(m, n)
    <3>1. DOMAIN k = HeapFields
      BY <2>5 DEF Called, Keeps
    <3>2. Keeps(k, n, {"usage"})
      BY <2>3, <3>1 DEF Keeps, HeapFields
    <3>3. Keeps(k, n, StillFields)
      BY <3>2 DEF Keeps, StillFields
    <3> QED  BY <2>5, <3>2, <3>3, StillCalled, CalledTwice
  <2>7. Grown(n) /\ n.head = k.head
    BY <2>5, <2>6, UsageFrame
  <2>8. k.head[p].size <= nb + MinChunk
    <3>1. k.head[p].size \in Int /\ k.head[p].size < nb + MinChunk
      BY <2>2 DEF Acquired
    <3> QED  BY <3>1, ListsAssumption
  <2>9. Given(m, n, p, nb)
    BY <2>2, <2>6, <2>7, <2>8 DEF Acquired, Given
  <2>10. UsedBefore(n.head, p)
    BY <2>2, <2>7 DEF Acquired
  <2> QED  BY <1>2, <2>1, <2>4, <2>9, <2>10 DEF Served, Packed
<1> QED  BY <1>1, <1>2

(* malloc() obtains a chunk of the size of the request, or nothing, and    *)
(* leaves every block where it was.                                        *)
THEOREM MallocKeepsHeap ==
  ASSUME NEW m, Heap(m), NEW r \in Nat, NEW got, got = DlMalloc(m, r)
  PROVE  Served(m, got, SizeFor(r)) /\ Packed(got)
<1>1. PICK nb \in MinChunk .. MaxSize : nb = SizeFor(r)
  BY SizeForIs
<1>2. PICK fit : fit = BinnedFit(m, nb)
  OBVIOUS
<1>3. PICK chunk : chunk = MallocChunk(m, nb, fit)
  OBVIOUS
<1>4. Answered(m, chunk, nb)
  BY <1>2, <1>3, MallocChunkIs DEF Came
<1>5. got = CountMalloc(chunk)
  BY <1>1, <1>2, <1>3, Zenon DEF DlMalloc, SizeFor
<1> QED  BY <1>1, <1>4, <1>5, CountMallocIs

(* malloc() fails, or moves the break, only when nothing that it has is    *)
(* large enough.                                                           *)
LEMMA MallocExhausts ==
  ASSUME NEW m, Heap(m), NEW r \in Nat, NEW got, got = DlMalloc(m, r),
         got.mem = NULL \/ got.heap.brk # m.brk
  PROVE  Exhausted(m, SizeFor(r))
<1>1. PICK nb \in MinChunk .. MaxSize : nb = SizeFor(r)
  BY SizeForIs
<1>2. PICK fit : fit = BinnedFit(m, nb)
  OBVIOUS
<1>3. PICK chunk : chunk = MallocChunk(m, nb, fit)
  OBVIOUS
<1>4. Came(m, chunk, nb)
  BY <1>2, <1>3, MallocChunkIs
<1>5. got = CountMalloc(chunk)
  BY <1>1, <1>2, <1>3, Zenon DEF DlMalloc, SizeFor
<1>6. CASE chunk.mem = NULL
  BY <1>1, <1>4, <1>6 DEF Came
<1>7. CASE chunk.mem # NULL
  <2>1. DOMAIN chunk.heap = HeapFields
    BY <1>4, <1>7 DEF Came, Answered, Acquired, Called, Keeps
  <2>2. got.mem = chunk.mem /\ got.heap.brk = chunk.heap.brk
    BY <1>5, <1>7, <2>1 DEF CountMalloc, Result, HeapFields
  <2> QED  BY <1>1, <1>4, <1>7, <2>2 DEF Came
<1> QED  BY <1>6, <1>7

-----------------------------------------------------------------------------
(* free                                                                    *)

(* The runtime checks hold of every chunk in use.                          *)
LEMMA ValidIs ==
  ASSUME NEW m, Grown(m), NEW p \in UsedIn(m.head)
  PROVE  Owned(m, p) /\ Valid(m, p) /\ IsInuse(m, p)
<1>1. PICK h, f, e, s : h = m.head /\ f = m.foot /\ e = End(h, p) /\ s = h[p].size
  OBVIOUS
<1>2. Segment(h, f, m.segbase, m.top, m.topsize)
  BY <1>1, GrownIs
<1>3. p \in DOMAIN h /\ h[p].cinuse
  BY <1>1 DEF UsedIn
<1>4. /\ p \in Int /\ m.segbase <= p /\ GoodChunk(h, f, p, m.top) /\ p < e /\ s \in Int
      /\ h[p].cinuse \in BOOLEAN
  BY <1>1, <1>2, <1>3, ChunkIs
<1>5. h[p].cinuse = TRUE
  BY <1>3, <1>4
<1>6. h[e].pinuse = TRUE /\ f[e] = Magic
  BY <1>1, <1>4, <1>5 DEF GoodChunk
<1>7. p + s = e
  BY <1>1 DEF End
<1>8. IsInuse(m, p)
  BY <1>1, <1>3, Zenon DEF IsInuse, Cinuse
<1>9. Owned(m, p)
  <2>1. p >= m.segbase
    BY <1>2, <1>4, SegmentIs
  <2>2. m.foot[p + ChunkSize(m, p)] = Magic
    BY <1>1, <1>6, <1>7 DEF ChunkSize
  <2> QED  BY <1>8, <2>1, <2>2 DEF Owned
<1>10. p < p + ChunkSize(m, p)
  BY <1>1, <1>4, <1>7 DEF ChunkSize
<1>11. Pinuse(m, p + ChunkSize(m, p))
  BY <1>1, <1>6, <1>7 DEF ChunkSize, Pinuse
<1>12. Valid(m, p)
  BY <1>9, <1>10, <1>11 DEF Valid
<1> QED  BY <1>8, <1>9, <1>12

(* free() may trim the top, which leaves the chunks alone.                 *)
LEMMA TrimIfLargeIs ==
  ASSUME NEW m, Heap(m), NEW n, n = TrimIfLarge(m)
  PROVE  SameBlocks(m, n) /\ (Grown(m) => Grown(n))
<1>1. CASE ShouldTrim(m, m.topsize)
  <2>1. n = SysTrim(m, 0) /\ 0 \in Nat
    BY <1>1 DEF TrimIfLarge
  <2> QED  BY <2>1, SysTrimIs
<1>2. CASE ~ShouldTrim(m, m.topsize)
  <2>1. n = m
    BY <1>2 DEF TrimIfLarge
  <2> QED  BY <2>1, NothingChanged
<1> QED  BY <1>1, <1>2

(* free() of a chunk in use: it alone is no longer in use.                 *)
LEMMA FreeChunkIs ==
  ASSUME NEW m, Grown(m), NEW p \in UsedIn(m.head), NEW s, s = m.head[p].size,
         NEW n, n = FreeChunk(m, p, s), NEW U, U = UsedIn(m.head) \ {p}
  PROVE  Left(m, n, U) /\ Grown(n)
<1>1. PICK k : k = DisposeChunk(m, p, s)
  OBVIOUS
<1>2. Became(m, k, U, U)
  BY <1>1, DisposeChunkIs
<1>3. Grown(k) /\ UsedIn(k.head) = U /\ SizesKept(m.head, k.head, U) /\ Called(m, k)
  <2>1. /\ Grown(k) /\ UsedIn(k.head) = U /\ SizesKept(m.head, k.head, U)
        /\ Keeps(m, k, ChunkFields)
    BY <1>2 DEF Became
  <2>2. Keeps(m, k, StillFields)
    BY <2>1 DEF Keeps, StillFields
  <2> QED  BY <2>1, <2>2, StillCalled
<1>4. CASE n = k
  BY <1>3, <1>4 DEF Left, Heap
<1>5. CASE n = TrimIfLarge(k)
  <2>1. SameBlocks(k, n) /\ Grown(n)
    BY <1>3, <1>5, TrimIfLargeIs DEF Heap
  <2>2. Called(m, n)
    BY <1>3, <2>1, CalledTwice DEF SameBlocks
  <2> QED  BY <1>3, <2>1, <2>2 DEF SameBlocks, SizesKept, Left
<1>6. n = k \/ n = TrimIfLarge(k)
  BY <1>1, Zenon DEF FreeChunk
<1> QED  BY <1>4, <1>5, <1>6

(* free() takes the block it is given, merges it with its neighbours, and  *)
(* leaves the others where they were.                                      *)
THEOREM FreeKeepsHeap ==
  ASSUME NEW m, Grown(m), NEW p \in UsedIn(m.head), NEW n, n = DlFree(m, p)
  PROVE  Left(m, n, UsedIn(m.head) \ {p}) /\ Grown(n)
<1>1. PICK k : k = CountFree(m, p)
  OBVIOUS
<1>2. Keeps(m, k, {"usage"})
  <2>1. DOMAIN m = HeapFields
    BY GrownIs
  <2> QED  BY <1>1, <2>1 DEF CountFree, Keeps, HeapFields
<1>3. Grown(k) /\ k.head = m.head
  BY <1>2, UsageFrame
<1>4. Check(k, Valid(m, p)) = k
  <2>1. Valid(m, p)
    BY ValidIs
  <2> QED  BY <2>1, Zenon DEF Check
<1>5. PICK U : U = UsedIn(m.head) \ {p}
  OBVIOUS
<1>6. n = FreeChunk(k, p, m.head[p].size)
  BY <1>1, <1>4, Zenon DEF DlFree, ChunkSize
<1>7. Left(k, n, U) /\ Grown(n)
  <2>1. PICK s : s = m.head[p].size
    OBVIOUS
  <2>2. /\ Grown(k) /\ p \in UsedIn(k.head) /\ s = k.head[p].size /\ n = FreeChunk(k, p, s)
        /\ U = UsedIn(k.head) \ {p}
    BY <1>3, <1>5, <1>6, <2>1
  <2> QED  BY <2>2, FreeChunkIs
<1>8. Called(m, n)
  <2>1. Keeps(m, k, StillFields)
    BY <1>2 DEF Keeps, StillFields
  <2> QED  BY <1>7, <2>1, StillCalled, CalledTwice DEF Left
<1> QED  BY <1>3, <1>5, <1>7, <1>8 DEF Left, Heap

-----------------------------------------------------------------------------
(* Cutting and joining chunks in use                                       *)

(* The tags changed, and the free chunks are those that the lists hold.    *)
LEMMA Retagged ==
  ASSUME NEW m, NEW F, Sound(m, F), NEW n, KeepsTags(m, n),
         Segment(n.head, n.foot, m.segbase, m.top, m.topsize), FreeIn(n.head, m.top) = F,
         \A x \in F : n.head[x].size = m.head[x].size
  PROVE  Grown(n)
<1>1. /\ DOMAIN n = HeapFields /\ n.bins = m.bins /\ n.dv = m.dv /\ n.dvsize = m.dvsize
      /\ n.top = m.top /\ n.topsize = m.topsize /\ Keeps(m, n, ChunkFields)
  BY DEF KeepsTags, Keeps, HeapFields, ChunkFields
<1>2. Listed(m, F, m.head)
  BY SoundIs
<1>3. Listed(n, F, n.head)
  BY <1>1, <1>2, ListedFrame
<1>4. m.top # NULL
  BY SoundIs
<1>5. Sound(n, F)
  BY <1>1, <1>3, <1>4, SoundAgain
<1> QED  BY <1>1, <1>5 DEF Grown

(* The head that set_inuse writes says of the chunk before what the old    *)
(* one said.                                                               *)
LEMMA SetInuseTag ==
  ASSUME NEW h, Words(h), NEW p \in DOMAIN h, NEW s
  PROVE  Tag(s, TRUE, p \in DOMAIN h /\ h[p].pinuse) = Tag(s, TRUE, h[p].pinuse)
<1>1. h[p].pinuse \in BOOLEAN
  BY DEF Words
<1>2. CASE h[p].pinuse = TRUE
  BY <1>2, Zenon
<1>3. CASE h[p].pinuse = FALSE
  BY <1>3, Zenon
<1> QED  BY <1>1, <1>2, <1>3

(* The span from p to e became one chunk in use, or two that meet at q.    *)
SpanTaken(m, n, p, e) ==
  /\ Grown(n) /\ KeepsTags(m, n)
  /\ UsedIn(n.head) = (UsedIn(m.head) \ (p .. e-1)) \cup {p} /\ n.head[p].size = e - p
  /\ \A x \in UsedIn(m.head) : x \notin p .. e-1 => n.head[x].size = m.head[x].size

SpanCut(m, n, p, q, e) ==
  /\ Grown(n) /\ KeepsTags(m, n)
  /\ UsedIn(n.head) = (UsedIn(m.head) \ (p .. e-1)) \cup {p, q}
  /\ n.head[p].size = q - p /\ n.head[q].size = e - q
  /\ \A x \in UsedIn(m.head) : x \notin p .. e-1 => n.head[x].size = m.head[x].size

(* A span taken for one chunk in use leaves the heap sound.                *)
LEMMA TakeSpan ==
  ASSUME NEW m, NEW F, Sound(m, F), NEW p \in DOMAIN m.head, NEW e \in DOMAIN m.head, e <= m.top,
         NEW s, s = e - p, e - p >= MinChunk, F = FreeIn(m.head, m.top) \ (p .. e-1),
         NEW n, n = SetInuse(m, p, s)
  PROVE  SpanTaken(m, n, p, e)
<1>1. PICK h, f : h = m.head /\ f = m.foot
  OBVIOUS
<1>2. /\ DOMAIN m = HeapFields /\ Segment(h, f, m.segbase, m.top, m.topsize) /\ Words(h)
      /\ DOMAIN f \subseteq Int
  BY <1>1, SoundIs
<1>3. /\ p \in Int /\ e \in Int /\ p \in DOMAIN h /\ e \in DOMAIN h /\ s \in Int /\ s > 0 /\ e = p + s
  <2>1. p \in Int /\ e \in Int
    BY <1>1, <1>2 DEF Words
  <2> QED  BY <1>1, <2>1, ListsAssumption
<1>4. /\ KeepsTags(m, n) /\ Laid(h, f, n.head, n.foot, p, s, Tag(s, TRUE, h[p].pinuse), Magic)
      /\ Told(h, n.head, e, TRUE)
  <2>1. /\ KeepsTags(m, n) /\ Told(m.head, n.head, p + s, TRUE)
        /\ Laid(m.head, m.foot, n.head, n.foot, p, s, Tag(s, TRUE, p \in DOMAIN m.head /\ m.head[p].pinuse), Magic)
    BY <1>1, <1>2, <1>3, SetInuseIs
  <2>2. Tag(s, TRUE, p \in DOMAIN m.head /\ m.head[p].pinuse) = Tag(s, TRUE, m.head[p].pinuse)
    BY <1>1, <1>2, SetInuseTag
  <2> QED  BY <1>1, <1>3, <2>1, <2>2
<1>5. Whole(h, f, n.head, n.foot, p, e, TRUE)
  <2>1. Footer(TRUE, s) = Magic
    BY DEF Footer
  <2>2. e \in DOMAIN n.head /\ n.head[e] = Tag(h[e].size, h[e].cinuse, TRUE)
    BY <1>2, <1>3, <1>4, ToldInuse
  <2> QED  BY <1>2, <1>3, <1>4, <2>1, <2>2, LaidWhole
<1>6. /\ Segment(n.head, n.foot, m.segbase, m.top, m.topsize)
      /\ OneChunk(h, n.head, m.top, p, e, TRUE)
  BY <1>2, <1>3, <1>5, SegmentTaken
<1>7. /\ UsedIn(n.head) = (UsedIn(h) \ (p .. e-1)) \cup {p} /\ FreeIn(n.head, m.top) = F
      /\ n.head[p].size = e - p
      /\ \A x \in DOMAIN h : x \notin p .. e-1 => n.head[x].size = h[x].size
  BY <1>1, <1>6 DEF OneChunk
<1>8. \A x \in F : n.head[x].size = m.head[x].size
  BY <1>1, <1>7 DEF FreeIn
<1>9. Grown(n)
  BY <1>4, <1>6, <1>7, <1>8, Retagged
<1> QED  BY <1>1, <1>4, <1>7, <1>9 DEF SpanTaken, UsedIn

(* A segment in which a span became two chunks in use is one still.        *)
LEMMA SegmentCutUsed ==
  ASSUME NEW h, NEW f, NEW a, NEW t, NEW n, Segment(h, f, a, t, n), NEW h2, NEW f2,
         NEW p \in DOMAIN h, NEW q \in Int, NEW r \in DOMAIN h,
         q - p >= MinChunk, r - q >= MinChunk, r <= t, Cut(h, f, h2, f2, p, q, r, TRUE, TRUE)
  PROVE  Segment(h2, f2, a, t, n) /\ TwoChunks(h, h2, t, p, q, r, TRUE)
<1>1. TRUE \in BOOLEAN
  OBVIOUS
<1> QED  BY <1>1, SegmentCut, Zenon

(* A span cut into two chunks in use leaves the heap sound.                *)
LEMMA CutSpanIs ==
  ASSUME NEW m, NEW F, Sound(m, F), NEW p \in DOMAIN m.head, NEW e \in DOMAIN m.head, e <= m.top,
         NEW q \in Int, q - p >= MinChunk, e - q >= MinChunk, F = FreeIn(m.head, m.top) \ (p .. e-1),
         NEW n, KeepsTags(m, n), Cut(m.head, m.foot, n.head, n.foot, p, q, e, TRUE, TRUE)
  PROVE  SpanCut(m, n, p, q, e)
<1>1. PICK h, f : h = m.head /\ f = m.foot
  OBVIOUS
<1>2. Segment(h, f, m.segbase, m.top, m.topsize)
  BY <1>1, SoundIs
<1>3. /\ Segment(n.head, n.foot, m.segbase, m.top, m.topsize)
      /\ TwoChunks(h, n.head, m.top, p, q, e, TRUE)
  BY <1>1, <1>2, SegmentCutUsed
<1>4. /\ UsedIn(n.head) = (UsedIn(h) \ (p .. e-1)) \cup {p, q} /\ FreeIn(n.head, m.top) = F
      /\ n.head[p].size = q - p /\ n.head[q].size = e - q
      /\ \A x \in DOMAIN h : x \notin p .. e-1 => n.head[x].size = h[x].size
  BY <1>1, <1>3 DEF TwoChunks
<1>5. \A x \in F : n.head[x].size = m.head[x].size
  BY <1>1, <1>4 DEF FreeIn
<1>6. Grown(n)
  BY <1>3, <1>4, <1>5, Retagged
<1> QED  BY <1>1, <1>4, <1>6 DEF SpanCut, UsedIn

(* set_inuse writes words.                                                 *)
LEMMA SetInuseWords ==
  ASSUME NEW m, DOMAIN m = HeapFields, Words(m.head), NEW p \in Int, NEW s \in Int, s > 0,
         NEW k, k = SetInuse(m, p, s)
  PROVE  DOMAIN k = HeapFields /\ Words(k.head)
<1>1. PICK w : w = (p \in DOMAIN m.head /\ m.head[p].pinuse)
  OBVIOUS
<1>2. w \in BOOLEAN
  BY <1>1, Zenon
<1>3. PICK h, h1, f, f1 : h = m.head /\ h1 = k.head /\ f = m.foot /\ f1 = k.foot
  OBVIOUS
<1>4. KeepsTags(m, k) /\ Laid(h, f, h1, f1, p, s, Tag(s, TRUE, w), Magic) /\ Told(h, h1, p + s, TRUE)
  BY <1>1, <1>3, SetInuseIs
<1>5. DOMAIN k = HeapFields
  BY <1>4 DEF KeepsTags, Keeps
<1>6. Tag(s, TRUE, w) \in [size : Int, cinuse : BOOLEAN, pinuse : BOOLEAN]
  BY <1>2, TagInWords
<1>7. h1[p + s] \in [size : Int, cinuse : BOOLEAN, pinuse : BOOLEAN]
  <2>1. CASE p + s \in DOMAIN h
    <3>1. h[p + s].size \in Int /\ h[p + s].cinuse \in BOOLEAN
      BY <1>3, <2>1 DEF Words
    <3>2. h1[p + s] = Tag(h[p + s].size, h[p + s].cinuse, TRUE)
      BY <1>4, <2>1, Zenon DEF Told
    <3>3. Tag(h[p + s].size, h[p + s].cinuse, TRUE) \in [size : Int, cinuse : BOOLEAN, pinuse : BOOLEAN]
      BY <3>1, TagInWords
    <3> QED  BY <3>2, <3>3
  <2>2. CASE p + s \notin DOMAIN h
    <3>1. h1[p + s] = Tag(0, FALSE, TRUE)
      BY <1>4, <2>2, Zenon DEF Told
    <3>2. Tag(0, FALSE, TRUE) \in [size : Int, cinuse : BOOLEAN, pinuse : BOOLEAN]
      <4>1. 0 \in Int /\ FALSE \in BOOLEAN /\ TRUE \in BOOLEAN
        OBVIOUS
      <4> QED  BY <4>1, TagInWords, Zenon
    <3> QED  BY <3>1, <3>2
  <2> QED  BY <2>1, <2>2
<1>8. \A x \in DOMAIN h1 : x \in Int /\ h1[x] \in [size : Int, cinuse : BOOLEAN, pinuse : BOOLEAN]
  <2> TAKE x \in DOMAIN h1
  <2>1. CASE x = p
    BY <1>4, <1>6, <2>1 DEF Laid
  <2>2. CASE x = p + s
    BY <1>7, <2>2
  <2>3. CASE x # p /\ x # p + s
    <3>1. x \in DOMAIN h /\ h1[x] = h[x]
      BY <1>4, <2>3 DEF Laid
    <3> QED  BY <1>3, <3>1 DEF Words
  <2> QED  BY <2>1, <2>2, <2>3
<1> QED  BY <1>3, <1>5, <1>8 DEF Words

(* The first chunk is marked in use first (CutTail).                       *)
LEMMA CutSpan ==
  ASSUME NEW m, NEW F, Sound(m, F), NEW p \in DOMAIN m.head, NEW e \in DOMAIN m.head, e <= m.top,
         NEW q \in Int, q - p >= MinChunk, e - q >= MinChunk, F = FreeIn(m.head, m.top) \ (p .. e-1),
         NEW k, k = SetInuse(m, p, q - p), NEW n, n = SetInuse(k, q, e - q)
  PROVE  SpanCut(m, n, p, q, e)
<1>1. PICK h, f, h1, f1, h2, f2 : /\ h = m.head /\ f = m.foot /\ h1 = k.head /\ f1 = k.foot
                                  /\ h2 = n.head /\ f2 = n.foot
  OBVIOUS
<1>2. DOMAIN m = HeapFields /\ Words(h) /\ DOMAIN f \subseteq Int
  BY <1>1, SoundIs
<1>3. PICK s \in Int, z \in Int : s = q - p /\ z = e - q /\ s > 0 /\ z > 0 /\ q = p + s /\ e = q + z
                                  /\ p \in Int /\ e \in Int
  <2>1. p \in Int /\ e \in Int
    BY <1>1, <1>2 DEF Words
  <2> QED  BY <2>1, ListsAssumption
<1>4. DOMAIN k = HeapFields /\ Words(h1)
  BY <1>1, <1>2, <1>3, SetInuseWords
<1>5. /\ KeepsTags(m, k) /\ Laid(h, f, h1, f1, p, s, Tag(s, TRUE, h[p].pinuse), Magic)
      /\ Told(h, h1, q, TRUE)
  <2>1. /\ KeepsTags(m, k) /\ Told(h, h1, p + s, TRUE)
        /\ Laid(h, f, h1, f1, p, s, Tag(s, TRUE, p \in DOMAIN h /\ h[p].pinuse), Magic)
    BY <1>1, <1>2, <1>3, SetInuseIs
  <2>2. Tag(s, TRUE, p \in DOMAIN h /\ h[p].pinuse) = Tag(s, TRUE, h[p].pinuse)
    BY <1>1, <1>2, SetInuseTag
  <2> QED  BY <1>3, <2>1, <2>2
<1>6. q \in DOMAIN h1 /\ h1[q].pinuse = TRUE
  <2>1. CASE q \in DOMAIN h
    <3>1. q \in DOMAIN h1 /\ h1[q] = Tag(h[q].size, h[q].cinuse, TRUE)
      BY <1>5, <2>1, Zenon DEF Told
    <3> QED  BY <3>1 DEF Tag
  <2>2. CASE q \notin DOMAIN h
    <3>1. q \in DOMAIN h1 /\ h1[q] = Tag(0, FALSE, TRUE)
      BY <1>5, <2>2, Zenon DEF Told
    <3> QED  BY <3>1 DEF Tag
  <2> QED  BY <2>1, <2>2
<1>7. /\ KeepsTags(k, n) /\ Laid(h1, f1, h2, f2, q, z, Tag(z, TRUE, TRUE), Magic)
      /\ Told(h1, h2, e, TRUE)
  <2>1. /\ KeepsTags(k, n) /\ Told(h1, h2, q + z, TRUE)
        /\ Laid(h1, f1, h2, f2, q, z, Tag(z, TRUE, q \in DOMAIN h1 /\ h1[q].pinuse), Magic)
    BY <1>1, <1>3, <1>4, SetInuseIs
  <2>2. Tag(z, TRUE, q \in DOMAIN h1 /\ h1[q].pinuse) = Tag(z, TRUE, h1[q].pinuse)
    BY <1>4, <1>6, SetInuseTag
  <2>3. Tag(z, TRUE, h1[q].pinuse) = Tag(z, TRUE, TRUE)
    BY <1>6, Zenon
  <2> QED  BY <1>3, <2>1, <2>2, <2>3
<1>8. Cut(h, f, h2, f2, p, q, e, TRUE, TRUE)
  <2>1. Footer(TRUE, s) = Magic /\ Footer(TRUE, z) = Magic
    BY DEF Footer
  <2>2. e \in DOMAIN h2 /\ h2[e] = Tag(h[e].size, h[e].cinuse, TRUE)
    <3>1. e \in DOMAIN h1 /\ h1[e] = h[e]
      <4>1. e # p /\ e # p + s /\ e >= p + s /\ e \in DOMAIN h
        BY <1>1, <1>3
      <4> QED  BY <1>5, <4>1 DEF Laid
    <3>2. e \in DOMAIN h2 /\ h2[e] = Tag(h1[e].size, h1[e].cinuse, TRUE)
      BY <1>4, <1>7, <3>1, ToldInuse
    <3> QED  BY <3>1, <3>2
  <2>3. p \in DOMAIN h /\ e \in DOMAIN h
    BY <1>1
  <2> QED  BY <1>2, <1>3, <1>5, <1>7, <2>1, <2>2, <2>3, LaidCut
<1>9. KeepsTags(m, n)
  BY <1>5, <1>7 DEF KeepsTags, Keeps
<1> QED  BY <1>1, <1>8, <1>9, CutSpanIs

(* The second one is (internal_memalign).                                  *)
LEMMA CutSpanBack ==
  ASSUME NEW m, NEW F, Sound(m, F), NEW p \in DOMAIN m.head, NEW e \in DOMAIN m.head, e <= m.top,
         NEW q \in Int, q - p >= MinChunk, e - q >= MinChunk, F = FreeIn(m.head, m.top) \ (p .. e-1),
         NEW k, k = SetInuse(m, q, e - q), NEW n, n = SetInuse(k, p, q - p)
  PROVE  SpanCut(m, n, p, q, e)
<1>1. PICK h, f, h1, f1, h2, f2 : /\ h = m.head /\ f = m.foot /\ h1 = k.head /\ f1 = k.foot
                                  /\ h2 = n.head /\ f2 = n.foot
  OBVIOUS
<1>2. DOMAIN m = HeapFields /\ Words(h) /\ DOMAIN f \subseteq Int
  BY <1>1, SoundIs
<1>3. PICK s \in Int, z \in Int : s = q - p /\ z = e - q /\ s > 0 /\ z > 0 /\ q = p + s /\ e = q + z
                                  /\ p \in Int /\ e \in Int
  <2>1. p \in Int /\ e \in Int
    BY <1>1, <1>2 DEF Words
  <2> QED  BY <2>1, ListsAssumption
<1>4. DOMAIN k = HeapFields /\ Words(h1)
  BY <1>1, <1>2, <1>3, SetInuseWords
<1>5. PICK w : w = (q \in DOMAIN h /\ h[q].pinuse)
  OBVIOUS
<1>6. /\ KeepsTags(m, k) /\ Laid(h, f, h1, f1, q, z, Tag(z, TRUE, w), Magic) /\ Told(h, h1, e, TRUE)
  <2>1. /\ KeepsTags(m, k) /\ Told(h, h1, q + z, TRUE)
        /\ Laid(h, f, h1, f1, q, z, Tag(z, TRUE, q \in DOMAIN h /\ h[q].pinuse), Magic)
    BY <1>1, <1>2, <1>3, SetInuseIs
  <2> QED  BY <1>3, <1>5, <2>1
<1>7. p \in DOMAIN h1 /\ h1[p] = h[p] /\ q \in DOMAIN h1 /\ h1[q] = Tag(z, TRUE, w)
  <2>1. p # q /\ p # q + z /\ p <= q /\ p \in DOMAIN h
    BY <1>1, <1>3
  <2>2. p \in DOMAIN h1 /\ h1[p] = h[p]
    BY <1>6, <2>1 DEF Laid
  <2>3. q \in DOMAIN h1 /\ h1[q] = Tag(z, TRUE, w)
    <3>1. q <= q /\ q + z > q
      BY <1>3
    <3> QED  BY <1>6, <3>1 DEF Laid
  <2> QED  BY <2>2, <2>3
<1>8. /\ KeepsTags(k, n) /\ Laid(h1, f1, h2, f2, p, s, Tag(s, TRUE, h[p].pinuse), Magic)
      /\ Told(h1, h2, q, TRUE)
  <2>1. /\ KeepsTags(k, n) /\ Told(h1, h2, p + s, TRUE)
        /\ Laid(h1, f1, h2, f2, p, s, Tag(s, TRUE, p \in DOMAIN h1 /\ h1[p].pinuse), Magic)
    BY <1>1, <1>3, <1>4, SetInuseIs
  <2>2. Tag(s, TRUE, p \in DOMAIN h1 /\ h1[p].pinuse) = Tag(s, TRUE, h1[p].pinuse)
    BY <1>4, <1>7, SetInuseTag
  <2>3. Tag(s, TRUE, h1[p].pinuse) = Tag(s, TRUE, h[p].pinuse)
    BY <1>7
  <2> QED  BY <1>3, <2>1, <2>2, <2>3
<1>9. q \in DOMAIN h2 /\ h2[q] = Tag(z, TRUE, TRUE)
  <2>1. q \in DOMAIN h2 /\ h2[q] = Tag(h1[q].size, h1[q].cinuse, TRUE)
    BY <1>4, <1>7, <1>8, ToldInuse
  <2>2. h1[q].size = z /\ h1[q].cinuse = TRUE
    BY <1>7 DEF Tag
  <2> QED  BY <2>1, <2>2, Zenon
<1>10. Cut(h, f, h2, f2, p, q, e, TRUE, TRUE)
  <2>1. Footer(TRUE, s) = Magic /\ Footer(TRUE, z) = Magic
    BY DEF Footer
  <2>2. p \in DOMAIN h /\ e \in DOMAIN h
    BY <1>1
  <2>3. e \in DOMAIN h1 /\ h1[e] = Tag(h[e].size, h[e].cinuse, TRUE)
    BY <1>2, <1>6, <2>2, ToldInuse
  <2>4. /\ Laid(h, f, h1, f1, q, z, Tag(z, TRUE, w), Footer(TRUE, z))
        /\ Laid(h1, f1, h2, f2, p, s, Tag(s, TRUE, h[p].pinuse), Footer(TRUE, s))
    BY <1>6, <1>8, <2>1
  <2> QED  BY <1>2, <1>3, <1>9, <2>2, <2>3, <2>4, LaidCutBack
<1>11. KeepsTags(m, n)
  BY <1>6, <1>8 DEF KeepsTags, Keeps
<1> QED  BY <1>1, <1>10, <1>11, CutSpanIs

-----------------------------------------------------------------------------
(* Resizing in place                                                       *)

(* The chunk at p was resized for nb granules, and no other one was.       *)
Resized(m, n, p, nb) ==
  /\ Grown(n) /\ UsedIn(n.head) = UsedIn(m.head)
  /\ SizesKept(m.head, n.head, UsedIn(m.head) \ {p})
  /\ n.head[p].size \in Int /\ nb <= n.head[p].size /\ n.head[p].size < nb + MinChunk
  /\ Keeps(m, n, ChunkFields)

(* p is the only chunk in use from there to e.                             *)
Lone(m, p, e) ==
  /\ p \in UsedIn(m.head) /\ p \in DOMAIN m.head /\ e \in DOMAIN m.head /\ e <= m.top
  /\ UsedIn(m.head) \ (p .. e-1) = UsedIn(m.head) \ {p}

(* The chunk at p takes all of the span to e.                              *)
LEMMA LoneTaken ==
  ASSUME NEW m, NEW F, Sound(m, F), NEW p, NEW e, Lone(m, p, e), NEW s, s = e - p,
         F = FreeIn(m.head, m.top) \ (p .. e-1),
         NEW nb \in Int, nb >= MinChunk, nb <= s, s < nb + MinChunk, NEW n, n = SetInuse(m, p, s)
  PROVE  Resized(m, n, p, nb)
<1>1. /\ p \in UsedIn(m.head) /\ p \in DOMAIN m.head /\ e \in DOMAIN m.head /\ e <= m.top
      /\ UsedIn(m.head) \ (p .. e-1) = UsedIn(m.head) \ {p}
  BY DEF Lone
<1>2. p \in Int /\ e \in Int /\ MinChunk \in Int
  <2>1. DOMAIN m.head \subseteq Int
    BY SoundIs
  <2> QED  BY <1>1, <2>1, ListsAssumption
<1>3. e - p >= MinChunk
  BY <1>2
<1>4. SpanTaken(m, n, p, e)
  BY <1>1, <1>3, TakeSpan
<1>5. UsedIn(n.head) = UsedIn(m.head)
  BY <1>1, <1>4 DEF SpanTaken
<1>6. SizesKept(m.head, n.head, UsedIn(m.head) \ {p})
  <2>1. \A x \in UsedIn(m.head) \ {p} : x \notin p .. e-1
    BY <1>1
  <2> QED  BY <1>4, <2>1 DEF SpanTaken, SizesKept
<1>7. n.head[p].size = s /\ s \in Int /\ Grown(n) /\ KeepsTags(m, n)
  BY <1>2, <1>4 DEF SpanTaken
<1>8. Keeps(m, n, ChunkFields)
  BY <1>7 DEF KeepsTags, Keeps, ChunkFields
<1> QED  BY <1>5, <1>6, <1>7, <1>8 DEF Resized

(* The chunk at p takes nb granules of the span to e, and the rest is      *)
(* freed.                                                                  *)
LEMMA CutTailIs ==
  ASSUME NEW m, NEW F, Sound(m, F), NEW p, NEW e, Lone(m, p, e), NEW s, s = e - p,
         F = FreeIn(m.head, m.top) \ (p .. e-1),
         NEW nb \in Int, nb >= MinChunk, s - nb >= MinChunk, NEW n, n = CutTail(m, p, nb, s)
  PROVE  Resized(m, n, p, nb)
<1>1. /\ p \in UsedIn(m.head) /\ p \in DOMAIN m.head /\ e \in DOMAIN m.head /\ e <= m.top
      /\ UsedIn(m.head) \ (p .. e-1) = UsedIn(m.head) \ {p}
  BY DEF Lone
<1>2. p \in Int /\ e \in Int /\ MinChunk \in Int /\ MinChunk > 0
  <2>1. DOMAIN m.head \subseteq Int
    BY SoundIs
  <2> QED  BY <1>1, <2>1, ListsAssumption
<1>3. PICK q \in Int : q = p + nb /\ nb = q - p /\ s - nb = e - q /\ q - p >= MinChunk /\ e - q >= MinChunk
                       /\ p < q /\ q < e /\ q # p
  BY <1>2
<1>4. PICK k1 : k1 = SetInuse(m, p, q - p)
  OBVIOUS
<1>5. PICK k : k = SetInuse(k1, q, e - q)
  OBVIOUS
<1>6. SpanCut(m, k, p, q, e)
  BY <1>1, <1>3, <1>4, <1>5, CutSpan
<1>7. n = DisposeChunk(k, q, e - q)
  BY <1>3, <1>4, <1>5 DEF CutTail
<1>8. /\ Grown(k) /\ KeepsTags(m, k) /\ UsedIn(k.head) = (UsedIn(m.head) \ {p}) \cup {p, q}
      /\ k.head[p].size = nb /\ k.head[q].size = e - q
      /\ \A x \in UsedIn(m.head) : x \notin p .. e-1 => k.head[x].size = m.head[x].size
  BY <1>1, <1>3, <1>6 DEF SpanCut
<1>9. q \notin UsedIn(m.head)
  BY <1>1, <1>2, <1>3
<1>10. q \in UsedIn(k.head) /\ UsedIn(m.head) = UsedIn(k.head) \ {q}
  BY <1>1, <1>3, <1>8, <1>9
<1>11. Became(k, n, UsedIn(m.head), UsedIn(m.head))
  BY <1>7, <1>8, <1>10, DisposeChunkIs
<1>12. SizesKept(m.head, n.head, UsedIn(m.head) \ {p})
  <2>1. \A x \in UsedIn(m.head) \ {p} : x \notin p .. e-1
    BY <1>1
  <2> QED  BY <1>8, <1>11, <2>1 DEF Became, SizesKept
<1>13. n.head[p].size = nb
  BY <1>1, <1>8, <1>11 DEF Became, SizesKept
<1>14. Keeps(m, n, ChunkFields)
  BY <1>8, <1>11 DEF Became, KeepsTags, Keeps, ChunkFields
<1>15. nb < nb + MinChunk
  BY <1>2
<1> QED  BY <1>11, <1>12, <1>13, <1>14, <1>15 DEF Became, Resized

(* A chunk in use, up to the next one.                                     *)
LEMMA LoneChunk ==
  ASSUME NEW m, Grown(m), NEW p \in UsedIn(m.head), NEW e, e = End(m.head, p)
  PROVE  /\ Lone(m, p, e) /\ p \in Int /\ e \in Int /\ m.head[p].size = e - p /\ e - p >= MinChunk
         /\ FreeIn(m.head, m.top) = FreeIn(m.head, m.top) \ (p .. e-1)
<1>1. PICK h, f, t : h = m.head /\ f = m.foot /\ t = m.top
  OBVIOUS
<1>2. Segment(h, f, m.segbase, t, m.topsize)
  BY <1>1, GrownIs
<1>3. p \in DOMAIN h /\ h[p].cinuse
  BY <1>1 DEF UsedIn
<1>4. p \in Int /\ GoodChunk(h, f, p, t) /\ h[p].size \in Int /\ e \in DOMAIN h /\ e \in Int /\ e <= t
      /\ p < e
  BY <1>1, <1>2, <1>3, ChunkIs
<1>5. \A x \in DOMAIN h : x \in Int /\ (x <= p \/ x >= e)
  <2>1. \A x \in DOMAIN h : x <= p \/ x >= e
    BY <1>1, <1>4 DEF GoodChunk
  <2>2. DOMAIN h \subseteq Int
    BY <1>2, SegmentIs
  <2> QED  BY <2>1, <2>2
<1>6. \A x \in DOMAIN h : x # p => x \notin p .. e-1
  BY <1>4, <1>5
<1>7. \A x \in UsedIn(h) : x \in DOMAIN h
  BY DEF UsedIn
<1>8. UsedIn(h) \ (p .. e-1) = UsedIn(h) \ {p}
  BY <1>4, <1>6, <1>7
<1>9. \A x \in FreeIn(h, t) : x \in DOMAIN h /\ x # p
  BY <1>3 DEF FreeIn
<1>10. FreeIn(h, t) = FreeIn(h, t) \ (p .. e-1)
  BY <1>6, <1>9
<1>11. h[p].size = e - p /\ e - p >= MinChunk
  <2>1. h[p].size >= MinChunk
    BY <1>4 DEF GoodChunk
  <2>2. e = p + h[p].size
    BY <1>1 DEF End
  <2> QED  BY <1>4, <2>1, <2>2
<1> QED  BY <1>1, <1>3, <1>4, <1>8, <1>10, <1>11 DEF Lone

(* try_realloc_chunk on a chunk that is large enough                       *)
LEMMA ShrinkIs ==
  ASSUME NEW m, Grown(m), NEW p \in UsedIn(m.head), NEW s, s = m.head[p].size,
         NEW nb \in Int, nb >= MinChunk, s >= nb, NEW n, n = Shrink(m, p, s, nb)
  PROVE  Resized(m, n, p, nb)
<1>1. PICK e : e = End(m.head, p)
  OBVIOUS
<1>2. PICK F : F = FreeIn(m.head, m.top)
  OBVIOUS
<1>3. Lone(m, p, e) /\ s = e - p /\ e \in Int /\ p \in Int /\ F = FreeIn(m.head, m.top) \ (p .. e-1)
  BY <1>1, <1>2, LoneChunk
<1>4. Sound(m, F)
  BY <1>2 DEF Grown
<1>5. CASE s - nb >= MinChunk
  <2>1. n = CutTail(m, p, nb, s)
    BY <1>5 DEF Shrink
  <2> QED  BY <1>3, <1>4, <1>5, <2>1, CutTailIs
<1>6. CASE ~(s - nb >= MinChunk)
  <2>1. n = m
    BY <1>6 DEF Shrink
  <2>2. DOMAIN m = HeapFields
    BY GrownIs
  <2>3. Keeps(m, m, ChunkFields) /\ SizesKept(m.head, m.head, UsedIn(m.head) \ {p})
    BY <2>2 DEF Keeps, SizesKept
  <2>4. s \in Int /\ s < nb + MinChunk
    BY <1>3, <1>6, ListsAssumption
  <2> QED  BY <2>1, <2>3, <2>4 DEF Resized
<1> QED  BY <1>5, <1>6

(* ... on one that has the top chunk after it: it grows into it.           *)
LEMMA IntoTopIs ==
  ASSUME NEW m, Grown(m), NEW p \in UsedIn(m.head), NEW s, s = m.head[p].size, p + s = m.top,
         NEW nb \in Int, nb >= MinChunk, s < nb, NEW all, all = s + m.topsize, all > nb,
         NEW n, n = IntoTop(m, p, all, nb)
  PROVE  Resized(m, n, p, nb)
<1>1. Sound(m, FreeIn(m.head, m.top))
  BY DEF Grown
<1>2. /\ DOMAIN m = HeapFields /\ Segment(m.head, m.foot, m.segbase, m.top, m.topsize)
      /\ Listed(m, FreeIn(m.head, m.top), m.head) /\ DOMAIN m.bins = MinChunk .. HeapSize
      /\ m.top \in Int /\ m.topsize \in Int
  BY <1>1, SoundIs
<1>3. PICK h, f, t, q, z, e : /\ h = m.head /\ f = m.foot /\ t = m.top /\ q = p + nb
                              /\ z = all - nb /\ e = p + all
  OBVIOUS
<1>4. PICK k : k = SetInuse(m, p, nb)
  OBVIOUS
<1>5. PICK j : j = [k EXCEPT !.top = q, !.topsize = z]
  OBVIOUS
<1>6. n = PutHead(j, q, z, FALSE, TRUE)
  BY <1>3, <1>4, <1>5 DEF IntoTop
<1>7. /\ Segment(h, f, m.segbase, t, m.topsize) /\ Words(h) /\ DOMAIN h \subseteq Int /\ DOMAIN f \subseteq Int
  BY <1>2, <1>3, SegmentIs
<1>8. p \in DOMAIN h /\ p \in Int /\ h[p].cinuse /\ s \in Int /\ p < t
  <2>1. p \in DOMAIN h /\ h[p].cinuse
    BY <1>3 DEF UsedIn
  <2> QED  BY <1>3, <1>7, <2>1, ChunkIs
<1>9. /\ q \in Int /\ z \in Int /\ e \in Int /\ t \in Int /\ p < q /\ t < q /\ q < e /\ z > 0 /\ q + z = e
      /\ q - p = nb /\ nb > 0 /\ e = t + m.topsize
  <2>1. PICK y \in Int : y = m.topsize
    BY <1>2
  <2>2. all = s + y /\ t = p + s /\ q = p + nb /\ z = all - nb /\ e = p + all
    BY <1>3, <2>1
  <2>3. MinChunk \in Int /\ MinChunk > 0
    BY ListsAssumption
  <2>4. s \in Int /\ p \in Int
    BY <1>8
  <2>5. all \in Int
    BY <2>2, <2>4
  <2> QED  BY <2>1, <2>2, <2>3, <2>4, <2>5
<1>10. PICK h1, f1, h2, f2 : h1 = k.head /\ f1 = k.foot /\ h2 = n.head /\ f2 = n.foot
  OBVIOUS
<1>11. /\ KeepsTags(m, k) /\ Laid(h, f, h1, f1, p, nb, Tag(nb, TRUE, h[p].pinuse), Magic)
       /\ Told(h, h1, q, TRUE)
  <2>1. /\ KeepsTags(m, k) /\ Told(h, h1, p + nb, TRUE)
        /\ Laid(h, f, h1, f1, p, nb, Tag(nb, TRUE, p \in DOMAIN h /\ h[p].pinuse), Magic)
    BY <1>2, <1>3, <1>4, <1>7, <1>8, <1>9, <1>10, SetInuseIs
  <2>2. Tag(nb, TRUE, p \in DOMAIN h /\ h[p].pinuse) = Tag(nb, TRUE, h[p].pinuse)
    BY <1>7, <1>8, SetInuseTag
  <2> QED  BY <1>3, <2>1, <2>2
<1>12. DOMAIN k = HeapFields /\ Words(h1)
  BY <1>2, <1>3, <1>4, <1>7, <1>8, <1>9, <1>10, SetInuseWords
<1>13. /\ DOMAIN j = HeapFields /\ j.head = h1 /\ j.foot = f1 /\ j.top = q /\ j.topsize = z
       /\ Keeps(k, j, {"top", "topsize"})
  BY <1>5, <1>10, <1>12 DEF Keeps, HeapFields
<1>14. KeepsTags(j, n) /\ PutHeadTo(h1, f1, h2, f2, q, z, Tag(z, FALSE, TRUE))
  BY <1>6, <1>10, <1>13, PutHeadIs
<1>15. /\ e \in DOMAIN h /\ h[e] = Tag(TopFoot, FALSE, FALSE)
       /\ \A x \in DOMAIN h : x <= t \/ x = e
       /\ \A x \in DOMAIN f : x <= t
  BY <1>7, <1>9 DEF Segment
<1>16. TopMoved(h, f, h2, f2, p, q, z, e)
  <2>1. q \in DOMAIN h2 /\ h2[q] = Tag(z, FALSE, TRUE)
    BY <1>14 DEF PutHeadTo
  <2>2. p \in DOMAIN h1 /\ h1[p] = Tag(nb, TRUE, h[p].pinuse)
    <3>1. p # p + nb
      BY <1>8, <1>9
    <3> QED  BY <1>11, <3>1 DEF Laid
  <2>3. p \in DOMAIN h2 /\ h2[p] = h1[p]
    <3>1. p <= q /\ p # q
      BY <1>8, <1>9
    <3> QED  BY <1>14, <2>2, <3>1 DEF PutHeadTo
  <2>4. e \in DOMAIN h2 /\ h2[e] = Tag(TopFoot, FALSE, FALSE)
    <3>1. e \in DOMAIN h1 /\ h1[e] = h[e]
      <4>1. e # p /\ e # p + nb /\ e >= p + nb
        BY <1>3, <1>8, <1>9
      <4> QED  BY <1>11, <1>15, <4>1 DEF Laid
    <3>2. e # q /\ e >= q + z
      BY <1>9
    <3> QED  BY <1>14, <1>15, <3>1, <3>2 DEF PutHeadTo
  <2>5. \A x \in DOMAIN h : x < p => x \in DOMAIN h2 /\ h2[x] = h[x]
    <3> SUFFICES ASSUME NEW x \in DOMAIN h, x < p PROVE x \in DOMAIN h2 /\ h2[x] = h[x]
      OBVIOUS
    <3>1. x \in Int /\ x <= q /\ x # q /\ x # p /\ x # p + nb /\ x <= p
      BY <1>3, <1>7, <1>8, <1>9
    <3>2. x \in DOMAIN h1 /\ h1[x] = h[x]
      BY <1>11, <3>1 DEF Laid
    <3> QED  BY <1>14, <3>1, <3>2 DEF PutHeadTo
  <2>6. \A x \in DOMAIN h2 : (x \in DOMAIN h /\ x < p) \/ x = p \/ x = q \/ x = e
    <3> TAKE x \in DOMAIN h2
    <3>1. x = q \/ x \in DOMAIN h1
      BY <1>14 DEF PutHeadTo
    <3>2. x = q \/ x = p \/ (x \in DOMAIN h /\ (x <= p \/ x >= q))
      BY <1>3, <1>11, <3>1 DEF Laid
    <3> QED  BY <1>7, <1>8, <1>9, <1>15, <3>2
  <2>7. Words(h2)
    <3>1. \A x \in DOMAIN h2 : x = q \/ (x \in DOMAIN h1 /\ h2[x] = h1[x])
      BY <1>14 DEF PutHeadTo
    <3>2. Tag(z, FALSE, TRUE) \in [size : Int, cinuse : BOOLEAN, pinuse : BOOLEAN]
      BY <1>9, TagInWords
    <3> QED  BY <1>9, <1>12, <2>1, <3>1, <3>2 DEF Words
  <2>8. h2[p].pinuse = h[p].pinuse /\ h2[p].size = q - p /\ h2[p].cinuse
    BY <1>9, <2>2, <2>3 DEF Tag
  <2>9. q \in DOMAIN f2 /\ f2[q] = Magic
    <3>1. q \in DOMAIN f1 /\ f1[q] = Magic
      BY <1>3, <1>11 DEF Laid
    <3>2. q <= q
      BY <1>9
    <3> QED  BY <1>14, <3>1, <3>2 DEF PutHeadTo
  <2>10. \A x \in DOMAIN f : x <= p => x \in DOMAIN f2 /\ f2[x] = f[x]
    <3> SUFFICES ASSUME NEW x \in DOMAIN f, x <= p PROVE x \in DOMAIN f2 /\ f2[x] = f[x]
      OBVIOUS
    <3>1. x \in Int /\ x <= q /\ x # p + nb
      BY <1>3, <1>7, <1>8, <1>9
    <3>2. x \in DOMAIN f1 /\ f1[x] = f[x]
      BY <1>11, <3>1 DEF Laid
    <3> QED  BY <1>14, <3>1, <3>2 DEF PutHeadTo
  <2>11. \A x \in DOMAIN f2 : (x \in DOMAIN f /\ x <= p /\ f2[x] = f[x]) \/ (x = q /\ f2[x] = Magic)
    <3> TAKE x \in DOMAIN f2
    <3>1. x \in DOMAIN f1 /\ f2[x] = f1[x]
      BY <1>14 DEF PutHeadTo
    <3>2. x = q \/ (x \in DOMAIN f /\ (x <= p \/ x >= q) /\ f1[x] = f[x])
      BY <1>3, <1>11, <3>1 DEF Laid
    <3>3. x \in DOMAIN f => x \in Int /\ x <= t
      BY <1>7, <1>15
    <3>4. x = q \/ (x \in DOMAIN f /\ x <= p /\ f1[x] = f[x])
      BY <1>9, <3>2, <3>3
    <3> QED  BY <2>9, <3>1, <3>4
  <2> QED  BY <1>9, <2>1, <2>3, <2>4, <2>5, <2>6, <2>7, <2>8, <2>9, <2>10, <2>11 DEF TopMoved
<1>17. Segment(h2, f2, m.segbase, q, z) /\ BeforeTop(h, h2, t, p, q)
  <2>1. /\ p <= t /\ q - p >= MinChunk
        /\ q + z = t + m.topsize /\ TopMoved(h, f, h2, f2, p, q, z, t + m.topsize)
    BY <1>8, <1>9, <1>16
  <2> QED  BY <1>7, <1>8, <1>9, <2>1, SegmentTopMoved
<1>18. /\ Keeps(m, n, ChunkFields) /\ n.top = q /\ n.topsize = z
       /\ n.bins = m.bins /\ n.dv = m.dv /\ n.dvsize = m.dvsize
  BY <1>11, <1>13, <1>14 DEF KeepsTags, Keeps, HeapFields, ChunkFields
<1>19. PICK F : F = FreeIn(h, t)
  OBVIOUS
<1>20. \A x \in DOMAIN h : x <= p \/ x >= t
  <2>1. GoodChunk(h, f, p, t)
    BY <1>7, <1>8, ChunkIs
  <2>2. End(h, p) = t
    BY <1>3 DEF End
  <2> QED  BY <2>1, <2>2 DEF GoodChunk
<1>21. \A x \in F : x < p /\ x \in DOMAIN h
  <2> TAKE x \in F
  <2>1. x \in DOMAIN h /\ x < t /\ x # p
    BY <1>8, <1>19 DEF FreeIn
  <2> QED  BY <1>7, <1>8, <1>9, <1>20, <2>1
<1>22. FreeIn(h2, q) = F
  BY <1>17, <1>19, <1>21 DEF BeforeTop
<1>23. \A x \in UsedIn(h) : x \in DOMAIN h /\ (x < p \/ x = p)
  <2> TAKE x \in UsedIn(h)
  <2>1. x \in DOMAIN h /\ x < t
    BY <1>7, ChunkIs DEF UsedIn
  <2> QED  BY <1>7, <1>8, <1>9, <1>20, <2>1
<1>24. UsedIn(h2) = UsedIn(h)
  <2>1. p \in UsedIn(h)
    BY <1>3
  <2> QED  BY <1>8, <1>9, <1>17, <1>23, <2>1 DEF BeforeTop
<1>25. Listed(n, F, h2)
  <2>1. \A x \in F : h2[x].size = h[x].size
    BY <1>17, <1>21 DEF BeforeTop
  <2>2. Listed(m, F, h)
    BY <1>2, <1>3, <1>19
  <2> QED  BY <1>18, <2>1, <2>2, ListedFrame
<1>26. Sound(n, F)
  <2>1. n.top # NULL
    <3>1. HeapStart <= m.segbase /\ m.segbase \in Int /\ m.segbase <= t
      BY <1>7, SegmentIs
    <3> QED  BY <1>9, <1>18, <3>1, HeapAssumption DEF NULL
  <2>2. /\ n.top + n.topsize = m.top + m.topsize /\ DOMAIN n.bins = DOMAIN m.bins
        /\ Segment(n.head, n.foot, m.segbase, n.top, n.topsize) /\ Listed(n, F, n.head)
    BY <1>3, <1>9, <1>10, <1>17, <1>18, <1>25
  <2> QED  BY <1>1, <1>18, <2>1, <2>2, SoundAgain
<1>27. Grown(n)
  BY <1>10, <1>18, <1>22, <1>26 DEF Grown
<1>28. h2[p].size = nb /\ \A x \in UsedIn(h) \ {p} : h2[x].size = h[x].size
  <2>1. h2[p].size = nb
    BY <1>9, <1>16 DEF TopMoved
  <2>2. \A x \in UsedIn(h) \ {p} : x \in DOMAIN h /\ x < p
    BY <1>23
  <2> QED  BY <1>17, <2>1, <2>2 DEF BeforeTop
<1>29. nb <= nb /\ nb < nb + MinChunk
  BY ListsAssumption
<1> QED  BY <1>3, <1>10, <1>18, <1>24, <1>27, <1>28, <1>29 DEF Resized, SizesKept

(* A chunk in use that has a free chunk after it, at x and up to e.        *)
NextFree(m, p, x, e) ==
  /\ Lone(m, p, e) /\ p \in Int /\ x \in Int /\ e \in Int /\ p < x /\ x < e /\ e <= m.top /\ e - p >= MinChunk
  /\ e \in UsedIn(m.head) /\ e \in DOMAIN m.head /\ ~UsedBefore(m.head, e)
  /\ x \in FreeIn(m.head, m.top)
  /\ FreeIn(m.head, m.top) \ (p .. e-1) = FreeIn(m.head, m.top) \ {x}
  /\ e - p = m.head[p].size + m.head[x].size

(* What try_realloc_chunk finds when the chunk after the block is free.    *)
LEMMA NextFreeIs ==
  ASSUME NEW m, Grown(m), NEW p \in UsedIn(m.head), NEW x, x = End(m.head, p),
         x \in FreeIn(m.head, m.top), NEW e, e = End(m.head, x)
  PROVE  NextFree(m, p, x, e)
<1>1. PICK h, f, t, F : h = m.head /\ f = m.foot /\ t = m.top /\ F = FreeIn(h, t)
  OBVIOUS
<1>2. Segment(h, f, m.segbase, t, m.topsize)
  BY <1>1, GrownIs
<1>3. Alone(h, t, x, e)
  BY <1>1, <1>2, AloneIs
<1>4. /\ x \in Int /\ e \in Int /\ x < e /\ e <= t /\ e \in UsedIn(h) /\ e \in DOMAIN h /\ ~UsedBefore(h, e)
      /\ UsedIn(h) \ (x .. e-1) = UsedIn(h) /\ F \ (x .. e-1) = F \ {x} /\ h[x].size = e - x
  <2>1. /\ x \in Int /\ e \in Int /\ e - x >= MinChunk /\ e <= t /\ e \in UsedIn(h) /\ e \in DOMAIN h
        /\ ~UsedBefore(h, e)
        /\ UsedIn(h) \ (x .. e-1) = UsedIn(h) /\ F \ (x .. e-1) = F \ {x} /\ h[x].size = e - x
    BY <1>1, <1>3 DEF Alone
  <2>2. MinChunk \in Int /\ MinChunk > 0
    BY ListsAssumption
  <2>3. x < e
    BY <2>1, <2>2
  <2> QED  BY <2>1, <2>3
<1>5. /\ Lone(m, p, x) /\ p \in Int /\ h[p].size = x - p /\ x - p >= MinChunk /\ F = F \ (p .. x-1)
  BY <1>1, LoneChunk
<1>6. p \in UsedIn(h) /\ p \in DOMAIN h /\ UsedIn(h) \ (p .. x-1) = UsedIn(h) \ {p}
  BY <1>1, <1>5 DEF Lone
<1>7. MinChunk \in Int /\ MinChunk > 0
  BY ListsAssumption
<1>8. p < x
  BY <1>4, <1>5, <1>7
<1>9. p .. e-1 = (p .. x-1) \cup (x .. e-1)
  BY <1>4, <1>5, <1>8
<1>10. UsedIn(h) \ (p .. e-1) = UsedIn(h) \ {p}
  BY <1>4, <1>6, <1>9
<1>11. F \ (p .. e-1) = F \ {x}
  BY <1>4, <1>5, <1>9
<1>12. e - p = h[p].size + h[x].size /\ e - p >= MinChunk
  BY <1>4, <1>5, <1>7
<1>13. Lone(m, p, e)
  BY <1>1, <1>4, <1>6, <1>10 DEF Lone
<1> QED  BY <1>1, <1>4, <1>5, <1>8, <1>11, <1>12, <1>13 DEF NextFree

(* What was done to k, which differs from m in its lists, was done to m.   *)
LEMMA ResizedAfter ==
  ASSUME NEW m, NEW k, Keeps(m, k, {"bins", "dv", "dvsize"}), NEW n, NEW p, NEW nb, Resized(k, n, p, nb)
  PROVE  Resized(m, n, p, nb)
<1>1. k.head = m.head
  BY DEF Keeps, HeapFields
<1>2. Keeps(m, n, ChunkFields)
  BY DEF Resized, Keeps, ChunkFields
<1> QED  BY <1>1, <1>2 DEF Resized

(* ... on one that has a binned chunk after it: it takes it, or part of it.*)
LEMMA IntoBinnedIs ==
  ASSUME NEW m, Grown(m), NEW p \in UsedIn(m.head), NEW x, x = End(m.head, p),
         x \in FreeIn(m.head, m.top), x # m.dv, NEW z, z = m.head[x].size,
         NEW all, all = m.head[p].size + z, NEW nb \in Int, nb >= MinChunk, nb <= all,
         NEW k, k = UnlinkChunk(m, x, z), NEW n, n = IntoBinned(k, p, all, nb)
  PROVE  Resized(m, n, p, nb)
<1>1. PICK h, F, e : h = m.head /\ F = FreeIn(h, m.top) /\ e = End(h, x)
  OBVIOUS
<1>2. NextFree(m, p, x, e)
  BY <1>1, NextFreeIs
<1>3. /\ Lone(m, p, e) /\ F \ (p .. e-1) = F \ {x} /\ all = e - p /\ all \in Int /\ x \in F
  BY <1>1, <1>2 DEF NextFree
<1>4. DOMAIN m = HeapFields /\ Listed(m, F, h) /\ Sound(m, F)
  BY <1>1, GrownIs DEF Grown
<1>5. Keeps(m, k, {"bins"}) /\ DOMAIN k.bins = DOMAIN m.bins /\ Listed(k, F \ {x}, h)
  <2>1. h[x].size = z /\ x \in F /\ x # m.dv /\ Listed(m, F, h) /\ DOMAIN m = HeapFields
    BY <1>1, <1>3, <1>4
  <2>2. k = UnlinkChunk(m, x, z)
    OBVIOUS
  <2> QED  BY <2>1, <2>2, UnlinkListed, SMTT(30)
<1>6. /\ DOMAIN k = HeapFields /\ k.head = m.head /\ k.foot = m.foot /\ k.dv = m.dv
      /\ k.top = m.top /\ k.topsize = m.topsize /\ k.segbase = m.segbase
      /\ Keeps(m, k, ChunkFields) /\ Keeps(m, k, {"bins", "dv", "dvsize"})
  BY <1>5 DEF Keeps, HeapFields, ChunkFields
<1>7. Sound(k, F \ {x})
  <2>1. /\ k.top + k.topsize = m.top + m.topsize /\ Segment(k.head, k.foot, m.segbase, k.top, k.topsize)
        /\ Listed(k, F \ {x}, k.head) /\ k.top # NULL
    BY <1>1, <1>4, <1>5, <1>6, GrownIs
  <2> QED  BY <1>4, <1>5, <1>6, <2>1, SoundAgain
<1>8. Lone(k, p, e)
  BY <1>3, <1>6 DEF Lone
<1>9. F \ {x} = FreeIn(k.head, k.top) \ (p .. e-1)
  BY <1>1, <1>3, <1>6
<1>10. MinChunk \in Int
  BY ListsAssumption
<1>11. Resized(k, n, p, nb)
  <2>1. CASE all - nb < MinChunk
    <3>1. n = SetInuse(k, p, all)
      BY <2>1 DEF IntoBinned
    <3>2. all < nb + MinChunk
      BY <1>3, <1>10, <2>1
    <3> QED  BY <1>3, <1>7, <1>8, <1>9, <3>1, <3>2, LoneTaken
  <2>2. CASE ~(all - nb < MinChunk)
    <3>1. n = CutTail(k, p, nb, all)
      BY <2>2 DEF IntoBinned
    <3>2. all - nb >= MinChunk
      BY <1>3, <1>10, <2>2
    <3> QED  BY <1>3, <1>7, <1>8, <1>9, <3>1, <3>2, CutTailIs
  <2> QED  BY <2>1, <2>2
<1> QED  BY <1>6, <1>11, ResizedAfter

(* A chunk that a span in use was cut off from is free: p is in use up to  *)
(* q, and q is free up to e.                                               *)
LEMMA SegmentCutFree ==
  ASSUME NEW h, NEW f, NEW a, NEW t, NEW n, Segment(h, f, a, t, n), NEW h2, NEW f2,
         NEW p \in DOMAIN h, NEW q \in Int, NEW r \in UsedIn(h),
         q - p >= MinChunk, r - q >= MinChunk, r <= t, Cut(h, f, h2, f2, p, q, r, TRUE, FALSE)
  PROVE  Segment(h2, f2, a, t, n) /\ TwoChunks(h, h2, t, p, q, r, FALSE)
<1>1. FALSE \in BOOLEAN /\ r \in DOMAIN h /\ h[r].cinuse
  BY DEF UsedIn
<1> QED  BY <1>1, SegmentCut

(* Clearing the bit that tells of the chunk before.                        *)
LEMMA ClearPinuse ==
  ASSUME NEW m, DOMAIN m = HeapFields, Words(m.head), NEW p, NEW n, n = PutPinuse(m, p, FALSE)
  PROVE  KeepsTags(m, n) /\ n.foot = m.foot /\ PutPinuseTo(m.head, n.head, p, FALSE)
BY PutPinuseIs

(* A chunk of size s at p ends at q.                                       *)
Meets(p, s, q) == q = p + s

(* The tags of the two chunks, as IntoDv writes them.                      *)
LEMMA DvCut ==
  ASSUME NEW m, DOMAIN m = HeapFields, Segment(m.head, m.foot, m.segbase, m.top, m.topsize),
         NEW p \in DOMAIN m.head, NEW q \in Int, NEW e \in DOMAIN m.head, ~UsedBefore(m.head, e),
         NEW s \in Int, s > 0, NEW z \in Int, z > 0, Meets(p, s, q), Meets(q, z, e),
         NEW k, k = SetInuse(m, p, s), NEW j, Keeps(k, j, {"dv", "dvsize"}),
         NEW l, l = SetSizeAndPinuseOfFreeChunk(j, q, z), NEW n, n = PutPinuse(l, e, FALSE)
  PROVE  Keeps(j, n, {"head", "foot"}) /\ Cut(m.head, m.foot, n.head, n.foot, p, q, e, TRUE, FALSE)
<1>1. PICK h, f, h1, f1, h2, f2, h3, f3 :
        /\ h = m.head /\ f = m.foot /\ h1 = k.head /\ f1 = k.foot /\ h2 = l.head /\ f2 = l.foot
        /\ h3 = n.head /\ f3 = n.foot
  OBVIOUS
<1>2. Words(h) /\ DOMAIN f \subseteq Int /\ DOMAIN h \subseteq Int
  BY <1>1, SegmentIs
<1>3. p \in Int /\ e \in Int /\ p \in DOMAIN h /\ e \in DOMAIN h /\ p < q /\ q < e
      /\ q = p + s /\ e = q + z
  <2>1. p \in Int /\ e \in Int /\ p \in DOMAIN h /\ e \in DOMAIN h
    BY <1>1, <1>2
  <2>2. q = p + s /\ e = q + z
    BY DEF Meets
  <2> QED  BY <2>1, <2>2
<1>4. /\ KeepsTags(m, k) /\ Laid(h, f, h1, f1, p, s, Tag(s, TRUE, h[p].pinuse), Magic)
      /\ Told(h, h1, q, TRUE)
  <2>1. /\ KeepsTags(m, k) /\ Told(h, h1, p + s, TRUE)
        /\ Laid(h, f, h1, f1, p, s, Tag(s, TRUE, p \in DOMAIN h /\ h[p].pinuse), Magic)
    BY <1>1, <1>2, <1>3, SetInuseIs
  <2>2. Tag(s, TRUE, p \in DOMAIN h /\ h[p].pinuse) = Tag(s, TRUE, h[p].pinuse)
    BY <1>2, <1>3, SetInuseTag
  <2> QED  BY <1>3, <2>1, <2>2
<1>5. DOMAIN k = HeapFields /\ Words(h1)
  BY <1>1, <1>2, <1>3, SetInuseWords
<1>6. j.head = h1 /\ j.foot = f1 /\ DOMAIN j = HeapFields
  BY <1>1, <1>5 DEF Keeps, HeapFields
<1>7. KeepsTags(j, l) /\ Laid(h1, f1, h2, f2, q, z, Tag(z, FALSE, TRUE), z) /\ Untold(h1, h2, e)
  <2>1. KeepsTags(j, l) /\ Laid(h1, f1, h2, f2, q, z, Tag(z, FALSE, TRUE), z) /\ Untold(h1, h2, q + z)
    BY <1>1, <1>5, <1>6, SetSizeAndPinuseOfFreeChunkIs
  <2> QED  BY <1>3, <2>1
<1>8. e \in DOMAIN h1 /\ h1[e] = h[e]
  <2>1. e # p /\ e # p + s /\ e >= p + s /\ e \in DOMAIN h
    BY <1>3
  <2> QED  BY <1>4, <2>1 DEF Laid
<1>9. ~UsedBefore(h1, e)
  BY <1>1, <1>8 DEF UsedBefore
<1>10. e \in DOMAIN h2 /\ h2[e] = Tag(h[e].size, h[e].cinuse, FALSE)
  <2>1. e \in DOMAIN h2 /\ h2[e] = Tag(h1[e].size, h1[e].cinuse, FALSE)
    BY <1>5, <1>7, <1>8, <1>9, UntoldFree
  <2> QED  BY <1>8, <2>1
<1>11. Cut(h, f, h2, f2, p, q, e, TRUE, FALSE)
  <2>1. Footer(TRUE, s) = Magic /\ Footer(FALSE, z) = z
    BY DEF Footer
  <2>2. /\ Laid(h, f, h1, f1, p, s, Tag(s, TRUE, h[p].pinuse), Footer(TRUE, s))
        /\ Laid(h1, f1, h2, f2, q, z, Tag(z, FALSE, TRUE), Footer(FALSE, z))
    BY <1>4, <1>7, <2>1
  <2> QED  BY <1>2, <1>3, <1>10, <2>2, LaidCut
<1>12. Words(h2) /\ DOMAIN l = HeapFields
  <2>1. DOMAIN l = HeapFields
    BY <1>7 DEF KeepsTags, Keeps
  <2>2. Tag(z, FALSE, TRUE) \in [size : Int, cinuse : BOOLEAN, pinuse : BOOLEAN]
    BY TagInWords
  <2>3. \A x \in DOMAIN h2 : x = q \/ (x \in DOMAIN h1 /\ h2[x] = h1[x])
    <3> TAKE x \in DOMAIN h2
    <3>1. CASE x = e
      BY <1>7, <3>1 DEF Untold
    <3>2. CASE x # e
      BY <1>3, <1>7, <3>2 DEF Laid
    <3> QED  BY <3>1, <3>2
  <2>4. h2[q] = Tag(z, FALSE, TRUE)
    BY <1>7 DEF Laid
  <2> QED  BY <1>5, <2>1, <2>2, <2>3, <2>4 DEF Words
<1>13. KeepsTags(l, n) /\ f3 = f2 /\ PutPinuseTo(h2, h3, e, FALSE)
  <2>1. DOMAIN l = HeapFields /\ Words(l.head) /\ n = PutPinuse(l, e, FALSE)
    BY <1>1, <1>12
  <2>2. KeepsTags(l, n) /\ n.foot = l.foot /\ PutPinuseTo(l.head, n.head, e, FALSE)
    BY <2>1, ClearPinuse
  <2> QED  BY <1>1, <2>2
<1>14. DOMAIN h3 = DOMAIN h2 /\ \A x \in DOMAIN h2 : h3[x] = h2[x]
  <2>1. DOMAIN h3 = DOMAIN h2
    BY <1>10, <1>13 DEF PutPinuseTo
  <2>2. h3[e] = Tag(h2[e].size, h2[e].cinuse, FALSE)
    BY <1>10, <1>13 DEF PutPinuseTo
  <2>3. h2[e].size = h[e].size /\ h2[e].cinuse = h[e].cinuse
    BY <1>10 DEF Tag
  <2>4. h3[e] = h2[e]
    BY <1>10, <2>2, <2>3, Zenon
  <2>5. \A x \in DOMAIN h2 : x # e => h3[x] = h2[x]
    BY <1>13 DEF PutPinuseTo
  <2> QED  BY <2>1, <2>4, <2>5
<1>15. Cut(h, f, h3, f3, p, q, e, TRUE, FALSE)
  <2>1. p \in DOMAIN h2 /\ q \in DOMAIN h2 /\ e \in DOMAIN h2
    BY <1>11 DEF Cut
  <2>2. h3[p] = h2[p] /\ h3[q] = h2[q] /\ h3[e] = h2[e]
    BY <1>14, <2>1
  <2> QED  BY <1>11, <1>13, <1>14, <2>2, Zenon DEF Cut
<1>16. Keeps(j, n, {"head", "foot"})
  BY <1>7, <1>13 DEF KeepsTags, Keeps
<1> QED  BY <1>1, <1>15, <1>16

(* ... on one that has the designated victim after it: it takes it, or     *)
(* part of it.                                                             *)
LEMMA IntoDvIs ==
  ASSUME NEW m, Grown(m), NEW p \in UsedIn(m.head), NEW x, x = End(m.head, p),
         x \in FreeIn(m.head, m.top), x = m.dv, NEW all, all = m.head[p].size + m.head[x].size,
         NEW nb \in Int, nb >= MinChunk, nb <= all, NEW n, n = IntoDv(m, p, all, nb)
  PROVE  Resized(m, n, p, nb)
<1>1. PICK h, f, t, F, e : h = m.head /\ f = m.foot /\ t = m.top /\ F = FreeIn(h, t) /\ e = End(h, x)
  OBVIOUS
<1>2. NextFree(m, p, x, e)
  BY <1>1, NextFreeIs
<1>3. /\ Lone(m, p, e) /\ F \ (p .. e-1) = F \ {x} /\ all = e - p /\ all \in Int /\ x \in F
      /\ p \in Int /\ e \in Int /\ e <= t /\ e \in UsedIn(h) /\ e \in DOMAIN h /\ ~UsedBefore(h, e)
  BY <1>1, <1>2 DEF NextFree
<1>4. /\ DOMAIN m = HeapFields /\ Listed(m, F, h) /\ Sound(m, F)
      /\ Segment(h, f, m.segbase, t, m.topsize) /\ m.top # NULL
  BY <1>1, GrownIs DEF Grown
<1>5. /\ Binned(m.bins, F \ {x}, h) /\ NULL \notin F
      /\ p \in DOMAIN h /\ UsedIn(h) \ (p .. e-1) = UsedIn(h) \ {p} /\ p \in UsedIn(h)
  <2>1. Binned(m.bins, F \ {x}, h)
    BY <1>4 DEF Listed
  <2>2. NULL \notin F
    BY <1>1, <1>4, FreeSizes
  <2> QED  BY <1>1, <1>3, <2>1, <2>2 DEF Lone
<1>6. MinChunk \in Int /\ MinChunk > 0
  BY ListsAssumption
<1>7. CASE ~(all - nb >= MinChunk)
  <2>1. PICK k : k = [m EXCEPT !.dv = NULL, !.dvsize = 0]
    OBVIOUS
  <2>2. n = SetInuse(k, p, all)
    BY <1>7, <2>1 DEF IntoDv
  <2>3. /\ k.head = m.head /\ k.foot = m.foot /\ k.dv = NULL /\ k.dvsize = 0
        /\ k.top = m.top /\ k.topsize = m.topsize /\ k.segbase = m.segbase /\ k.bins = m.bins
        /\ Keeps(m, k, ChunkFields) /\ Keeps(m, k, {"bins", "dv", "dvsize"})
    BY <1>4, <2>1 DEF Keeps, HeapFields, ChunkFields
  <2>4. Listed(k, F \ {x}, h)
    <3>1. (F \ {x}) \ {k.dv} = F \ {x}
      BY <1>5, <2>3
    <3> QED  BY <1>5, <2>3, <3>1 DEF Listed
  <2>5. Sound(k, F \ {x})
    <3>1. /\ k.top + k.topsize = m.top + m.topsize /\ Segment(k.head, k.foot, m.segbase, k.top, k.topsize)
          /\ Listed(k, F \ {x}, k.head) /\ k.top # NULL /\ DOMAIN k.bins = DOMAIN m.bins
      BY <1>1, <1>4, <2>3, <2>4
    <3> QED  BY <1>4, <2>3, <3>1, SoundAgain
  <2>6. Lone(k, p, e) /\ F \ {x} = FreeIn(k.head, k.top) \ (p .. e-1)
    BY <1>1, <1>3, <2>3 DEF Lone
  <2>7. all < nb + MinChunk
    BY <1>3, <1>6, <1>7
  <2>8. Resized(k, n, p, nb)
    BY <1>3, <2>2, <2>5, <2>6, <2>7, LoneTaken
  <2> QED  BY <2>3, <2>8, ResizedAfter
<1>8. CASE all - nb >= MinChunk
  <2>1. PICK q, z : q = p + nb /\ z = all - nb
    OBVIOUS
  <2>2. PICK k : k = SetInuse(m, p, nb)
    OBVIOUS
  <2>3. PICK j : j = [k EXCEPT !.dv = q, !.dvsize = z]
    OBVIOUS
  <2>4. PICK l : l = SetSizeAndPinuseOfFreeChunk(j, q, z)
    OBVIOUS
  <2>5. n = PutPinuse(l, e, FALSE)
    <3>1. p + all = e
      BY <1>3
    <3> QED  BY <1>8, <2>1, <2>2, <2>3, <2>4, <3>1 DEF IntoDv
  <2>6. /\ q \in Int /\ z \in Int /\ nb > 0 /\ z > 0 /\ q = p + nb /\ e = q + z
        /\ q - p >= MinChunk /\ e - q >= MinChunk /\ z # 0 /\ z = e - q /\ nb = q - p
    BY <1>3, <1>6, <1>8, <2>1
  <2>7. Meets(p, nb, q) /\ Meets(q, z, e)
    BY <2>6 DEF Meets
  <2>8. KeepsTags(m, k) /\ DOMAIN k = HeapFields
    <3>1. Words(m.head)
      BY GrownIs
    <3>2. KeepsTags(m, k)
      BY <1>3, <1>4, <2>2, <2>6, <3>1, SetInuseIs
    <3> QED  BY <3>2 DEF KeepsTags, Keeps
  <2>9. Keeps(k, j, {"dv", "dvsize"}) /\ j.dv = q /\ j.dvsize = z
    BY <2>3, <2>8 DEF Keeps, HeapFields
  <2>10. Keeps(j, n, {"head", "foot"}) /\ Cut(h, f, n.head, n.foot, p, q, e, TRUE, FALSE)
    <3>1. Segment(m.head, m.foot, m.segbase, m.top, m.topsize) /\ p \in DOMAIN m.head /\ e \in DOMAIN m.head
          /\ ~UsedBefore(m.head, e)
      BY <1>1, <1>3, <1>4, <1>5
    <3>2. nb > 0 /\ z > 0 /\ q \in Int /\ z \in Int
      BY <2>6
    <3>3. Keeps(j, n, {"head", "foot"}) /\ Cut(m.head, m.foot, n.head, n.foot, p, q, e, TRUE, FALSE)
      BY <1>4, <2>2, <2>4, <2>5, <2>7, <2>9, <3>1, <3>2, DvCut
    <3> QED  BY <1>1, <3>3
  <2>11. /\ Keeps(m, n, ChunkFields) /\ n.top = m.top /\ n.topsize = m.topsize
         /\ n.bins = m.bins /\ n.dv = q /\ n.dvsize = z
    BY <2>8, <2>9, <2>10 DEF KeepsTags, Keeps, HeapFields, ChunkFields
  <2>12. PICK h2, f2 : h2 = n.head /\ f2 = n.foot
    OBVIOUS
  <2>13. Segment(h2, f2, m.segbase, t, m.topsize) /\ TwoChunks(h, h2, t, p, q, e, FALSE)
    <3>1. Cut(h, f, h2, f2, p, q, e, TRUE, FALSE)
      BY <2>10, <2>12
    <3>2. p \in DOMAIN h /\ q \in Int /\ e \in UsedIn(h) /\ q - p >= MinChunk /\ e - q >= MinChunk /\ e <= t
      BY <1>3, <1>5, <2>6
    <3> QED  BY <1>4, <3>1, <3>2, SegmentCutFree
  <2>14. PICK G : G = (F \ {x}) \cup {q}
    OBVIOUS
  <2>15. /\ UsedIn(h2) = UsedIn(h) /\ FreeIn(h2, t) = G /\ h2[p].size = nb /\ h2[q].size = z
         /\ \A y \in DOMAIN h : y \notin p .. e-1 => h2[y].size = h[y].size
    <3>1. /\ UsedIn(h2) = (UsedIn(h) \ (p .. e-1)) \cup {p} \cup {}
          /\ FreeIn(h2, t) = (FreeIn(h, t) \ (p .. e-1)) \cup {q}
          /\ h2[p].size = q - p /\ h2[q].size = e - q
          /\ \A y \in DOMAIN h : y \notin p .. e-1 => h2[y].size = h[y].size
      BY <2>13, Zenon DEF TwoChunks
    <3>2. UsedIn(h2) = UsedIn(h)
      BY <1>5, <3>1
    <3>3. FreeIn(h2, t) = G
      BY <1>1, <1>3, <2>14, <3>1, Zenon
    <3>4. h2[p].size = nb /\ h2[q].size = z
      BY <2>6, <3>1
    <3> QED  BY <3>1, <3>2, <3>3, <3>4
  <2>16. q \in G /\ q # NULL
    <3>1. q \in FreeIn(h2, t)
      BY <2>14, <2>15
    <3> QED  BY <2>13, <2>15, <3>1, FreeSizes
  <2>17. Listed(n, G, h2)
    <3>1. PICK B : B = G \ {n.dv}
      OBVIOUS
    <3>2. B \subseteq F \ {x}
      BY <2>11, <2>14, <3>1
    <3>3. \A y \in F \ {x} : y \in DOMAIN h /\ y \notin p .. e-1
      BY <1>1, <1>3 DEF FreeIn
    <3>4. q \notin F \ {x}
      <4>1. q \in p .. e-1
        BY <1>3, <1>6, <2>6
      <4> QED  BY <3>3, <4>1
    <3>5. B = F \ {x}
      BY <2>11, <2>14, <3>1, <3>4
    <3>6. Binned(n.bins, G \ {n.dv}, h)
      BY <1>5, <2>11, <3>1, <3>5
    <3>7. \A y \in G \ {n.dv} : h2[y].size = h[y].size
      BY <2>15, <3>1, <3>3, <3>5
    <3>8. n.dv # NULL /\ n.dv \in G /\ h2[n.dv].size = n.dvsize /\ n.dvsize # 0
      BY <2>6, <2>11, <2>15, <2>16
    <3> QED  BY <3>6, <3>7, <3>8, DvListed
  <2>18. Sound(n, G)
    <3>1. /\ n.top + n.topsize = m.top + m.topsize /\ Segment(n.head, n.foot, m.segbase, n.top, n.topsize)
          /\ Listed(n, G, n.head) /\ n.top # NULL /\ DOMAIN n.bins = DOMAIN m.bins
      BY <1>1, <1>4, <2>11, <2>12, <2>13, <2>17
    <3> QED  BY <1>4, <2>11, <3>1, SoundAgain
  <2>19. Grown(n)
    BY <1>1, <2>11, <2>12, <2>15, <2>18 DEF Grown
  <2>20. SizesKept(h, h2, UsedIn(h) \ {p})
    <3>1. \A y \in UsedIn(h) \ {p} : y \in DOMAIN h /\ y \notin p .. e-1
      BY <1>5 DEF UsedIn
    <3> QED  BY <2>15, <3>1 DEF SizesKept
  <2>21. nb <= nb /\ nb < nb + MinChunk
    BY <1>6
  <2> QED  BY <1>1, <2>11, <2>12, <2>15, <2>19, <2>20, <2>21 DEF Resized
<1> QED  BY <1>7, <1>8

(* What an attempt at resizing comes back with: the chunk at p, resized, or*)
(* nothing.                                                                *)
Tried(m, got, p, nb) ==
  \/ got.mem = NULL /\ got.heap = m
  \/ got.mem = p /\ Resized(m, got.heap, p, nb)

(* try_realloc_chunk()                                                     *)
LEMMA ResizeChunkIs ==
  ASSUME NEW m, Grown(m), NEW p \in UsedIn(m.head), NEW nb \in Int, nb >= MinChunk,
         NEW got, got = ResizeChunk(m, p, nb)
  PROVE  Tried(m, got, p, nb)
<1>1. PICK s, x, z : s = ChunkSize(m, p) /\ x = p + s /\ z = ChunkSize(m, x)
  OBVIOUS
<1>2. s = m.head[p].size /\ z = m.head[x].size /\ x = End(m.head, p)
  BY <1>1 DEF ChunkSize, End
<1>3. CASE s >= nb
  <2>1. PICK n : n = Shrink(m, p, s, nb)
    OBVIOUS
  <2>2. got.heap = n /\ got.mem = p
    BY <1>1, <1>3, <2>1 DEF ResizeChunk, Result
  <2>3. Resized(m, n, p, nb)
    BY <1>2, <1>3, <2>1, ShrinkIs
  <2> QED  BY <2>2, <2>3 DEF Tried
<1>4. CASE ~(s >= nb)
  <2>1. Lone(m, p, x) /\ p \in Int /\ x \in Int /\ s \in Int /\ s >= MinChunk
    <3>1. Lone(m, p, x) /\ p \in Int /\ x \in Int /\ s = x - p /\ x - p >= MinChunk
      BY <1>2, LoneChunk
    <3> QED  BY <3>1
  <2>2. s < nb
    BY <1>4, <2>1
  <2>3. CASE x = m.top /\ s + m.topsize > nb
    <3>1. PICK all, n : all = s + m.topsize /\ n = IntoTop(m, p, all, nb)
      OBVIOUS
    <3>2. got.heap = n /\ got.mem = p
      BY <1>1, <1>4, <2>3, <3>1 DEF ResizeChunk, Result
    <3>3. p + s = m.top /\ all > nb
      BY <1>1, <2>3, <3>1
    <3>4. Resized(m, n, p, nb)
      BY <1>2, <2>2, <3>1, <3>3, IntoTopIs
    <3> QED  BY <3>2, <3>4 DEF Tried
  <2>4. CASE ~(x = m.top /\ s + m.topsize > nb) /\ (x = m.top \/ Cinuse(m, x) \/ s + z < nb)
    <3>1. got = Result(m, NULL)
      BY <1>1, <1>4, <2>4 DEF ResizeChunk
    <3> QED  BY <3>1 DEF Tried, Result
  <2>5. CASE x # m.top /\ ~Cinuse(m, x) /\ ~(s + z < nb)
    <3>1. x \in FreeIn(m.head, m.top)
      <4>1. x \in DOMAIN m.head /\ x <= m.top /\ m.top \in Int
        BY <2>1, GrownIs DEF Lone
      <4>2. x < m.top
        BY <2>1, <2>5, <4>1
      <4> QED  BY <2>5, <4>1, <4>2 DEF FreeIn, Cinuse
    <3>2. z \in Int
      BY <1>2, <3>1, GrownIs, FreeSizes
    <3>3. PICK all : all = s + z
      OBVIOUS
    <3>4. nb <= all
      BY <2>1, <2>5, <3>2, <3>3
    <3>5. CASE x = m.dv
      <4>1. PICK n : n = IntoDv(m, p, all, nb)
        OBVIOUS
      <4>2. got.heap = n /\ got.mem = p
        BY <1>1, <1>4, <2>5, <3>3, <3>5, <4>1 DEF ResizeChunk, Result
      <4>3. Resized(m, n, p, nb)
        BY <1>2, <3>1, <3>3, <3>4, <3>5, <4>1, IntoDvIs
      <4> QED  BY <4>2, <4>3 DEF Tried
    <3>6. CASE x # m.dv
      <4>1. PICK k : k = UnlinkChunk(m, x, z)
        OBVIOUS
      <4>2. PICK n : n = IntoBinned(k, p, all, nb)
        OBVIOUS
      <4>3. got.heap = n /\ got.mem = p
        BY <1>1, <1>4, <2>5, <3>3, <3>6, <4>1, <4>2 DEF ResizeChunk, Result
      <4>4. Resized(m, n, p, nb)
        BY <1>2, <3>1, <3>3, <3>4, <3>6, <4>1, <4>2, IntoBinnedIs
      <4> QED  BY <4>3, <4>4 DEF Tried
    <3> QED  BY <3>5, <3>6
  <2> QED  BY <2>3, <2>4, <2>5
<1> QED  BY <1>3, <1>4

-----------------------------------------------------------------------------
(* realloc                                                                 *)

(* The call gave the chunk at q, of nb granules or a little more, for that *)
(* at p.                                                                   *)
Replaced(m, n, p, q, nb) ==
  /\ Grown(n) /\ UsedIn(n.head) = (UsedIn(m.head) \ {p}) \cup {q} /\ q \notin UsedIn(m.head) \ {p}
  /\ SizesKept(m.head, n.head, UsedIn(m.head) \ {p})
  /\ n.head[q].size \in Int /\ nb <= n.head[q].size /\ n.head[q].size <= nb + MinChunk
  /\ Called(m, n)

Reserved(m, got, p, nb) ==
  \/ got.mem = NULL /\ Left(m, got.heap, UsedIn(m.head)) /\ Keeps(m, got.heap, {"contiguous"})
  \/ got.mem # NULL /\ Replaced(m, got.heap, p, got.mem, nb)

(* A call that does nothing leaves every chunk in use.                     *)
LEMMA NothingLeft ==
  ASSUME NEW m, Heap(m)
  PROVE  Left(m, m, UsedIn(m.head)) /\ Keeps(m, m, {"contiguous"})
BY NothingChanged DEF Left, SameBlocks

(* The runtime checks pass, and the chunk is resized or nothing is done.   *)
LEMMA TryReallocIs ==
  ASSUME NEW m, Grown(m), NEW p \in UsedIn(m.head), NEW nb \in Int, nb >= MinChunk,
         NEW got, got = TryRealloc(m, p, nb)
  PROVE  Tried(m, got, p, nb)
<1>1. Valid(m, p)
  BY ValidIs
<1>2. got = ResizeChunk(m, p, nb)
  BY <1>1 DEF TryRealloc, Check
<1> QED  BY <1>2, ResizeChunkIs

(* The count of what is in use has no bearing on the chunks.               *)
LEMMA CountResizeIs ==
  ASSUME NEW m, NEW k, NEW p \in UsedIn(m.head), NEW nb \in Int, Resized(m, k, p, nb),
         NEW z, NEW n, n = [k EXCEPT !.usage = z]
  PROVE  Replaced(m, n, p, p, nb)
<1>1. Grown(k) /\ Keeps(m, k, ChunkFields)
  BY DEF Resized
<1>2. Keeps(k, n, {"usage"}) /\ Called(m, n)
  <2>1. Keeps(k, n, {"usage"}) /\ Keeps(m, n, StillFields)
    BY <1>1 DEF Keeps, HeapFields, StillFields
  <2> QED  BY <2>1, StillCalled
<1>3. Grown(n) /\ n.head = k.head
  BY <1>1, <1>2, UsageFrame
<1>4. UsedIn(n.head) = (UsedIn(m.head) \ {p}) \cup {p}
  BY <1>3 DEF Resized
<1>5. n.head[p].size <= nb + MinChunk
  <2>1. n.head[p].size \in Int /\ n.head[p].size < nb + MinChunk
    BY <1>3 DEF Resized
  <2> QED  BY <2>1, ListsAssumption
<1> QED  BY <1>2, <1>3, <1>4, <1>5 DEF Resized, Replaced

(* pad_request gives the size of a chunk.                                  *)
LEMMA PaddedIs ==
  ASSUME NEW r \in Nat
  PROVE  Request2Size(r) \in Int /\ Request2Size(r) >= MinChunk
BY ListsAssumption, TagsAssumption DEF Request2Size

(* realloc_in_place() resizes the chunk it is given, or does nothing.      *)
THEOREM ReallocInPlaceKeepsHeap ==
  ASSUME NEW m, Grown(m), NEW p \in UsedIn(m.head), NEW r \in Nat,
         NEW got, got = DlReallocInPlace(m, p, r)
  PROVE  /\ Reserved(m, got, p, Request2Size(r))
         /\ got.mem \in {NULL, p}
<1>1. PICK nb \in Int : nb = Request2Size(r) /\ nb >= MinChunk
  BY PaddedIs
<1>2. Left(m, m, UsedIn(m.head)) /\ Keeps(m, m, {"contiguous"})
  BY GrownIs, NothingLeft
<1>3. CASE r >= MaxRequest
  <2>1. got.mem = NULL /\ got.heap = m
    BY <1>3 DEF DlReallocInPlace, Result
  <2> QED  BY <1>2, <2>1 DEF Reserved
<1>4. CASE ~(r >= MaxRequest)
  <2>1. PICK tried : tried = TryRealloc(m, p, nb)
    OBVIOUS
  <2>2. Tried(m, tried, p, nb)
    BY <1>1, <2>1, TryReallocIs
  <2>3. PICK s : s = ChunkSize(m, p)
    OBVIOUS
  <2>4. got = OrFail(tried, s, p)
    BY <1>1, <1>4, <2>1, <2>3, Zenon DEF DlReallocInPlace
  <2>5. p # NULL
    BY UsedChunkIs
  <2>6. CASE tried.mem = NULL
    <3>1. got = tried /\ tried.heap = m
      BY <2>2, <2>4, <2>5, <2>6 DEF OrFail, Tried
    <3> QED  BY <1>2, <2>6, <3>1 DEF Reserved
  <2>7. CASE tried.mem # NULL
    <3>1. PICK k : k = tried.heap
      OBVIOUS
    <3>2. tried.mem = p /\ Resized(m, k, p, nb)
      BY <2>2, <2>7, <3>1 DEF Tried
    <3>3. PICK z : z = k.usage + ChunkSize(k, p) - s
      OBVIOUS
    <3>4. PICK n : n = [k EXCEPT !.usage = z]
      OBVIOUS
    <3>5. got.mem = p /\ got.heap = n
      <4>1. Grown(k)
        BY <3>2 DEF Resized
      <4>2. DOMAIN k = HeapFields
        BY <4>1, GrownIs
      <4>3. got = Result([k EXCEPT !.usage = @ + ChunkSize(k, p) - s], p)
        BY <2>4, <2>7, <3>1 DEF OrFail, CountResize
      <4> QED  BY <3>3, <3>4, <4>2, <4>3 DEF Result, HeapFields
    <3>6. Replaced(m, n, p, p, nb)
      BY <3>2, <3>4, CountResizeIs
    <3> QED  BY <1>1, <2>5, <3>5, <3>6 DEF Reserved
  <2> QED  BY <2>6, <2>7
<1> QED  BY <1>3, <1>4

(* realloc() resizes the chunk it is given or moves it, or does nothing.   *)
THEOREM ReallocKeepsHeap ==
  ASSUME NEW m, Grown(m), NEW p \in UsedIn(m.head), NEW r \in Nat,
         NEW got, got = DlRealloc(m, p, r)
  PROVE  Reserved(m, got, p, Request2Size(r))
<1>1. PICK nb \in Int : nb = Request2Size(r) /\ nb >= MinChunk
  BY PaddedIs
<1>2. Left(m, m, UsedIn(m.head)) /\ Heap(m) /\ Keeps(m, m, {"contiguous"})
  BY GrownIs, NothingLeft
<1>3. CASE r >= MaxRequest
  <2>1. got.mem = NULL /\ got.heap = m
    BY <1>3 DEF DlRealloc, Result
  <2> QED  BY <1>2, <2>1 DEF Reserved
<1>4. CASE ~(r >= MaxRequest)
  <2>1. PICK tried : tried = TryRealloc(m, p, nb)
    OBVIOUS
  <2>2. Tried(m, tried, p, nb)
    BY <1>1, <2>1, TryReallocIs
  <2>3. PICK s : s = ChunkSize(m, p)
    OBVIOUS
  <2>4. got = OrMove(tried, s, p, r)
    BY <1>1, <1>4, <2>1, <2>3, Zenon DEF DlRealloc
  <2>5. p # NULL
    BY UsedChunkIs
  <2>6. CASE tried.mem = NULL
    <3>1. PICK new, k, q : new = DlMalloc(m, r) /\ k = new.heap /\ q = new.mem
      OBVIOUS
    <3>2. tried.heap = m
      BY <2>2, <2>5, <2>6 DEF Tried
    <3>3. got = FreeMoved(new, p)
      BY <2>4, <2>6, <3>1, <3>2 DEF OrMove
    <3>4. Served(m, new, nb)
      <4>1. SizeFor(r) = nb
        <5>1. r < MaxRequest
          BY <1>4, ListsAssumption DEF MaxRequest
        <5> QED  BY <1>1, <5>1, SizeForIs
      <4>2. Served(m, new, SizeFor(r))
        BY <1>2, <3>1, MallocKeepsHeap
      <4> QED  BY <4>1, <4>2
    <3>5. CASE q = NULL
      <4>1. got = new
        BY <3>1, <3>3, <3>5 DEF FreeMoved
      <4> QED  BY <3>1, <3>4, <3>5, <4>1 DEF Served, Reserved
    <3>6. CASE q # NULL
      <4>1. Given(m, k, q, nb)
        BY <3>1, <3>4, <3>6 DEF Served
      <4>2. PICK n : n = DlFree(k, p)
        OBVIOUS
      <4>3. got.mem = q /\ got.heap = n
        BY <3>1, <3>3, <3>6, <4>2 DEF FreeMoved, Result
      <4>4. /\ Grown(k) /\ UsedIn(k.head) = UsedIn(m.head) \cup {q} /\ q \notin UsedIn(m.head)
            /\ p \in UsedIn(k.head)
        BY <4>1 DEF Given
      <4>5. Left(k, n, UsedIn(k.head) \ {p}) /\ Grown(n)
        BY <4>2, <4>4, FreeKeepsHeap
      <4>6. UsedIn(n.head) = (UsedIn(m.head) \ {p}) \cup {q} /\ q \notin UsedIn(m.head) \ {p}
        BY <4>4, <4>5 DEF Left
      <4>7. SizesKept(m.head, n.head, UsedIn(m.head) \ {p}) /\ n.head[q].size = k.head[q].size
        BY <4>1, <4>4, <4>5 DEF Given, Left, SizesKept
      <4>8. Called(m, n)
        BY <4>1, <4>5, CalledTwice DEF Given, Left
      <4>9. k.head[q].size \in Int /\ nb <= k.head[q].size /\ k.head[q].size <= nb + MinChunk
        BY <4>1 DEF Given
      <4>10. Replaced(m, n, p, q, nb)
        BY <4>5, <4>6, <4>7, <4>8, <4>9 DEF Replaced
      <4> QED  BY <1>1, <3>6, <4>3, <4>10 DEF Reserved
    <3> QED  BY <3>5, <3>6
  <2>7. CASE tried.mem # NULL
    <3>1. PICK k : k = tried.heap
      OBVIOUS
    <3>2. tried.mem = p /\ Resized(m, k, p, nb)
      BY <2>2, <2>7, <3>1 DEF Tried
    <3>3. PICK z : z = k.usage + ChunkSize(k, p) - s
      OBVIOUS
    <3>4. PICK n : n = [k EXCEPT !.usage = z]
      OBVIOUS
    <3>5. got.mem = p /\ got.heap = n
      <4>1. Grown(k)
        BY <3>2 DEF Resized
      <4>2. DOMAIN k = HeapFields
        BY <4>1, GrownIs
      <4>3. got = Result([k EXCEPT !.usage = @ + ChunkSize(k, p) - s], p)
        BY <2>4, <2>7, <3>1 DEF OrMove, CountResize
      <4> QED  BY <3>3, <3>4, <4>2, <4>3 DEF Result, HeapFields
    <3>6. Replaced(m, n, p, p, nb)
      BY <3>2, <3>4, CountResizeIs
    <3> QED  BY <1>1, <2>5, <3>5, <3>6 DEF Reserved
  <2> QED  BY <2>6, <2>7
<1> QED  BY <1>3, <1>4

-----------------------------------------------------------------------------
(* memalign                                                                *)

(* The chunk whose memory is aligned: the one that was obtained, or one    *)
(* that leaves room for a chunk before it.                                 *)
LEMMA AlignedChunkIs ==
  ASSUME NEW p \in Nat, NEW a \in Nat, a >= MinChunk, NEW q, q = AlignedChunk(p, a)
  PROVE  /\ q \in Nat /\ (q + 1) % a = 0
         /\ q = p \/ q - p >= MinChunk
         /\ q - p < a + MinChunk /\ p <= q
<1>1. MinChunk \in Nat /\ MinChunk > 0 /\ a > 0
  BY ListsAssumption
<1>2. PICK d \in Nat : d = (p + 1 + a - 1) \div a
  BY <1>1
<1>3. PICK x : x = d * a
  OBVIOUS
<1>4. x \in Nat /\ x <= p + a /\ p < x
  <2>1. p + 1 + a - 1 \in Nat /\ p + 1 + a - 1 = p + a
    BY <1>1
  <2>2. d * a <= p + a /\ p + a < d * a + a
    BY <1>1, <1>2, <2>1, DivBounds
  <2>3. x \in Nat
    BY <1>3
  <2> QED  BY <1>3, <2>2, <2>3
<1>5. x % a = 0 /\ (x + a) % a = 0
  <2>1. x % a = 0
    BY <1>1, <1>3, MultipleMod
  <2>2. ((d + 1) * a) % a = 0
    BY <1>1, MultipleMod
  <2>3. (d + 1) * a = x + a
    BY <1>3
  <2> QED  BY <2>1, <2>2, <2>3
<1>6. CASE (p + 1) % a = 0
  <2>1. q = p
    BY <1>6 DEF AlignedChunk
  <2> QED  BY <1>1, <1>6, <2>1
<1>7. CASE (p + 1) % a # 0 /\ x - 1 - p >= MinChunk
  <2>1. q = x - 1
    BY <1>2, <1>3, <1>7 DEF AlignedChunk
  <2>2. q \in Nat /\ q + 1 = x
    BY <1>4, <2>1
  <2> QED  BY <1>1, <1>4, <1>5, <1>7, <2>1, <2>2
<1>8. CASE (p + 1) % a # 0 /\ ~(x - 1 - p >= MinChunk)
  <2>1. q = x - 1 + a
    BY <1>2, <1>3, <1>8 DEF AlignedChunk
  <2>2. q \in Nat /\ q + 1 = x + a /\ q - p >= MinChunk /\ q - p < a + MinChunk /\ p <= q
    BY <1>1, <1>4, <1>8, <2>1
  <2> QED  BY <1>5, <2>2
<1> QED  BY <1>6, <1>7, <1>8

(* The chunk at p became the chunk at q, of size z: what was before it is  *)
(* free.                                                                   *)
LeadGiven(m, n, p, q, z) ==
  /\ Grown(n) /\ UsedIn(n.head) = (UsedIn(m.head) \ {p}) \cup {q} /\ q \notin UsedIn(m.head) \ {p}
  /\ SizesKept(m.head, n.head, UsedIn(m.head) \ {p})
  /\ n.head[q].size = z /\ Keeps(m, n, ChunkFields)

(* internal_memalign frees what is before the aligned address.             *)
LEMMA GiveLeadIs ==
  ASSUME NEW m, Grown(m), NEW p \in UsedIn(m.head), NEW s, s = m.head[p].size,
         NEW q \in Int, q = p \/ q - p >= MinChunk, s - (q - p) >= MinChunk,
         NEW n, n = GiveLead(m, p, s, q), NEW z, z = s - (q - p)
  PROVE  LeadGiven(m, n, p, q, z)
<1>1. PICK e : e = End(m.head, p)
  OBVIOUS
<1>2. PICK F : F = FreeIn(m.head, m.top)
  OBVIOUS
<1>3. Lone(m, p, e) /\ s = e - p /\ e \in Int /\ p \in Int /\ F = FreeIn(m.head, m.top) \ (p .. e-1)
  BY <1>1, <1>2, LoneChunk
<1>4. Sound(m, F)
  BY <1>2 DEF Grown
<1>5. /\ p \in DOMAIN m.head /\ e \in DOMAIN m.head /\ e <= m.top
      /\ UsedIn(m.head) \ (p .. e-1) = UsedIn(m.head) \ {p}
  BY <1>3 DEF Lone
<1>6. MinChunk \in Int /\ MinChunk > 0 /\ z = e - q
  BY <1>3, ListsAssumption
<1>7. CASE q = p
  <2>1. n = m /\ z = s
    BY <1>3, <1>7 DEF GiveLead
  <2>2. DOMAIN m = HeapFields
    BY GrownIs
  <2>3. Keeps(m, m, ChunkFields) /\ SizesKept(m.head, m.head, UsedIn(m.head) \ {p})
    BY <2>2 DEF Keeps, SizesKept
  <2>4. UsedIn(m.head) = (UsedIn(m.head) \ {p}) \cup {q} /\ q \notin UsedIn(m.head) \ {p}
    BY <1>7
  <2> QED  BY <1>7, <2>1, <2>3, <2>4 DEF LeadGiven
<1>8. CASE q # p
  <2>1. q - p >= MinChunk /\ e - q >= MinChunk /\ p < q /\ q < e /\ z = e - q
    BY <1>3, <1>6, <1>8
  <2>2. PICK l : l = SetInuse(m, q, e - q)
    OBVIOUS
  <2>3. PICK k : k = SetInuse(l, p, q - p)
    OBVIOUS
  <2>4. SpanCut(m, k, p, q, e)
    BY <1>3, <1>4, <1>5, <2>1, <2>2, <2>3, CutSpanBack
  <2>5. n = DisposeChunk(k, p, q - p)
    BY <1>8, <2>1, <2>2, <2>3 DEF GiveLead
  <2>6. /\ Grown(k) /\ KeepsTags(m, k) /\ UsedIn(k.head) = (UsedIn(m.head) \ {p}) \cup {p, q}
        /\ k.head[p].size = q - p /\ k.head[q].size = e - q
        /\ \A x \in UsedIn(m.head) : x \notin p .. e-1 => k.head[x].size = m.head[x].size
    BY <1>5, <2>4 DEF SpanCut
  <2>7. q \notin UsedIn(m.head)
    BY <1>3, <1>5, <2>1
  <2>8. p \in UsedIn(k.head) /\ (UsedIn(m.head) \ {p}) \cup {q} = UsedIn(k.head) \ {p}
    BY <1>8, <2>6, <2>7
  <2>9. PICK U : U = (UsedIn(m.head) \ {p}) \cup {q}
    OBVIOUS
  <2>10. Became(k, n, U, U)
    BY <2>5, <2>6, <2>8, <2>9, DisposeChunkIs
  <2>11. SizesKept(m.head, n.head, UsedIn(m.head) \ {p})
    <3>1. \A x \in UsedIn(m.head) \ {p} : x \notin p .. e-1
      BY <1>5
    <3> QED  BY <2>6, <2>9, <2>10, <3>1 DEF Became, SizesKept
  <2>12. n.head[q].size = z
    BY <2>1, <2>6, <2>9, <2>10 DEF Became, SizesKept
  <2>13. Keeps(m, n, ChunkFields)
    BY <2>6, <2>10 DEF Became, KeepsTags, Keeps, ChunkFields
  <2> QED  BY <2>7, <2>9, <2>10, <2>11, <2>12, <2>13 DEF Became, LeadGiven
<1> QED  BY <1>7, <1>8

(* What the chunk at q has beyond nb granules was freed, unless that is    *)
(* little.                                                                 *)
Spared(m, n, q, nb) ==
  /\ Grown(n) /\ UsedIn(n.head) = UsedIn(m.head)
  /\ SizesKept(m.head, n.head, UsedIn(m.head) \ {q})
  /\ n.head[q].size \in Int /\ nb <= n.head[q].size /\ n.head[q].size <= nb + MinChunk
  /\ Keeps(m, n, ChunkFields)

(* internal_memalign frees what is beyond the size wanted.                 *)
LEMMA GiveSpareIs ==
  ASSUME NEW m, Grown(m), NEW q \in UsedIn(m.head), NEW nb \in Int, nb >= MinChunk,
         nb <= m.head[q].size, NEW n, n = GiveSpare(m, q, nb)
  PROVE  Spared(m, n, q, nb)
<1>1. PICK e : e = End(m.head, q)
  OBVIOUS
<1>2. PICK s : s = e - q
  OBVIOUS
<1>3. PICK F : F = FreeIn(m.head, m.top)
  OBVIOUS
<1>4. Lone(m, q, e) /\ q \in Int /\ e \in Int /\ m.head[q].size = e - q /\ F = F \ (q .. e-1)
  BY <1>1, <1>3, LoneChunk
<1>5. s \in Int /\ m.head[q].size = s /\ MinChunk \in Int /\ nb <= s
  BY <1>2, <1>4, ListsAssumption
<1>6. CASE s > nb + MinChunk
  <2>1. n = CutTail(m, q, nb, s)
    BY <1>5, <1>6 DEF GiveSpare, ChunkSize
  <2>2. Sound(m, F) /\ F = FreeIn(m.head, m.top) \ (q .. e-1)
    BY <1>3, <1>4 DEF Grown
  <2>3. s - nb >= MinChunk
    BY <1>5, <1>6
  <2>4. Resized(m, n, q, nb)
    BY <1>2, <1>4, <2>1, <2>2, <2>3, CutTailIs
  <2> QED  BY <1>5, <2>4 DEF Resized, Spared
<1>7. CASE ~(s > nb + MinChunk)
  <2>1. n = m
    BY <1>5, <1>7 DEF GiveSpare, ChunkSize
  <2>2. DOMAIN m = HeapFields
    BY GrownIs
  <2>3. Keeps(m, m, ChunkFields) /\ SizesKept(m.head, m.head, UsedIn(m.head) \ {q})
    BY <2>2 DEF Keeps, SizesKept
  <2>4. s <= nb + MinChunk
    BY <1>5, <1>7
  <2> QED  BY <1>5, <2>1, <2>3, <2>4 DEF Spared
<1> QED  BY <1>6, <1>7

(* The chunk at q, cut out of the chunk at p of an earlier call, is the    *)
(* answer of this one.                                                     *)
LEMMA CutOutGiven ==
  ASSUME NEW m, NEW g, NEW p, NEW big, Given(m, g, p, big), NEW l, NEW q, NEW z,
         LeadGiven(g, l, p, q, z), NEW k, NEW nb \in Int, Spared(l, k, q, nb),
         NEW u, NEW n, n = [k EXCEPT !.usage = u]
  PROVE  Given(m, n, q, nb)
<1>1. /\ UsedIn(g.head) = UsedIn(m.head) \cup {p} /\ p \notin UsedIn(m.head)
      /\ SizesKept(m.head, g.head, UsedIn(m.head)) /\ Called(m, g)
  BY DEF Given
<1>2. /\ Grown(l) /\ UsedIn(l.head) = (UsedIn(g.head) \ {p}) \cup {q} /\ q \notin UsedIn(g.head) \ {p}
      /\ SizesKept(g.head, l.head, UsedIn(g.head) \ {p}) /\ Keeps(g, l, ChunkFields)
  BY DEF LeadGiven
<1>3. /\ Grown(k) /\ UsedIn(k.head) = UsedIn(l.head)
      /\ SizesKept(l.head, k.head, UsedIn(l.head) \ {q})
      /\ k.head[q].size \in Int /\ nb <= k.head[q].size /\ k.head[q].size <= nb + MinChunk
      /\ Keeps(l, k, ChunkFields)
  BY DEF Spared
<1>4. UsedIn(g.head) \ {p} = UsedIn(m.head) /\ UsedIn(l.head) = UsedIn(m.head) \cup {q}
      /\ q \notin UsedIn(m.head) /\ UsedIn(l.head) \ {q} = UsedIn(m.head)
  BY <1>1, <1>2
<1>5. SizesKept(m.head, k.head, UsedIn(m.head))
  BY <1>1, <1>2, <1>3, <1>4 DEF SizesKept
<1>6. DOMAIN k = HeapFields
  BY <1>3, GrownIs
<1>7. Keeps(k, n, {"usage"})
  BY <1>6 DEF Keeps, HeapFields
<1>8. Grown(n) /\ n.head = k.head
  BY <1>3, <1>7, UsageFrame
<1>9. Called(m, n)
  <2>1. Keeps(g, n, StillFields)
    BY <1>2, <1>3, <1>7 DEF Keeps, StillFields
  <2> QED  BY <1>1, <2>1, StillCalled, CalledTwice
<1>10. UsedIn(n.head) = UsedIn(m.head) \cup {q}
  BY <1>3, <1>4, <1>8
<1>11. SizesKept(m.head, n.head, UsedIn(m.head))
  BY <1>5, <1>8
<1>12. n.head[q].size \in Int /\ nb <= n.head[q].size /\ n.head[q].size <= nb + MinChunk
  BY <1>3, <1>8
<1> QED  BY <1>4, <1>8, <1>9, <1>10, <1>11, <1>12 DEF Given

(* A block with memory at a multiple of a.                                 *)
AlignedTo(got, a) == got.mem # NULL => (got.mem + 1) % a = 0

(* internal_memalign with a chunk large enough: an aligned one of the size *)
(* wanted remains.                                                         *)
LEMMA AlignInIs ==
  ASSUME NEW m, Heap(m), NEW nb \in Int, nb >= MinChunk, NEW a \in Nat, a >= MinChunk,
         NEW big \in Int, big >= nb + a + MinChunk, NEW got, Served(m, got, big),
         NEW ans, ans = AlignIn(got, a, nb)
  PROVE  Served(m, ans, nb) /\ AlignedTo(ans, a)
<1>1. CASE got.mem = NULL
  <2>1. ans = got
    BY <1>1 DEF AlignIn
  <2> QED  BY <1>1, <2>1 DEF Served, AlignedTo, Given
<1>2. CASE got.mem # NULL
  <2>1. PICK g : g = got.heap
    OBVIOUS
  <2>2. PICK p : p = got.mem
    OBVIOUS
  <2>3. Given(m, g, p, big)
    BY <1>2, <2>1, <2>2 DEF Served
  <2>4. PICK s : s = g.head[p].size
    OBVIOUS
  <2>5. Grown(g) /\ p \in UsedIn(g.head) /\ s \in Int /\ big <= s
    BY <2>3, <2>4 DEF Given
  <2>6. p \in Int /\ p \in DOMAIN g.head
    BY <2>5, UsedChunkIs
  <2>7. p \in Nat
    <3>1. Segment(g.head, g.foot, g.segbase, g.top, g.topsize)
      BY <2>5, GrownIs
    <3>2. g.head[p].cinuse
      BY <2>5 DEF UsedIn
    <3>3. HeapStart <= p
      BY <2>6, <3>1, <3>2, ChunkIs
    <3> QED  BY <2>6, <3>3, HeapAssumption
  <2>8. PICK q : q = AlignedChunk(p, a)
    OBVIOUS
  <2>9. q \in Nat /\ (q + 1) % a = 0 /\ (q = p \/ q - p >= MinChunk) /\ q - p < a + MinChunk /\ p <= q
    BY <2>7, <2>8, AlignedChunkIs
  <2>10. PICK z : z = s - (q - p)
    OBVIOUS
  <2>11. z \in Int /\ z >= nb /\ z >= MinChunk /\ q \in Int
    BY <2>5, <2>6, <2>9, <2>10, ListsAssumption
  <2>12. PICK l : l = GiveLead(g, p, s, q)
    OBVIOUS
  <2>13. LeadGiven(g, l, p, q, z)
    <3>1. s - (q - p) >= MinChunk
      BY <2>10, <2>11
    <3> QED  BY <2>4, <2>5, <2>9, <2>10, <2>11, <2>12, <3>1, GiveLeadIs
  <2>14. PICK k : k = GiveSpare(l, q, nb)
    OBVIOUS
  <2>15. Spared(l, k, q, nb)
    <3>1. Grown(l) /\ q \in UsedIn(l.head) /\ l.head[q].size = z
      BY <2>13 DEF LeadGiven
    <3>2. nb <= l.head[q].size
      BY <2>11, <3>1
    <3> QED  BY <2>14, <3>1, <3>2, GiveSpareIs
  <2>16. CheckAligned(k, q, a, nb) = k
    <3>1. ChunkSize(k, q) >= nb
      BY <2>15 DEF Spared, ChunkSize
    <3> QED  BY <2>9, <3>1 DEF CheckAligned, Check
  <2>17. ans = CountResize(Result(k, q), s, q)
    BY <1>2, <2>1, <2>2, <2>4, <2>8, <2>12, <2>14, <2>16 DEF AlignIn, ChunkSize
  <2>18. PICK u : u = k.usage + ChunkSize(k, q) - s
    OBVIOUS
  <2>19. ans.heap = [k EXCEPT !.usage = u] /\ ans.mem = q
    BY <2>17, <2>18 DEF CountResize, Result
  <2>20. Given(m, ans.heap, q, nb)
    BY <2>3, <2>13, <2>15, <2>19, CutOutGiven
  <2>21. q # NULL
    BY <2>20, UsedChunkIs DEF Given
  <2> QED  BY <2>9, <2>19, <2>20, <2>21 DEF Served, AlignedTo
<1> QED  BY <1>1, <1>2

(* The alignment that memalign() works with.                               *)
AlignmentFor(a) == IF a <= 1 THEN 1 ELSE IF a < MinChunk THEN MinChunk ELSE a

(* A call that does nothing and returns NULL has served the request.       *)
LEMMA NothingServed ==
  ASSUME NEW m, Heap(m), NEW got, got = Result(m, NULL), NEW nb, NEW a
  PROVE  Served(m, got, nb) /\ AlignedTo(got, a)
<1>1. got.mem = NULL /\ got.heap = m
  BY DEF Result
<1>2. Left(m, m, UsedIn(m.head)) /\ Keeps(m, m, {"contiguous"})
  BY NothingLeft
<1> QED  BY <1>1, <1>2 DEF Served, AlignedTo

(* memalign() returns an aligned chunk of the size wanted or a little      *)
(* more, or NULL.                                                          *)
LEMMA InternalMemalignIs ==
  ASSUME NEW m, Heap(m), NEW a \in Nat, a >= MinChunk, NEW r \in Nat,
         NEW got, got = InternalMemalign(m, a, r)
  PROVE  Served(m, got, SizeFor(r)) /\ AlignedTo(got, a)
<1>1. CASE r >= MaxRequest - a
  BY <1>1, NothingServed DEF InternalMemalign
<1>2. CASE ~(r >= MaxRequest - a)
  <2>1. PICK nb : nb = Request2Size(r)
    OBVIOUS
  <2>2. nb \in Int /\ nb >= MinChunk
    BY <2>1, PaddedIs
  <2>3. nb = SizeFor(r)
    <3>1. r < MaxRequest
      BY <1>2, HeapAssumption, ListsAssumption DEF MaxRequest
    <3> QED  BY <2>1, <3>1, SizeForIs
  <2>4. PICK req : req = nb + a + MinChunk - Overhead
    OBVIOUS
  <2>5. req \in Nat
    BY <2>2, <2>4, ListsAssumption, TagsAssumption
  <2>6. PICK big : big = SizeFor(req)
    OBVIOUS
  <2>7. big \in Int /\ big >= nb + a + MinChunk
    <3>1. MinChunk \in Nat /\ MinChunk > 0 /\ Overhead \in Nat /\ Overhead < MinChunk /\ AddrSpace \in Nat
      BY ListsAssumption, TagsAssumption
    <3>2. CASE req >= MaxRequest
      <4>1. big = AddrSpace - 1
        BY <2>6, <3>2 DEF SizeFor, MaxSize
      <4>2. nb = MinChunk \/ nb = r + Overhead
        BY <2>1 DEF Request2Size
      <4>3. r + a < AddrSpace - 4 * MinChunk
        BY <1>2, <3>1 DEF MaxRequest
      <4> QED  BY <2>2, <3>1, <4>1, <4>2, <4>3
    <3>3. CASE ~(req >= MaxRequest)
      <4>1. big = IF req + Overhead < MinChunk THEN MinChunk ELSE req + Overhead
        BY <2>6, <3>3 DEF SizeFor, Request2Size
      <4> QED  BY <2>2, <2>4, <2>5, <3>1, <4>1
    <3> QED  BY <3>2, <3>3
  <2>8. PICK g : g = DlMalloc(m, req)
    OBVIOUS
  <2>9. Served(m, g, big)
    BY <2>5, <2>6, <2>8, MallocKeepsHeap
  <2>10. got = AlignIn(g, a, nb)
    BY <1>2, <2>1, <2>4, <2>8 DEF InternalMemalign
  <2>11. Served(m, got, nb) /\ AlignedTo(got, a)
    BY <2>2, <2>7, <2>9, <2>10, AlignInIs
  <2> QED  BY <2>3, <2>11
<1> QED  BY <1>1, <1>2

(* memalign() obtains a chunk of the size of the request, or nothing; its  *)
(* memory is aligned as asked, and every other block stays as it was.      *)
THEOREM MemalignKeepsHeap ==
  ASSUME NEW m, Heap(m), NEW a \in Nat, NEW r \in Nat, NEW got, got = DlMemalign(m, a, r)
  PROVE  Served(m, got, SizeFor(r)) /\ AlignedTo(got, AlignmentFor(a))
<1>1. CASE a <= 1
  <2>1. Served(m, got, SizeFor(r))
    BY <1>1, MallocKeepsHeap DEF DlMemalign
  <2>2. AlignedTo(got, 1)
    <3>1. CASE got.mem # NULL
      <4>1. got.mem \in Int
        BY <2>1, <3>1, UsedChunkIs DEF Served, Given
      <4>2. (got.mem + 1) % 1 = 0
        BY <4>1
      <4> QED  BY <4>2 DEF AlignedTo
    <3> QED  BY <3>1 DEF AlignedTo
  <2> QED  BY <1>1, <2>1, <2>2 DEF AlignmentFor
<1>2. CASE ~(a <= 1)
  <2>1. PICK b : b = IF a < MinChunk THEN MinChunk ELSE a
    OBVIOUS
  <2>2. b \in Nat /\ b >= MinChunk /\ b = AlignmentFor(a)
    BY <1>2, <2>1, ListsAssumption DEF AlignmentFor
  <2>3. got = InternalMemalign(m, b, r)
    BY <1>2, <2>1 DEF DlMemalign
  <2>4. Served(m, got, SizeFor(r)) /\ AlignedTo(got, b)
    BY <2>2, <2>3, InternalMemalignIs
  <2> QED  BY <2>2, <2>4
<1> QED  BY <1>1, <1>2

-----------------------------------------------------------------------------
(* independent_comalloc                                                    *)

(* f is the function that Offset(w, n) defines.                            *)
RunningSum(w, n, f) ==
  f = [i \in 0 .. n |-> IF i = 0 THEN 0 ELSE f[i - 1] + Request2Size(w[i])]

(* There are running sums of the sizes of a batch.                         *)
LEMMA SumExists ==
  ASSUME NEW w, NEW n \in Nat
  PROVE  \E f : RunningSum(w, n, f)
<1> DEFINE S == {k \in Nat : ~\E f : RunningSum(w, k, f)}
<1> SUFFICES S = {}
  OBVIOUS
<1> SUFFICES ASSUME S # {} PROVE FALSE
  OBVIOUS
<1>1. PICK k \in S : \A x \in S : k <= x
  BY NatMinimum
<1>2. k \in Nat /\ ~\E f : RunningSum(w, k, f)
  OBVIOUS
<1>3. CASE k = 0
  <2>1. PICK f : f = [i \in 0 .. k |-> 0]
    OBVIOUS
  <2>2. RunningSum(w, k, f)
    BY <1>3, <2>1 DEF RunningSum
  <2> QED  BY <1>2, <2>2
<1>4. CASE k # 0
  <2>1. k - 1 \in Nat /\ k - 1 \notin S
    BY <1>1, <1>2, <1>4
  <2>2. PICK f : RunningSum(w, k - 1, f)
    BY <2>1
  <2>3. PICK g : g = [i \in 0 .. k |-> IF i < k THEN f[i] ELSE f[k - 1] + Request2Size(w[k])]
    OBVIOUS
  <2>4. \A i \in 0 .. k : g[i] = IF i = 0 THEN 0 ELSE g[i - 1] + Request2Size(w[i])
    <3> TAKE i \in 0 .. k
    <3>1. CASE i = 0
      BY <1>2, <1>4, <2>2, <2>3, <3>1 DEF RunningSum
    <3>2. CASE i # 0 /\ i < k
      <4>1. f[i] = f[i - 1] + Request2Size(w[i])
        BY <1>2, <2>2, <3>2 DEF RunningSum
      <4>2. g[i] = f[i] /\ g[i - 1] = f[i - 1]
        BY <1>2, <2>3, <3>2
      <4> QED  BY <3>2, <4>1, <4>2
    <3>3. CASE i = k
      <4>1. g[k] = f[k - 1] + Request2Size(w[k]) /\ g[k - 1] = f[k - 1]
        BY <1>2, <1>4, <2>3
      <4> QED  BY <1>4, <3>3, <4>1
    <3> QED  BY <1>2, <3>1, <3>2, <3>3
  <2>5. RunningSum(w, k, g)
    BY <2>3, <2>4 DEF RunningSum
  <2> QED  BY <1>2, <2>5
<1> QED  BY <1>3, <1>4

(* Running sums agree where both are defined.                              *)
LEMMA SumsAgree ==
  ASSUME NEW w, NEW n \in Nat, NEW k \in Nat, NEW f, NEW g, RunningSum(w, n, f), RunningSum(w, k, g),
         NEW j \in Nat, j <= n, j <= k
  PROVE  f[j] = g[j]
<1> DEFINE S == {i \in 0 .. j : f[i] # g[i]}
<1> SUFFICES ASSUME S # {} PROVE FALSE
  OBVIOUS
<1>1. S \subseteq Nat
  OBVIOUS
<1>2. PICK i \in S : \A x \in S : i <= x
  BY <1>1, NatMinimum
<1>3. i \in 0 .. j /\ f[i] # g[i] /\ i \in 0 .. n /\ i \in 0 .. k
  OBVIOUS
<1>4. f[i] = (IF i = 0 THEN 0 ELSE f[i - 1] + Request2Size(w[i]))
  BY <1>3 DEF RunningSum
<1>5. g[i] = (IF i = 0 THEN 0 ELSE g[i - 1] + Request2Size(w[i]))
  BY <1>3 DEF RunningSum
<1>6. i # 0
  BY <1>3, <1>4, <1>5
<1>7. f[i - 1] = g[i - 1]
  BY <1>2, <1>3, <1>6
<1> QED  BY <1>3, <1>4, <1>5, <1>6, <1>7

(* The offset of an element is a running sum.                              *)
LEMMA OffsetIs ==
  ASSUME NEW w, NEW n \in Nat
  PROVE  \E g : RunningSum(w, n, g) /\ Offset(w, n) = g[n]
<1> DEFINE g == CHOOSE g : g = [i \in 0 .. n |-> IF i = 0 THEN 0 ELSE g[i - 1] + Request2Size(w[i])]
<1>1. PICK f : RunningSum(w, n, f)
  BY SumExists
<1>2. g = [i \in 0 .. n |-> IF i = 0 THEN 0 ELSE g[i - 1] + Request2Size(w[i])]
  BY <1>1, Zenon DEF RunningSum
<1>3. Offset(w, n) = g[n]
  BY Zenon DEF Offset
<1> QED  BY <1>2, <1>3 DEF RunningSum

(* An element begins where the one before it ends.                         *)
LEMMA OffsetStep ==
  ASSUME NEW w, NEW n \in Nat
  PROVE  Offset(w, 0) = 0 /\ Offset(w, n + 1) = Offset(w, n) + Request2Size(w[n + 1])
<1>1. PICK f : RunningSum(w, 0, f) /\ Offset(w, 0) = f[0]
  BY OffsetIs
<1>2. PICK g : RunningSum(w, n, g) /\ Offset(w, n) = g[n]
  BY OffsetIs
<1>3. PICK l : RunningSum(w, n + 1, l) /\ Offset(w, n + 1) = l[n + 1]
  BY OffsetIs
<1>4. f[0] = 0
  BY <1>1 DEF RunningSum
<1>5. l[n + 1] = l[n] + Request2Size(w[n + 1])
  BY <1>3 DEF RunningSum
<1>6. l[n] = g[n]
  BY <1>2, <1>3, SumsAgree
<1> QED  BY <1>1, <1>2, <1>3, <1>4, <1>5, <1>6

(* The points c cut the span from p to e into k chunks.                    *)
Points(c, k, p, e) ==
  /\ k \in Nat /\ k > 0 /\ c[1] = p /\ c[k + 1] = e
  /\ \A i \in 1 .. k + 1 : c[i] \in Int
  /\ \A i \in 1 .. k : c[i + 1] - c[i] >= MinChunk

(* The points of a cut are in order, a chunk apart.                        *)
LEMMA PointsOrder ==
  ASSUME NEW c, NEW k, NEW p, NEW e, Points(c, k, p, e), NEW i \in 1 .. k + 1, NEW j \in 1 .. k + 1, i < j
  PROVE  c[i] + MinChunk <= c[j]
<1> DEFINE S == {x \in i + 1 .. k + 1 : ~(c[i] + MinChunk <= c[x])}
<1>1. k \in Nat /\ MinChunk \in Int /\ MinChunk > 0 /\ S \subseteq Nat
  BY ListsAssumption DEF Points
<1> SUFFICES ASSUME S # {} PROVE FALSE
  BY <1>1
<1>2. PICK x \in S : \A y \in S : x <= y
  BY <1>1, NatMinimum
<1>3. x \in i + 1 .. k + 1 /\ ~(c[i] + MinChunk <= c[x])
  OBVIOUS
<1>4. c[i] \in Int /\ c[x] \in Int /\ c[x - 1] \in Int /\ c[x] - c[x - 1] >= MinChunk
  <2>1. x \in 1 .. k + 1 /\ x - 1 \in 1 .. k /\ x - 1 \in 1 .. k + 1 /\ x - 1 + 1 = x
    BY <1>1, <1>3
  <2> QED  BY <2>1 DEF Points
<1>5. CASE x = i + 1
  BY <1>1, <1>3, <1>4, <1>5
<1>6. CASE x # i + 1
  <2>1. x - 1 \in i + 1 .. k + 1 /\ x - 1 \notin S
    BY <1>1, <1>2, <1>3, <1>6
  <2>2. c[i] + MinChunk <= c[x - 1]
    BY <2>1
  <2> QED  BY <1>1, <1>3, <1>4, <2>2
<1> QED  BY <1>5, <1>6

(* What points of a cut have, for the proofs that expand no definition of  *)
(* them.                                                                   *)
LEMMA PointsIs ==
  ASSUME NEW c, NEW k, NEW p, NEW e, Points(c, k, p, e)
  PROVE  /\ k \in Nat /\ p \in Int /\ e \in Int /\ e - p >= MinChunk /\ 1 \in 1 .. k
         /\ \A i \in 1 .. k : c[i] \in Int /\ c[i + 1] \in Int /\ p <= c[i] /\ c[i] < e /\ c[i] < c[i + 1]
                              /\ c[i + 1] - c[i] >= MinChunk /\ c[i + 1] - c[i] \in Int
                              /\ c[i + 1] <= e /\ p < c[i + 1]
                              /\ (i = 1 \/ (i - 1 \in 1 .. k /\ c[i] = c[(i - 1) + 1]))
         /\ \A i, j \in 1 .. k : c[i] = c[j] => i = j
         /\ \A i, j \in 1 .. k : c[j] <= c[i] \/ c[j] >= c[i + 1]
<1>1. k \in Nat /\ k > 0 /\ 1 \in 1 .. k /\ MinChunk \in Int /\ MinChunk > 0
  BY ListsAssumption DEF Points
<1>2. \A i \in 1 .. k + 1 : c[i] \in Int
  BY DEF Points
<1>3. \A i \in 1 .. k + 1, j \in 1 .. k + 1 : i < j => c[i] + MinChunk <= c[j]
  BY PointsOrder
<1>4. c[1] = p /\ c[k + 1] = e /\ p \in Int /\ e \in Int /\ e - p >= MinChunk
  BY <1>1, <1>2, <1>3 DEF Points
<1>5. \A i \in 1 .. k : c[i + 1] - c[i] >= MinChunk
  BY DEF Points
<1>6. ASSUME NEW i \in 1 .. k
      PROVE  /\ c[i] \in Int /\ c[i + 1] \in Int /\ p <= c[i] /\ c[i] < e /\ c[i] < c[i + 1]
             /\ c[i + 1] - c[i] >= MinChunk /\ c[i + 1] - c[i] \in Int
             /\ c[i + 1] <= e /\ p < c[i + 1]
             /\ (i = 1 \/ (i - 1 \in 1 .. k /\ c[i] = c[(i - 1) + 1]))
  <2>1. i \in 1 .. k + 1 /\ i + 1 \in 1 .. k + 1 /\ k + 1 \in 1 .. k + 1 /\ 1 \in 1 .. k + 1
    BY <1>1
  <2>2. c[i] \in Int /\ c[i + 1] \in Int /\ c[i] + MinChunk <= c[i + 1]
    BY <1>2, <1>3, <2>1
  <2>3. p <= c[i]
    BY <1>1, <1>2, <1>3, <1>4, <2>1
  <2>4. c[i + 1] <= e
    BY <1>1, <1>2, <1>3, <1>4, <2>1
  <2>5. i = 1 \/ (i - 1 \in 1 .. k /\ (i - 1) + 1 = i)
    BY <1>1
  <2> QED  BY <1>1, <1>4, <2>2, <2>3, <2>4, <2>5
<1>7. ASSUME NEW i \in 1 .. k, NEW j \in 1 .. k PROVE c[i] = c[j] => i = j
  <2>1. i \in 1 .. k + 1 /\ j \in 1 .. k + 1
    BY <1>1
  <2> QED  BY <1>1, <1>2, <1>3, <2>1
<1>8. ASSUME NEW i \in 1 .. k, NEW j \in 1 .. k PROVE c[j] <= c[i] \/ c[j] >= c[i + 1]
  <2>1. i \in 1 .. k + 1 /\ j \in 1 .. k + 1 /\ i + 1 \in 1 .. k + 1
    BY <1>1
  <2>2. j < i \/ j = i \/ j = i + 1 \/ i + 1 < j
    BY <1>1
  <2> QED  BY <1>1, <1>2, <1>3, <2>1, <2>2
<1> QED  BY <1>1, <1>4, <1>6, <1>7, <1>8

(* The span from the first point to the last became the chunks that they   *)
(* cut it into, all in use.                                                *)
Split(h, f, h2, f2, c, k) ==
  /\ \A x : x \in DOMAIN h2 <=> (x \in DOMAIN h \/ \E i \in 1 .. k : x = c[i])
  /\ \A i \in 1 .. k : h2[c[i]] = Tag(c[i + 1] - c[i], TRUE, TRUE)
  /\ \A x \in DOMAIN h2 : h2[x] = h[x] \/ \E i \in 1 .. k : x = c[i]
  /\ \A i \in 1 .. k : c[i + 1] \in DOMAIN f2 /\ f2[c[i + 1]] = Magic
  /\ \A x \in DOMAIN f : x <= c[1] \/ x > c[k + 1] => x \in DOMAIN f2 /\ f2[x] = f[x]
  /\ \A x \in DOMAIN f2 : (x \in DOMAIN f /\ f2[x] = f[x]) \/ \E i \in 1 .. k : x = c[i + 1]

(* The points cut the chunk in use at p, which has none free before it.    *)
SplitOf(h, p, e) ==
  /\ p \in DOMAIN h /\ e \in DOMAIN h /\ UsedBefore(h, p) /\ UsedBefore(h, e)
  /\ \A x \in DOMAIN h : x <= p \/ x >= e

(* Cutting a chunk rewrites nothing outside it.                            *)
LEMMA SplitRewrote ==
  ASSUME NEW h, NEW f, NEW h2, NEW f2, NEW c, NEW k, NEW p, NEW e, Words(h), DOMAIN f \subseteq Int,
         Points(c, k, p, e), Split(h, f, h2, f2, c, k), SplitOf(h, p, e)
  PROVE  Rewrote(h, f, h2, f2, p, e)
<1>1. /\ k \in Nat /\ p \in Int /\ e \in Int /\ e - p >= MinChunk /\ 1 \in 1 .. k
      /\ \A i \in 1 .. k : c[i] \in Int /\ c[i + 1] \in Int /\ p <= c[i] /\ c[i] < e /\ c[i] < c[i + 1]
                              /\ c[i + 1] - c[i] >= MinChunk /\ c[i + 1] - c[i] \in Int
                              /\ c[i + 1] <= e /\ p < c[i + 1]
  BY PointsIs
<1>2. c[1] = p /\ c[k + 1] = e /\ MinChunk \in Int /\ MinChunk > 0
  BY ListsAssumption DEF Points
<1>3. \A x : x \in DOMAIN h2 <=> (x \in DOMAIN h \/ \E i \in 1 .. k : x = c[i])
  BY DEF Split
<1>4. \A x \in DOMAIN h2 : h2[x] = h[x] \/ \E i \in 1 .. k : x = c[i]
  BY DEF Split
<1>5. DOMAIN h \subseteq Int
  BY DEF Words
<1>6. Words(h2)
  <2>1. DOMAIN h2 \subseteq Int
    BY <1>1, <1>3, <1>5
  <2>2. ASSUME NEW x \in DOMAIN h2 PROVE h2[x] \in [size : Int, cinuse : BOOLEAN, pinuse : BOOLEAN]
    <3>1. CASE \E i \in 1 .. k : x = c[i]
      <4>1. PICK i \in 1 .. k : x = c[i]
        BY <3>1
      <4>2. h2[x] = Tag(c[i + 1] - c[i], TRUE, TRUE)
        BY <4>1 DEF Split
      <4>3. c[i + 1] - c[i] \in Int
        BY <1>1
      <4>4. TRUE \in BOOLEAN
        OBVIOUS
      <4> QED  BY <4>2, <4>3, <4>4, TagInWords, Zenon
    <3>2. CASE ~\E i \in 1 .. k : x = c[i]
      <4>1. h2[x] = h[x] /\ x \in DOMAIN h
        BY <1>3, <1>4, <3>2
      <4> QED  BY <4>1 DEF Words
    <3> QED  BY <3>1, <3>2
  <2> QED  BY <2>1, <2>2 DEF Words
<1>7. \A x \in Int : x < p \/ x > e => ~\E i \in 1 .. k : x = c[i]
  BY <1>1
<1>8. \A x \in Int : x < p \/ x > e => (x \in DOMAIN h2 <=> x \in DOMAIN h)
  BY <1>3, <1>7
<1>9. \A x \in DOMAIN h : x < p \/ x > e => h2[x] = h[x]
  BY <1>3, <1>4, <1>5, <1>7
<1>10. p \in DOMAIN h2 /\ h2[p].pinuse = h[p].pinuse
  <2>1. h2[p] = Tag(c[2] - p, TRUE, TRUE)
    <3>1. 1 + 1 = 2
      OBVIOUS
    <3> QED  BY <1>1, <1>2, <3>1 DEF Split
  <2>2. h2[p].pinuse = TRUE
    BY <2>1 DEF Tag
  <2>3. h[p].pinuse = TRUE
    BY DEF SplitOf, UsedBefore, Words
  <2>4. p \in DOMAIN h2
    BY <1>3 DEF SplitOf
  <2> QED  BY <2>2, <2>3, <2>4
<1>11. e \in DOMAIN h2 /\ h2[e].size = h[e].size /\ h2[e].cinuse = h[e].cinuse
  <2>1. e \in DOMAIN h2
    BY <1>3 DEF SplitOf
  <2>2. ~\E i \in 1 .. k : e = c[i]
    BY <1>1
  <2> QED  BY <1>4, <2>1, <2>2
<1>12. \A x \in DOMAIN f : x <= p \/ x > e => x \in DOMAIN f2 /\ f2[x] = f[x]
  BY <1>2 DEF Split
<1>13. ASSUME NEW x \in DOMAIN f2
       PROVE  \/ x \in DOMAIN f /\ f2[x] = f[x]
              \/ x \in Int /\ p < x /\ x <= e /\ f2[x] \in {Magic} \cup 1 .. e - p
  <2>1. CASE \E i \in 1 .. k : x = c[i + 1]
    <3>1. PICK i \in 1 .. k : x = c[i + 1]
      BY <2>1
    <3>2. f2[x] = Magic
      BY <3>1 DEF Split
    <3>3. x \in Int /\ p < x /\ x <= e
      BY <1>1, <3>1
    <3> QED  BY <3>2, <3>3
  <2>2. CASE ~\E i \in 1 .. k : x = c[i + 1]
    BY <2>2 DEF Split
  <2> QED  BY <2>1, <2>2
<1> QED  BY <1>6, <1>8, <1>9, <1>10, <1>11, <1>12, <1>13 DEF Rewrote

(* The chunks that a chunk was cut into tile it.                           *)
LEMMA SplitTiles ==
  ASSUME NEW h, NEW f, NEW h2, NEW f2, NEW c, NEW k, NEW p, NEW e, Words(h),
         Points(c, k, p, e), Split(h, f, h2, f2, c, k), SplitOf(h, p, e)
  PROVE  Tiles(h2, f2, p, e)
<1>1. /\ k \in Nat /\ p \in Int /\ e \in Int /\ e - p >= MinChunk /\ 1 \in 1 .. k
      /\ \A i \in 1 .. k : c[i] \in Int /\ c[i + 1] \in Int /\ p <= c[i] /\ c[i] < e /\ c[i] < c[i + 1]
                              /\ c[i + 1] - c[i] >= MinChunk /\ c[i + 1] - c[i] \in Int
                              /\ c[i + 1] <= e /\ p < c[i + 1]
                              /\ (i = 1 \/ (i - 1 \in 1 .. k /\ c[i] = c[(i - 1) + 1]))
      /\ \A i, j \in 1 .. k : c[j] <= c[i] \/ c[j] >= c[i + 1]
  BY PointsIs
<1>2. c[1] = p /\ c[k + 1] = e /\ MinChunk \in Int /\ MinChunk > 0 /\ p < e /\ p <= e
  BY <1>1, ListsAssumption DEF Points
<1>3. \A x : x \in DOMAIN h2 <=> (x \in DOMAIN h \/ \E i \in 1 .. k : x = c[i])
  BY DEF Split
<1>4. DOMAIN h \subseteq Int /\ DOMAIN h2 \subseteq Int
  BY <1>1, <1>3 DEF Words
<1>5. \A x \in DOMAIN h2 : x <= p \/ x >= e \/ \E i \in 1 .. k : x = c[i]
  BY <1>3 DEF SplitOf
<1>6. p \in DOMAIN h2 /\ e \in DOMAIN h2
  BY <1>3 DEF SplitOf
<1>7. ASSUME NEW i \in 1 .. k
      PROVE  h2[c[i]].size = c[i + 1] - c[i] /\ h2[c[i]].cinuse /\ h2[c[i]].pinuse /\ c[i] \in DOMAIN h2
  <2>1. h2[c[i]] = Tag(c[i + 1] - c[i], TRUE, TRUE)
    BY DEF Split
  <2>2. h2[c[i]].size = c[i + 1] - c[i] /\ h2[c[i]].cinuse /\ h2[c[i]].pinuse
    BY <2>1 DEF Tag
  <2> QED  BY <1>3, <2>2
<1>8. UsedBefore(h2, e)
  <2>1. ~\E i \in 1 .. k : e = c[i]
    BY <1>1
  <2>2. h2[e] = h[e]
    BY <1>6, <2>1 DEF Split
  <2> QED  BY <2>2, Zenon DEF SplitOf, UsedBefore
<1>9. \A i \in 1 .. k : c[i + 1] = e \/ i + 1 \in 1 .. k
  BY <1>1, <1>2
<1>10. \A i \in 1 .. k : c[i + 1] \in DOMAIN h2 /\ UsedBefore(h2, c[i + 1])
  <2> TAKE i \in 1 .. k
  <2>1. CASE c[i + 1] = e
    BY <1>6, <1>8, <2>1
  <2>2. CASE i + 1 \in 1 .. k
    BY <1>7, <2>2 DEF UsedBefore
  <2> QED  BY <1>9, <2>1, <2>2
<1>11. ASSUME NEW x \in DOMAIN h2, p <= x, x < e PROVE \E i \in 1 .. k : x = c[i]
  <2>1. x \in Int
    BY <1>4
  <2>2. CASE x = p
    BY <1>1, <1>2, <2>2
  <2>3. CASE x # p
    BY <1>1, <1>5, <1>11, <2>1, <2>3
  <2> QED  BY <2>2, <2>3
<1>12. ASSUME NEW x \in DOMAIN h2, p <= x, x < e PROVE GoodChunk(h2, f2, x, e)
  <2>1. PICK i \in 1 .. k : x = c[i]
    BY <1>11, <1>12
  <2>2. End(h2, x) = c[i + 1] /\ h2[x].size >= MinChunk
    BY <1>1, <1>7, <2>1 DEF End
  <2>3. \A y \in DOMAIN h2 : y <= x \/ y >= c[i + 1]
    <3> TAKE y \in DOMAIN h2
    <3>1. y \in Int /\ x \in Int /\ c[i + 1] \in Int /\ p <= x /\ c[i + 1] <= e
      BY <1>1, <1>4, <2>1
    <3>2. CASE y <= p \/ y >= e
      BY <1>1, <3>1, <3>2
    <3>3. CASE \E j \in 1 .. k : y = c[j]
      BY <1>1, <2>1, <3>3
    <3> QED  BY <1>5, <3>2, <3>3
  <2>4. c[i + 1] \in DOMAIN h2 /\ c[i + 1] <= e
    BY <1>1, <1>10
  <2>5. h2[c[i + 1]].pinuse = h2[x].cinuse
    <3>1. Words(h2)
      <4>1. ASSUME NEW y \in DOMAIN h2 PROVE h2[y] \in [size : Int, cinuse : BOOLEAN, pinuse : BOOLEAN]
        <5>1. CASE \E j \in 1 .. k : y = c[j]
          <6>1. PICK j \in 1 .. k : y = c[j]
            BY <5>1
          <6>2. h2[y] = Tag(c[j + 1] - c[j], TRUE, TRUE)
            BY <6>1 DEF Split
          <6>3. c[j + 1] - c[j] \in Int
            BY <1>1
          <6>4. TRUE \in BOOLEAN
            OBVIOUS
          <6> QED  BY <6>2, <6>3, <6>4, TagInWords, Zenon
        <5>2. CASE ~\E j \in 1 .. k : y = c[j]
          <6>1. h2[y] = h[y] /\ y \in DOMAIN h
            BY <1>3, <5>2 DEF Split
          <6> QED  BY <6>1 DEF Words
        <5> QED  BY <5>1, <5>2
      <4> QED  BY <1>4, <4>1 DEF Words
    <3>2. UsedBefore(h2, c[i + 1]) /\ c[i + 1] \in DOMAIN h2
      BY <1>10
    <3>3. h2[c[i + 1]].pinuse = TRUE
      BY <3>1, <3>2 DEF Words, UsedBefore
    <3>4. h2[x].cinuse = TRUE
      <4>1. h2[c[i]] = Tag(c[i + 1] - c[i], TRUE, TRUE)
        BY DEF Split
      <4> QED  BY <2>1, <4>1 DEF Tag
    <3> QED  BY <3>3, <3>4
  <2>6. c[i + 1] \in DOMAIN f2 /\ f2[c[i + 1]] = Magic
    BY DEF Split
  <2>7. h2[x].cinuse
    BY <1>7, <2>1
  <2>8. f2[End(h2, x)] = IF h2[x].cinuse THEN Magic ELSE h2[x].size
    BY <2>2, <2>6, <2>7
  <2>9. h2[End(h2, x)].pinuse = h2[x].cinuse
    BY <2>2, <2>5
  <2>10. h2[x].cinuse \/ h2[x].pinuse
    BY <2>7
  <2>11. \A y \in DOMAIN h2 : y <= x \/ y >= End(h2, x)
    BY <2>2, <2>3
  <2>12. End(h2, x) \in DOMAIN h2 /\ End(h2, x) <= e /\ End(h2, x) \in DOMAIN f2
    BY <2>2, <2>4, <2>6
  <2> QED  BY <2>2, <2>8, <2>9, <2>10, <2>11, <2>12, Zenon DEF GoodChunk
<1>13. ASSUME NEW x \in DOMAIN h2, p < x, x <= e
       PROVE  \E y \in DOMAIN h2 : p <= y /\ y < x /\ End(h2, y) = x
  <2>1. PICK i \in 1 .. k : x = c[i + 1]
    <3>1. CASE x = e
      <4>1. k \in 1 .. k
        BY <1>1
      <4> QED  BY <1>2, <3>1, <4>1
    <3>2. CASE x # e
      <4>1. x \in Int /\ x < e /\ p <= x
        BY <1>1, <1>4, <1>13, <3>2
      <4>2. PICK j \in 1 .. k : x = c[j]
        BY <1>11, <4>1
      <4>3. j # 1
        BY <1>2, <1>13, <4>1, <4>2, <1>1
      <4> QED  BY <1>1, <4>2, <4>3
    <3> QED  BY <3>1, <3>2
  <2>2. c[i] \in DOMAIN h2 /\ p <= c[i] /\ c[i] < x /\ End(h2, c[i]) = x
    <3>1. End(h2, c[i]) = c[i] + (c[i + 1] - c[i])
      BY <1>7 DEF End
    <3>2. c[i] \in Int /\ c[i + 1] \in Int
      BY <1>1
    <3> QED  BY <1>1, <1>7, <2>1, <3>1, <3>2
  <2> QED  BY <2>2
<1> QED  BY <1>2, <1>6, <1>12, <1>13 DEF Tiles

(* The chunk at p became the chunks that begin at the first k points.      *)
Shared(m, n, p, c, k) ==
  /\ Grown(n) /\ KeepsTags(m, n)
  /\ UsedIn(n.head) = (UsedIn(m.head) \ {p}) \cup {c[i] : i \in 1 .. k}
  /\ SizesKept(m.head, n.head, UsedIn(m.head) \ {p})
  /\ \A i \in 1 .. k : n.head[c[i]].size = c[i + 1] - c[i] /\ c[i] \notin UsedIn(m.head) \ {p}

(* A chunk in use cut into several leaves the heap sound.                  *)
LEMMA SplitShared ==
  ASSUME NEW m, Grown(m), NEW p \in UsedIn(m.head), UsedBefore(m.head, p), NEW e, e = End(m.head, p),
         NEW c, NEW k, Points(c, k, p, e), NEW n, KeepsTags(m, n),
         Split(m.head, m.foot, n.head, n.foot, c, k)
  PROVE  Shared(m, n, p, c, k)
<1>1. PICK h, f, t : h = m.head /\ f = m.foot /\ t = m.top
  OBVIOUS
<1>2. PICK h2, f2 : h2 = n.head /\ f2 = n.foot
  OBVIOUS
<1>3. /\ Segment(h, f, m.segbase, t, m.topsize) /\ Words(h) /\ DOMAIN f \subseteq Int
      /\ DOMAIN m = HeapFields /\ t \in Int /\ DOMAIN h \subseteq Int
  BY <1>1, GrownIs
<1>4. /\ p \in DOMAIN h /\ p \in Int /\ p < t /\ GoodChunk(h, f, p, t) /\ e \in DOMAIN h /\ e \in Int
      /\ p < e /\ e <= t
  <2>1. p \in DOMAIN h /\ h[p].cinuse
    BY <1>1 DEF UsedIn
  <2> QED  BY <1>1, <1>3, <2>1, ChunkIs
<1>5. UsedBefore(h, e)
  <2>1. h[e].pinuse = h[p].cinuse
    BY <1>1, <1>4 DEF GoodChunk
  <2>2. p \in UsedIn(h)
    BY <1>1
  <2> QED  BY <2>1, <2>2, Zenon DEF UsedBefore, UsedIn
<1>6. \A x \in DOMAIN h : x <= p \/ x >= e
  BY <1>1, <1>4 DEF GoodChunk
<1>7. SplitOf(h, p, e)
  BY <1>1, <1>4, <1>5, <1>6 DEF SplitOf
<1>8. Split(h, f, h2, f2, c, k)
  BY <1>1, <1>2
<1>9. Rewrote(h, f, h2, f2, p, e) /\ Tiles(h2, f2, p, e)
  BY <1>3, <1>7, <1>8, SplitRewrote, SplitTiles
<1>10. /\ k \in Nat
       /\ \A i \in 1 .. k : c[i] \in Int /\ p <= c[i] /\ c[i] < e
  BY PointsIs
<1>11. \A x : x \in DOMAIN h2 <=> (x \in DOMAIN h \/ \E i \in 1 .. k : x = c[i])
  BY <1>8 DEF Split
<1>12. UsedBefore(h2, e)
  <2>1. e \in DOMAIN h2 /\ ~\E i \in 1 .. k : e = c[i]
    BY <1>4, <1>10, <1>11
  <2>2. h2[e] = h[e]
    BY <1>8, <2>1 DEF Split
  <2> QED  BY <1>5, <2>2, Zenon DEF UsedBefore
<1>13. /\ Segment(h2, f2, m.segbase, t, m.topsize)
       /\ \A x \in Int : x < p \/ e <= x =>
            /\ x \in UsedIn(h2) <=> x \in UsedIn(h)
            /\ x \in FreeIn(h2, t) <=> x \in FreeIn(h, t)
            /\ x \in DOMAIN h => h2[x].size = h[x].size
  <2>1. h2[e].cinuse \/ h2[e].pinuse
    BY <1>12, Zenon DEF UsedBefore
  <2> QED  BY <1>3, <1>4, <1>9, <2>1, SegmentRewritten
<1>14. \A i \in 1 .. k : c[i] \in UsedIn(h2) /\ h2[c[i]].size = c[i + 1] - c[i]
  <2> TAKE i \in 1 .. k
  <2>1. h2[c[i]] = Tag(c[i + 1] - c[i], TRUE, TRUE)
    BY <1>8 DEF Split
  <2>2. h2[c[i]].size = c[i + 1] - c[i] /\ h2[c[i]].cinuse
    BY <2>1 DEF Tag
  <2> QED  BY <1>11, <2>2 DEF UsedIn
<1>15. DOMAIN h2 \subseteq Int
  BY <1>9 DEF Rewrote, Words
<1>16. \A x \in DOMAIN h2 : x < p \/ e <= x \/ \E i \in 1 .. k : x = c[i]
  <2> TAKE x \in DOMAIN h2
  <2>1. CASE x \in DOMAIN h
    <3>1. x < p \/ x = p \/ e <= x
      BY <1>3, <1>4, <1>6, <2>1
    <3>2. p = c[1] /\ 1 \in 1 .. k
      BY PointsIs DEF Points
    <3> QED  BY <3>1, <3>2
  <2>2. CASE x \notin DOMAIN h
    BY <1>11, <2>2
  <2> QED  BY <2>1, <2>2
<1>17. \A x \in UsedIn(h) \ {p} : x < p \/ e <= x
  BY <1>3, <1>4, <1>6 DEF UsedIn
<1>18. UsedIn(h2) = (UsedIn(h) \ {p}) \cup {c[i] : i \in 1 .. k}
  <2>1. ASSUME NEW x \in UsedIn(h2) PROVE x \in (UsedIn(h) \ {p}) \cup {c[i] : i \in 1 .. k}
    <3>1. x \in DOMAIN h2 /\ x \in Int
      BY <1>15 DEF UsedIn
    <3>2. CASE x < p \/ e <= x
      <4>1. x \in UsedIn(h) /\ x # p
        BY <1>4, <1>13, <3>1, <3>2
      <4> QED  BY <4>1
    <3> QED  BY <1>16, <3>1, <3>2
  <2>2. ASSUME NEW x \in UsedIn(h) \ {p} PROVE x \in UsedIn(h2)
    <3>1. x \in Int
      BY <1>3 DEF UsedIn
    <3> QED  BY <1>13, <1>17, <3>1
  <2>3. {c[i] : i \in 1 .. k} \subseteq UsedIn(h2)
    BY <1>14
  <2> QED  BY <2>1, <2>2, <2>3
<1>19. PICK F : F = FreeIn(h, t)
  OBVIOUS
<1>20. FreeIn(h2, t) = F
  <2>1. ASSUME NEW x \in FreeIn(h2, t) PROVE x \in FreeIn(h, t)
    <3>1. x \in DOMAIN h2 /\ x \in Int /\ x \notin UsedIn(h2)
      BY <1>15 DEF FreeIn, UsedIn
    <3>2. x < p \/ e <= x
      BY <1>14, <1>16, <3>1
    <3> QED  BY <1>13, <3>1, <3>2
  <2>2. ASSUME NEW x \in FreeIn(h, t) PROVE x \in FreeIn(h2, t)
    <3>1. x \in DOMAIN h /\ x \in Int /\ x \notin UsedIn(h)
      BY <1>3 DEF FreeIn, UsedIn
    <3>2. x # p
      BY <1>1, <3>1
    <3>3. x < p \/ e <= x
      BY <1>4, <1>6, <3>1, <3>2
    <3> QED  BY <1>13, <3>1, <3>3
  <2> QED  BY <1>19, <2>1, <2>2
<1>21. \A x \in F : h2[x].size = h[x].size
  <2> TAKE x \in F
  <2>1. x \in DOMAIN h /\ x \in Int /\ x \notin UsedIn(h)
    BY <1>3, <1>19 DEF FreeIn, UsedIn
  <2>2. x # p
    BY <1>1, <2>1
  <2>3. x < p \/ e <= x
    BY <1>4, <1>6, <2>1, <2>2
  <2> QED  BY <1>13, <2>1, <2>3
<1>22. Grown(n)
  <2>1. Sound(m, F)
    BY <1>1, <1>19 DEF Grown
  <2>2. /\ Segment(n.head, n.foot, m.segbase, m.top, m.topsize) /\ FreeIn(n.head, m.top) = F
        /\ \A x \in F : n.head[x].size = m.head[x].size
    BY <1>1, <1>2, <1>13, <1>20, <1>21
  <2> QED  BY <2>1, <2>2, Retagged
<1>23. SizesKept(h, h2, UsedIn(h) \ {p})
  <2>1. ASSUME NEW x \in UsedIn(h) \ {p} PROVE h2[x].size = h[x].size
    <3>1. x \in DOMAIN h /\ x \in Int
      BY <1>3 DEF UsedIn
    <3> QED  BY <1>13, <1>17, <3>1
  <2> QED  BY <2>1 DEF SizesKept
<1>24. \A i \in 1 .. k : c[i] \notin UsedIn(h) \ {p}
  <2> TAKE i \in 1 .. k
  <2>1. c[i] \in Int /\ p <= c[i] /\ c[i] < e
    BY <1>10
  <2> QED  BY <1>4, <1>17, <2>1
<1> QED  BY <1>1, <1>2, <1>14, <1>18, <1>22, <1>23, <1>24 DEF Shared

(* SplitAt(m, p, ends) writes the chunks that begin where Begin says.      *)
Begin(p, ends, i) == IF i = 1 THEN p ELSE p + ends[i - 1]
WordAt(p, ends, i) == Tag(p + ends[i] - Begin(p, ends, i), TRUE, TRUE)

(* Where ialloc's loop writes heads and footers.                           *)
LEMMA SplitAtWrites ==
  ASSUME NEW m, DOMAIN m = HeapFields, NEW p, NEW ends, NEW n, n = SplitAt(m, p, ends),
         NEW k, k = Len(ends)
  PROVE  /\ KeepsTags(m, n)
         /\ n.head = [x \in DOMAIN m.head \cup {Begin(p, ends, i) : i \in 1 .. k} |->
                       IF \E i \in 1 .. k : x = Begin(p, ends, i)
                       THEN WordAt(p, ends, CHOOSE i \in 1 .. k : x = Begin(p, ends, i))
                       ELSE m.head[x]]
         /\ n.foot = [x \in DOMAIN m.foot \cup {p + ends[i] : i \in 1 .. k} |->
                       IF \E i \in 1 .. k : x = p + ends[i]
                       THEN Magic ELSE m.foot[x]]
<1> DEFINE H == [x \in DOMAIN m.head \cup {Begin(p, ends, i) : i \in 1 .. k} |->
                       IF \E i \in 1 .. k : x = Begin(p, ends, i)
                       THEN WordAt(p, ends, CHOOSE i \in 1 .. k : x = Begin(p, ends, i))
                       ELSE m.head[x]]
<1> DEFINE G == [x \in DOMAIN m.foot \cup {p + ends[i] : i \in 1 .. k} |->
                       IF \E i \in 1 .. k : x = p + ends[i]
                       THEN Magic ELSE m.foot[x]]
<1>1. n = [m EXCEPT !.head = H, !.foot = G]
  BY Zenon DEF SplitAt, Begin, WordAt, Tag
<1> HIDE DEF H, G
<1>2. n.head = H /\ n.foot = G /\ KeepsTags(m, n)
  BY <1>1 DEF KeepsTags, Keeps, HeapFields
<1> QED  BY <1>2 DEF H, G

(* The ends are those of the points' chunks.                               *)
EndsAt(p, ends, c, k) ==
  \A i \in 1 .. k : ends[i] \in Int /\ Begin(p, ends, i) = c[i] /\ p + ends[i] = c[i + 1]

(* ialloc's loop cuts the chunk at the points given.                       *)
LEMMA SplitAtIs ==
  ASSUME NEW m, DOMAIN m = HeapFields, DOMAIN m.foot \subseteq Int, NEW p, NEW e, NEW c, NEW k,
         Points(c, k, p, e), NEW ends, k = Len(ends), EndsAt(p, ends, c, k),
         NEW n, n = SplitAt(m, p, ends)
  PROVE  KeepsTags(m, n) /\ Split(m.head, m.foot, n.head, n.foot, c, k)
<1>1. PICK h, f, h2, f2 : h = m.head /\ f = m.foot /\ h2 = n.head /\ f2 = n.foot
  OBVIOUS
<1>2. /\ KeepsTags(m, n)
      /\ h2 = [x \in DOMAIN h \cup {Begin(p, ends, i) : i \in 1 .. k} |->
                       IF \E i \in 1 .. k : x = Begin(p, ends, i)
                       THEN WordAt(p, ends, CHOOSE i \in 1 .. k : x = Begin(p, ends, i))
                       ELSE h[x]]
      /\ f2 = [x \in DOMAIN f \cup {p + ends[i] : i \in 1 .. k} |->
                       IF \E i \in 1 .. k : x = p + ends[i]
                       THEN Magic ELSE f[x]]
  BY <1>1, SplitAtWrites
<1>3. /\ k \in Nat /\ 1 \in 1 .. k
      /\ \A i \in 1 .. k : c[i] \in Int /\ c[i + 1] \in Int /\ p < c[i + 1] /\ c[i + 1] <= e
      /\ \A i, j \in 1 .. k : c[i] = c[j] => i = j
      /\ c[1] = p /\ c[k + 1] = e /\ p \in Int /\ e \in Int
  BY PointsIs DEF Points
<1>4. \A i \in 1 .. k : ends[i] \in Int /\ Begin(p, ends, i) = c[i] /\ p + ends[i] = c[i + 1]
  BY DEF EndsAt
<1>5. DOMAIN h2 = DOMAIN h \cup {Begin(p, ends, i) : i \in 1 .. k}
  BY <1>2
<1>6. \A x : x \in DOMAIN h2 <=> (x \in DOMAIN h \/ \E i \in 1 .. k : x = c[i])
  BY <1>4, <1>5
<1>7. ASSUME NEW i \in 1 .. k PROVE h2[c[i]] = Tag(c[i + 1] - c[i], TRUE, TRUE)
  <2>1. c[i] \in DOMAIN h \cup {Begin(p, ends, j) : j \in 1 .. k} /\ c[i] = Begin(p, ends, i)
    BY <1>4
  <2>2. PICK y : y = CHOOSE j \in 1 .. k : c[i] = Begin(p, ends, j)
    OBVIOUS
  <2>3. y \in 1 .. k /\ c[i] = Begin(p, ends, y)
    BY <2>1, <2>2
  <2>4. y = i
    <3>1. Begin(p, ends, y) = c[y]
      BY <2>3 DEF EndsAt
    <3>2. c[y] = c[i] /\ y \in 1 .. k
      BY <2>3, <3>1
    <3> QED  BY <3>2, PointsIs
  <2>5. h2[c[i]] = WordAt(p, ends, y)
    BY <1>2, <2>1, <2>2, Zenon
  <2>6. WordAt(p, ends, i) = Tag(c[i + 1] - c[i], TRUE, TRUE)
    <3>1. /\ p + ends[i] = c[i + 1] /\ Begin(p, ends, i) = c[i]
          /\ ends[i] \in Int /\ c[i] \in Int /\ c[i + 1] \in Int
      BY <1>3, <1>4
    <3>2. PICK z : z = p + ends[i] - Begin(p, ends, i)
      OBVIOUS
    <3>3. z = c[i + 1] - c[i]
      BY <1>3, <3>1, <3>2
    <3>4. WordAt(p, ends, i) = Tag(z, TRUE, TRUE)
      BY <3>2 DEF WordAt
    <3> QED  BY <3>3, <3>4
  <2> QED  BY <2>4, <2>5, <2>6
<1>8. ASSUME NEW x \in DOMAIN h2, ~\E i \in 1 .. k : x = c[i] PROVE h2[x] = h[x]
  <2>1. ~\E i \in 1 .. k : x = Begin(p, ends, i)
    BY <1>4, <1>8
  <2> QED  BY <1>2, <1>5, <2>1, Zenon
<1>9. \A i \in 1 .. k : c[i + 1] \in DOMAIN f2 /\ f2[c[i + 1]] = Magic
  BY <1>2, <1>4
<1>10. \A x \in DOMAIN f2 : (x \in DOMAIN f /\ f2[x] = f[x]) \/ \E i \in 1 .. k : x = c[i + 1]
  BY <1>2, <1>4
<1>11. \A x \in DOMAIN f : x <= c[1] \/ x > c[k + 1] => x \in DOMAIN f2 /\ f2[x] = f[x]
  <2> SUFFICES ASSUME NEW x \in DOMAIN f, x <= c[1] \/ x > c[k + 1] PROVE x \in DOMAIN f2 /\ f2[x] = f[x]
    OBVIOUS
  <2>1. x \in Int
    BY <1>1
  <2>2. ASSUME NEW i \in 1 .. k PROVE x # p + ends[i]
    <3>1. p + ends[i] = c[i + 1]
      BY DEF EndsAt
    <3>2. c[i + 1] \in Int /\ p < c[i + 1] /\ c[i + 1] <= e
      BY <1>3
    <3>3. x <= p \/ x > e
      BY <1>3
    <3>4. x # c[i + 1]
      BY <1>3, <2>1, <3>2, <3>3
    <3> QED  BY <3>1, <3>4
  <2> QED  BY <1>2, <2>2
<1>12. \A x \in DOMAIN h2 : h2[x] = h[x] \/ \E i \in 1 .. k : x = c[i]
  BY <1>8
<1>13. Split(h, f, h2, f2, c, k)
  BY <1>6, <1>7, <1>9, <1>10, <1>11, <1>12 DEF Split
<1> QED  BY <1>1, <1>2, <1>13

(* The chunk after the last point was written first.                       *)
LEMMA SplitAfterLaid ==
  ASSUME NEW h, NEW f, NEW h1, NEW f1, NEW h2, NEW f2, NEW c, NEW k, NEW j \in Nat, j > 0, k = j + 1,
         NEW p, NEW e, Words(h), DOMAIN f \subseteq Int, Points(c, k, p, e), SplitOf(h, p, e),
         NEW q, q = c[j + 1], NEW s, s = e - q,
         Laid(h, f, h1, f1, q, s, Tag(s, TRUE, TRUE), Magic), Untold(h, h1, e),
         Split(h1, f1, h2, f2, c, j)
  PROVE  Split(h, f, h2, f2, c, k)
<1>1. /\ k \in Nat
      /\ \A i \in 1 .. k : c[i] \in Int /\ c[i + 1] \in Int /\ p <= c[i] /\ c[i] < e /\ p < c[i + 1]
      /\ \A i, l \in 1 .. k : c[i] = c[l] => i = l
      /\ c[1] = p /\ c[k + 1] = e /\ p \in Int /\ e \in Int
  <2>1. /\ k \in Nat /\ p \in Int /\ e \in Int
        /\ \A i \in 1 .. k : c[i] \in Int /\ c[i + 1] \in Int /\ p <= c[i] /\ c[i] < e /\ p < c[i + 1]
        /\ \A i, l \in 1 .. k : c[i] = c[l] => i = l
    BY PointsIs
  <2> QED  BY <2>1 DEF Points
<1>2. q \in Int /\ p < q /\ q < e /\ q + s = e /\ s > 0 /\ s \in Int
  <2>1. j + 1 \in 1 .. k /\ j \in 1 .. k
    BY <1>1
  <2> QED  BY <1>1, <2>1
<1>3. \A i \in 1 .. k : i \in 1 .. j \/ i = j + 1
  BY <1>1
<1>4. \A i \in 1 .. j : i \in 1 .. k /\ c[i] # q
  <2>1. j + 1 \in 1 .. k
    BY <1>1
  <2> QED  BY <1>1, <2>1
<1>5. DOMAIN h \subseteq Int /\ e \in DOMAIN h /\ \A x \in DOMAIN h : x <= p \/ x >= e
  BY DEF Words, SplitOf
<1>6. \A x : x \in DOMAIN h1 <=> (x \in DOMAIN h \/ x = q)
  <2> TAKE x
  <2>1. CASE x = e
    BY <1>2, <1>5, <2>1 DEF Untold
  <2>2. CASE x # e
    <3>1. x \in DOMAIN h1 <=> (x = q \/ (x \in DOMAIN h /\ (x <= q \/ x >= e)))
      BY <1>2, <2>2 DEF Laid
    <3>2. x \in DOMAIN h => x <= q \/ x >= e
      BY <1>2, <1>5, <1>1
    <3> QED  BY <3>1, <3>2
  <2> QED  BY <2>1, <2>2
<1>7. \A x : x \in DOMAIN h2 <=> (x \in DOMAIN h1 \/ \E i \in 1 .. j : x = c[i])
  BY DEF Split
<1>8. \A x : x \in DOMAIN h2 <=> (x \in DOMAIN h \/ \E i \in 1 .. k : x = c[i])
  <2>1. j + 1 \in 1 .. k
    BY <1>1
  <2> QED  BY <1>3, <1>4, <1>6, <1>7, <2>1
<1>9. \A i \in 1 .. k : h2[c[i]] = Tag(c[i + 1] - c[i], TRUE, TRUE)
  <2> TAKE i \in 1 .. k
  <2>1. CASE i \in 1 .. j
    BY <2>1 DEF Split
  <2>2. CASE i = j + 1
    <3>1. h1[q] = Tag(s, TRUE, TRUE)
      BY DEF Laid
    <3>2. q \in DOMAIN h2 /\ ~\E l \in 1 .. j : q = c[l]
      BY <1>4, <1>6, <1>7
    <3>3. h2[q] = h1[q]
      BY <3>2 DEF Split
    <3>4. c[i] = q /\ c[i + 1] = e
      BY <1>1, <2>2
    <3> QED  BY <3>1, <3>3, <3>4
  <2> QED  BY <1>3, <2>1, <2>2
<1>10. \A x \in DOMAIN h2 : h2[x] = h[x] \/ \E i \in 1 .. k : x = c[i]
  <2> SUFFICES ASSUME NEW x \in DOMAIN h2, ~\E i \in 1 .. k : x = c[i] PROVE h2[x] = h[x]
    OBVIOUS
  <2>1. j + 1 \in 1 .. k /\ x # q /\ ~\E i \in 1 .. j : x = c[i]
    BY <1>1, <1>4
  <2>2. h2[x] = h1[x] /\ x \in DOMAIN h1 /\ x \in DOMAIN h
    BY <1>6, <1>7, <2>1 DEF Split
  <2>3. h1[x] = h[x]
    <3>1. CASE x = e
      BY <2>2, <3>1 DEF Untold
    <3>2. CASE x # e
      BY <1>2, <2>1, <2>2, <3>2 DEF Laid
    <3> QED  BY <3>1, <3>2
  <2> QED  BY <2>2, <2>3
<1>11. \A i \in 1 .. k : c[i + 1] \in DOMAIN f2 /\ f2[c[i + 1]] = Magic
  <2> TAKE i \in 1 .. k
  <2>1. CASE i \in 1 .. j
    BY <2>1 DEF Split
  <2>2. CASE i = j + 1
    <3>1. e \in DOMAIN f1 /\ f1[e] = Magic
      BY <1>2 DEF Laid
    <3>2. e > c[j + 1]
      BY <1>2
    <3>3. e \in DOMAIN f2 /\ f2[e] = f1[e]
      BY <3>1, <3>2 DEF Split
    <3>4. c[i + 1] = e
      BY <1>1, <2>2
    <3> QED  BY <3>1, <3>3, <3>4
  <2> QED  BY <1>3, <2>1, <2>2
<1>12. \A x \in DOMAIN f : x <= c[1] \/ x > c[k + 1] => x \in DOMAIN f2 /\ f2[x] = f[x]
  <2> SUFFICES ASSUME NEW x \in DOMAIN f, x <= p \/ x > e PROVE x \in DOMAIN f2 /\ f2[x] = f[x]
    BY <1>1
  <2>1. x \in Int /\ x # e /\ (x <= q \/ x >= q + s) /\ x # q + s /\ (x <= c[1] \/ x > c[j + 1])
    BY <1>1, <1>2
  <2>2. x \in DOMAIN f1 /\ f1[x] = f[x]
    BY <2>1 DEF Laid
  <2> QED  BY <2>1, <2>2 DEF Split
<1>13. \A x \in DOMAIN f2 : (x \in DOMAIN f /\ f2[x] = f[x]) \/ \E i \in 1 .. k : x = c[i + 1]
  <2> SUFFICES ASSUME NEW x \in DOMAIN f2, ~\E i \in 1 .. k : x = c[i + 1] PROVE x \in DOMAIN f /\ f2[x] = f[x]
    OBVIOUS
  <2>1. j + 1 \in 1 .. k /\ x # e /\ ~\E i \in 1 .. j : x = c[i + 1]
    BY <1>1, <1>4
  <2>2. x \in DOMAIN f1 /\ f2[x] = f1[x]
    BY <2>1 DEF Split
  <2> QED  BY <1>2, <2>1, <2>2 DEF Laid
<1> QED  BY <1>8, <1>9, <1>10, <1>11, <1>12, <1>13 DEF Split

(* The first points of a cut are a cut of a shorter span.                  *)
LEMMA PointsPrefix ==
  ASSUME NEW c, NEW k, NEW p, NEW e, Points(c, k, p, e), NEW j \in Nat, j > 0, j <= k
  PROVE  Points(c, j, p, c[j + 1])
BY DEF Points

(* Offsets grow by the padded size of each element.                        *)
LEMMA OffsetBounds ==
  ASSUME NEW w \in Seq(Nat), NEW n, n = Len(w)
  PROVE  /\ n \in Nat /\ Offset(w, 0) = 0
         /\ \A i \in 0 .. n : Offset(w, i) \in Int /\ Offset(w, i) >= 0
         /\ \A i \in 1 .. n : /\ Offset(w, i) = Offset(w, i - 1) + Request2Size(w[i])
                              /\ w[i] \in Nat /\ Request2Size(w[i]) \in Int /\ Request2Size(w[i]) >= MinChunk
<1>1. n \in Nat /\ \A i \in 1 .. n : w[i] \in Nat
  OBVIOUS
<1>2. \A i \in 1 .. n : Request2Size(w[i]) \in Int /\ Request2Size(w[i]) >= MinChunk
  BY <1>1, PaddedIs
<1>3. Offset(w, 0) = 0
  BY OffsetStep
<1>4. \A i \in 1 .. n : Offset(w, i) = Offset(w, i - 1) + Request2Size(w[i])
  <2> TAKE i \in 1 .. n
  <2>1. PICK j : j = i - 1
    OBVIOUS
  <2>2. j \in Nat /\ j + 1 = i
    BY <1>1, <2>1
  <2>3. Offset(w, j + 1) = Offset(w, j) + Request2Size(w[j + 1])
    BY <2>2, OffsetStep
  <2> QED  BY <2>1, <2>2, <2>3
<1>5. \A i \in 0 .. n : Offset(w, i) \in Int /\ Offset(w, i) >= 0
  <2> DEFINE S == {i \in 0 .. n : ~(Offset(w, i) \in Int /\ Offset(w, i) >= 0)}
  <2> SUFFICES ASSUME S # {} PROVE FALSE
    OBVIOUS
  <2>1. S \subseteq Nat
    BY <1>1
  <2>2. PICK i \in S : \A x \in S : i <= x
    BY <2>1, NatMinimum
  <2>3. i \in 0 .. n /\ ~(Offset(w, i) \in Int /\ Offset(w, i) >= 0) /\ i # 0
    BY <1>3
  <2>4. i - 1 \in 0 .. n /\ i - 1 \notin S /\ i \in 1 .. n
    BY <1>1, <2>2, <2>3
  <2>5. Offset(w, i - 1) \in Int /\ Offset(w, i - 1) >= 0
    BY <2>4
  <2>6. MinChunk \in Int /\ MinChunk > 0
    BY ListsAssumption
  <2> QED  BY <1>2, <1>4, <2>3, <2>4, <2>5, <2>6
<1> QED  BY <1>1, <1>2, <1>3, <1>4, <1>5

(* Where the first k chunks begin that a chunk of size s at p is cut into, *)
(* and where the last one ends.                                            *)
Element(w, p, s, k) == [i \in 1 .. k + 1 |-> IF i = k + 1 THEN p + s ELSE p + Offset(w, i - 1)]

(* There are elements, and after them an array or not.                     *)
Count(w, k) == w # <<>> /\ (k = Len(w) \/ k = Len(w) + 1)

(* The elements of a batch, and the array after them, cut the chunk that   *)
(* malloc() returned.                                                      *)
LEMMA ElementPoints ==
  ASSUME NEW w \in Seq(Nat), NEW k, Count(w, k), NEW p \in Int, NEW s \in Int,
         s - Offset(w, k - 1) >= MinChunk, NEW c, c = Element(w, p, s, k), NEW e, e = p + s
  PROVE  Points(c, k, p, e)
<1>1. PICK n : n = Len(w)
  OBVIOUS
<1>2. /\ n \in Nat /\ Offset(w, 0) = 0
      /\ \A i \in 0 .. n : Offset(w, i) \in Int
      /\ \A i \in 1 .. n : /\ Offset(w, i) = Offset(w, i - 1) + Request2Size(w[i])
                           /\ Request2Size(w[i]) \in Int /\ Request2Size(w[i]) >= MinChunk
  BY <1>1, OffsetBounds
<1>3. k \in Nat /\ k > 0 /\ k - 1 <= n
  <2>1. n # 0
    BY <1>1 DEF Count
  <2> QED  BY <1>1, <1>2, <2>1 DEF Count
<1>4. c[1] = p
  <2>1. c[1] = p + Offset(w, 1 - 1)
    BY <1>3 DEF Element
  <2>2. 1 - 1 = 0
    OBVIOUS
  <2> QED  BY <1>2, <2>1, <2>2
<1>5. c[k + 1] = e
  BY <1>3 DEF Element
<1>6. \A i \in 1 .. k : i - 1 \in 0 .. n /\ c[i] = p + Offset(w, i - 1)
  BY <1>2, <1>3 DEF Element
<1>7. \A i \in 1 .. k + 1 : c[i] \in Int
  <2> TAKE i \in 1 .. k + 1
  <2>1. CASE i \in 1 .. k
    BY <1>2, <1>6, <2>1
  <2>2. CASE i = k + 1
    BY <1>5, <2>2
  <2> QED  BY <1>3, <2>1, <2>2
<1>8. \A i \in 1 .. k : c[i + 1] - c[i] >= MinChunk
  <2> TAKE i \in 1 .. k
  <2>1. CASE i = k
    <3>1. c[i + 1] = p + s /\ c[i] = p + Offset(w, k - 1) /\ Offset(w, k - 1) \in Int
      BY <1>2, <1>5, <1>6, <2>1
    <3>2. p + s - (p + Offset(w, k - 1)) = s - Offset(w, k - 1)
      BY <3>1
    <3> QED  BY <3>1, <3>2
  <2>2. CASE i # k
    <3>1. i + 1 \in 1 .. k /\ i \in 1 .. n /\ i + 1 - 1 = i /\ (i + 1) - 1 = i
      BY <1>2, <1>3, <2>2
    <3>2. c[i + 1] = p + Offset(w, i)
      BY <1>6, <3>1
    <3>3. PICK z : z = Request2Size(w[i])
      OBVIOUS
    <3>4. PICK o : o = Offset(w, i - 1)
      OBVIOUS
    <3>5. Offset(w, i) = o + z /\ o \in Int /\ z \in Int /\ z >= MinChunk
      BY <1>2, <1>6, <3>1, <3>3, <3>4
    <3>6. c[i + 1] - c[i] = z
      BY <1>6, <3>2, <3>4, <3>5
    <3> QED  BY <3>5, <3>6
  <2> QED  BY <2>1, <2>2
<1> QED  BY <1>3, <1>4, <1>5, <1>7, <1>8 DEF Points

(* The ends that CutElements computes.                                     *)
LEMMA ElementEnds ==
  ASSUME NEW w \in Seq(Nat), NEW k, Count(w, k), NEW p \in Int, NEW s \in Int,
         NEW c, c = Element(w, p, s, k), NEW n, n = Len(w),
         NEW last, last = IF k = n THEN s ELSE Offset(w, n),
         NEW ends, ends = [i \in 1 .. n |-> IF i = n THEN last ELSE Offset(w, i)]
  PROVE  EndsAt(p, ends, c, n) /\ Len(ends) = n
<1>1. n \in Nat /\ Offset(w, 0) = 0 /\ \A i \in 0 .. n : Offset(w, i) \in Int
  BY OffsetBounds
<1>2. n > 0 /\ (k = n \/ k = n + 1)
  BY <1>1 DEF Count
<1>3. Len(ends) = n
  <2>1. ends \in Seq(Int)
    BY <1>1, <1>2
  <2> QED  BY <1>1, <2>1
<1>4. \A i \in 1 .. n : ends[i] \in Int /\ (i < n => ends[i] = Offset(w, i))
  <2> TAKE i \in 1 .. n
  <2>1. i \in 0 .. n /\ n \in 0 .. n
    BY <1>1
  <2>2. Offset(w, i) \in Int /\ Offset(w, n) \in Int
    BY <1>1, <2>1
  <2> QED  BY <1>1, <2>2
<1>5. ends[n] = last /\ last \in Int
  <2>1. n \in 0 .. n
    BY <1>1
  <2> QED  BY <1>1, <1>2, <2>1
<1>6. \A i \in 1 .. k : c[i] = p + Offset(w, i - 1)
  BY <1>1, <1>2 DEF Element
<1>7. c[k + 1] = p + s
  BY <1>1, <1>2 DEF Element
<1>8. \A i \in 1 .. n : Begin(p, ends, i) = c[i]
  <2> TAKE i \in 1 .. n
  <2>1. i \in 1 .. k
    BY <1>1, <1>2
  <2>2. CASE i = 1
    <3>1. Offset(w, i - 1) = 0
      <4>1. i - 1 = 0
        BY <2>2
      <4> QED  BY <1>1, <4>1
    <3>2. c[i] = p
      BY <1>6, <2>1, <3>1
    <3> QED  BY <2>2, <3>2 DEF Begin
  <2>3. CASE i # 1
    <3>1. i - 1 \in 1 .. n /\ i - 1 < n
      BY <1>1, <2>3
    <3>2. ends[i - 1] = Offset(w, i - 1)
      BY <1>4, <3>1
    <3> QED  BY <1>6, <2>1, <2>3, <3>2 DEF Begin
  <2> QED  BY <2>2, <2>3
<1>9. \A i \in 1 .. n : p + ends[i] = c[i + 1]
  <2> TAKE i \in 1 .. n
  <2>1. CASE i = n /\ k = n
    BY <1>5, <1>7, <2>1
  <2>2. CASE ~(i = n /\ k = n)
    <3>1. i + 1 \in 1 .. k /\ (i + 1) - 1 = i
      BY <1>1, <1>2, <2>2
    <3>2. c[i + 1] = p + Offset(w, i)
      BY <1>6, <3>1
    <3>3. ends[i] = Offset(w, i)
      <4>1. CASE i = n
        BY <1>5, <2>2, <4>1
      <4>2. CASE i # n
        BY <1>1, <1>4, <4>2
      <4> QED  BY <4>1, <4>2
    <3> QED  BY <3>2, <3>3
  <2> QED  BY <2>1, <2>2
<1> QED  BY <1>3, <1>4, <1>8, <1>9 DEF EndsAt

(* The chunk at p is cut into the elements and the array.                  *)
LEMMA CutElementsIs ==
  ASSUME NEW m, Grown(m), NEW p \in UsedIn(m.head), UsedBefore(m.head, p), NEW s, s = m.head[p].size,
         NEW w \in Seq(Nat), NEW own \in BOOLEAN, NEW k, k = IF own THEN Len(w) + 1 ELSE Len(w),
         w # <<>>, s - Offset(w, k - 1) >= MinChunk, NEW contents, contents = Offset(w, Len(w)),
         NEW n, n = CutElements(CutArray(m, p, contents, s, own), p, w, IF own THEN contents ELSE s)
  PROVE  Shared(m, n, p, Element(w, p, s, k), k)
<1>1. PICK j : j = Len(w)
  OBVIOUS
<1>2. PICK c : c = Element(w, p, s, k)
  OBVIOUS
<1>3. j \in Nat /\ j > 0 /\ Count(w, k) /\ k \in Nat
  BY <1>1 DEF Count
<1>4. PICK e : e = End(m.head, p)
  OBVIOUS
<1>5. p \in Int /\ e \in Int /\ s = e - p /\ s \in Int /\ e = p + s
  <2>1. p \in Int /\ e \in Int /\ s = e - p
    BY <1>4, LoneChunk
  <2> QED  BY <2>1
<1>6. Points(c, k, p, e)
  BY <1>2, <1>3, <1>5, ElementPoints
<1>7. PICK last : last = IF own THEN contents ELSE s
  OBVIOUS
<1>8. PICK ends : ends = [i \in 1 .. j |-> IF i = j THEN last ELSE Offset(w, i)]
  OBVIOUS
<1>9. EndsAt(p, ends, c, j) /\ Len(ends) = j
  <2>1. last = IF k = j THEN s ELSE Offset(w, j)
    BY <1>1, <1>3, <1>7
  <2> QED  BY <1>1, <1>2, <1>3, <1>5, <1>8, <2>1, ElementEnds
<1>10. DOMAIN m = HeapFields /\ DOMAIN m.foot \subseteq Int /\ Words(m.head)
       /\ Segment(m.head, m.foot, m.segbase, m.top, m.topsize)
  BY GrownIs
<1>11. PICK l : l = CutArray(m, p, contents, s, own)
  OBVIOUS
<1>12. n = SplitAt(l, p, ends)
  BY <1>1, <1>7, <1>8, <1>11 DEF CutElements
<1>13. KeepsTags(m, n) /\ Split(m.head, m.foot, n.head, n.foot, c, k)
  <2>1. CASE ~own
    <3>1. l = m /\ k = j
      BY <1>1, <1>11, <2>1 DEF CutArray
    <3> QED  BY <1>6, <1>9, <1>10, <1>12, <3>1, SplitAtIs
  <2>2. CASE own
    <3>1. k = j + 1 /\ l = SetSizeAndPinuseOfInuseChunk(m, p + contents, s - contents)
      BY <1>1, <1>11, <2>2 DEF CutArray
    <3>2. PICK q, z : q = c[j + 1] /\ z = e - q
      OBVIOUS
    <3>3. contents \in Int /\ q = p + contents /\ s - contents = z /\ z > 0 /\ q \in Int /\ z \in Int
          /\ q + z = e
      <4>1. contents \in Int
        BY <1>1, <1>3, OffsetBounds
      <4>2. c[j + 1] = p + Offset(w, (j + 1) - 1) /\ (j + 1) - 1 = j
        BY <1>2, <1>3, <3>1 DEF Element
      <4>3. q = p + contents
        BY <1>1, <3>2, <4>2
      <4>4. s - contents >= MinChunk
        BY <1>1, <1>3, <3>1
      <4>5. MinChunk \in Int /\ MinChunk > 0
        BY ListsAssumption
      <4>6. PICK y : y = contents
        OBVIOUS
      <4>7. y \in Int /\ q = p + y /\ s - y >= MinChunk
        BY <4>1, <4>3, <4>4, <4>6
      <4>8. z = e - q
        BY <3>2
      <4>9. q = p + y /\ s - y = z /\ z > 0 /\ q \in Int /\ z \in Int /\ q + z = e
        BY <1>5, <4>5, <4>7, <4>8
      <4> QED  BY <4>1, <4>6, <4>9
    <3>4. /\ KeepsTags(m, l)
          /\ Laid(m.head, m.foot, l.head, l.foot, q, z, Tag(z, TRUE, TRUE), Magic)
          /\ Untold(m.head, l.head, e)
      <4>1. l = SetSizeAndPinuseOfInuseChunk(m, q, z)
        BY <3>1, <3>3
      <4>2. /\ KeepsTags(m, l)
            /\ Laid(m.head, m.foot, l.head, l.foot, q, z, Tag(z, TRUE, TRUE), Magic)
            /\ Untold(m.head, l.head, q + z)
        BY <1>10, <3>3, <4>1, SetSizeAndPinuseOfInuseChunkIs
      <4> QED  BY <3>3, <4>2
    <3>5. DOMAIN l = HeapFields /\ DOMAIN l.foot \subseteq Int
      <4>1. DOMAIN l = HeapFields
        BY <3>4 DEF KeepsTags, Keeps
      <4>2. ASSUME NEW x \in DOMAIN l.foot PROVE x \in Int
        <5>1. x = q + z \/ x \in DOMAIN m.foot
          BY <3>4 DEF Laid
        <5> QED  BY <1>10, <3>3, <5>1
      <4> QED  BY <4>1, <4>2
    <3>6. Points(c, j, p, q)
      <4>1. j <= k
        BY <1>3, <3>1
      <4>2. Points(c, j, p, c[j + 1])
        BY <1>3, <1>6, <4>1, PointsPrefix
      <4> QED  BY <3>2, <4>2
    <3>7. KeepsTags(l, n) /\ Split(l.head, l.foot, n.head, n.foot, c, j)
      BY <1>9, <1>12, <3>5, <3>6, SplitAtIs
    <3>8. SplitOf(m.head, p, e)
      <4>1. p \in DOMAIN m.head /\ m.head[p].cinuse
        BY DEF UsedIn
      <4>2. GoodChunk(m.head, m.foot, p, m.top) /\ e \in DOMAIN m.head
        BY <1>4, <1>10, <4>1, ChunkIs
      <4>3. UsedBefore(m.head, e)
        <5>1. m.head[e].pinuse = m.head[p].cinuse
          BY <1>4, <4>2 DEF GoodChunk
        <5> QED  BY <5>1, Zenon DEF UsedBefore, UsedIn
      <4>4. \A x \in DOMAIN m.head : x <= p \/ x >= e
        BY <1>4, <4>2 DEF GoodChunk
      <4> QED  BY <4>1, <4>2, <4>3, <4>4 DEF SplitOf
    <3>9. Split(m.head, m.foot, n.head, n.foot, c, k)
      <4>1. k = j + 1 /\ q = c[j + 1] /\ z = e - q /\ j \in Nat /\ j > 0
        BY <1>3, <3>1, <3>2
      <4> QED  BY <1>6, <1>10, <3>4, <3>7, <3>8, <4>1, SplitAfterLaid
    <3>10. KeepsTags(m, n)
      BY <3>4, <3>7 DEF KeepsTags, Keeps
    <3> QED  BY <3>9, <3>10
  <2> QED  BY <2>1, <2>2
<1> QED  BY <1>2, <1>4, <1>6, <1>13, SplitShared

(* No chunk is as large as what malloc() looks for on behalf of a request  *)
(* that is too large.                                                      *)
LEMMA GivenSize ==
  ASSUME NEW m, NEW g, NEW p, NEW r \in Nat, Given(m, g, p, SizeFor(r))
  PROVE  r < MaxRequest
<1>1. Grown(g) /\ p \in UsedIn(g.head) /\ SizeFor(r) <= g.head[p].size
  BY DEF Given
<1>2. g.head[p].size \in MinChunk .. HeapSize
  <2>1. Segment(g.head, g.foot, g.segbase, g.top, g.topsize)
    BY <1>1, GrownIs
  <2>2. p \in DOMAIN g.head /\ g.head[p].cinuse
    BY <1>1 DEF UsedIn
  <2> QED  BY <2>1, <2>2, ChunkIs
<1>3. HeapSize < MaxSize /\ MaxSize \in Int /\ HeapSize \in Int /\ MinChunk \in Int /\ MaxRequest \in Int
  BY HeapAssumption, ListsAssumption DEF HalfMax, MaxSize, MaxRequest
<1>4. PICK z : z = g.head[p].size
  OBVIOUS
<1> SUFFICES ASSUME r >= MaxRequest PROVE FALSE
  BY <1>3
<1>5. SizeFor(r) = MaxSize
  BY DEF SizeFor
<1> QED  BY <1>1, <1>2, <1>3, <1>4, <1>5

(* The chunks given, out of the one that malloc() gave.                    *)
Handed(m, n, c, k) ==
  /\ Grown(n) /\ Called(m, n)
  /\ UsedIn(n.head) = UsedIn(m.head) \cup {c[i] : i \in 1 .. k}
  /\ SizesKept(m.head, n.head, UsedIn(m.head))
  /\ \A i \in 1 .. k : n.head[c[i]].size = c[i + 1] - c[i] /\ c[i] \notin UsedIn(m.head)

(* A chunk that a call was given and that was cut: the call was given the  *)
(* parts.                                                                  *)
LEMMA SharedHanded ==
  ASSUME NEW m, NEW g, NEW p, NEW nb, Given(m, g, p, nb), NEW n, NEW c, NEW k, Shared(g, n, p, c, k)
  PROVE  Handed(m, n, c, k)
<1>1. /\ UsedIn(g.head) = UsedIn(m.head) \cup {p} /\ p \notin UsedIn(m.head)
      /\ SizesKept(m.head, g.head, UsedIn(m.head)) /\ Called(m, g)
  BY DEF Given
<1>2. /\ Grown(n) /\ KeepsTags(g, n)
      /\ UsedIn(n.head) = (UsedIn(g.head) \ {p}) \cup {c[i] : i \in 1 .. k}
      /\ SizesKept(g.head, n.head, UsedIn(g.head) \ {p})
      /\ \A i \in 1 .. k : n.head[c[i]].size = c[i + 1] - c[i] /\ c[i] \notin UsedIn(g.head) \ {p}
  BY DEF Shared
<1>3. UsedIn(g.head) \ {p} = UsedIn(m.head)
  BY <1>1
<1>4. SizesKept(m.head, n.head, UsedIn(m.head))
  BY <1>1, <1>2, <1>3 DEF SizesKept
<1>5. Called(m, n)
  <2>1. Keeps(g, n, StillFields)
    BY <1>2 DEF Keeps, KeepsTags, StillFields, ChunkFields
  <2> QED  BY <1>1, <2>1, StillCalled, CalledTwice
<1> QED  BY <1>2, <1>3, <1>4, <1>5 DEF Handed

(* What was asked for the i-th chunk of a batch: an element, or the array. *)
Wanted(w, i) == IF i <= Len(w) THEN w[i] ELSE (Len(w) + 1) \div 2
Parts(w, own) == IF own THEN Len(w) + 1 ELSE Len(w)

(* The call gave the chunks at c, of the sizes asked for or a little more, *)
(* or nothing.                                                             *)
BatchAt(res, w, own, c) ==
  /\ res.elements = [i \in 1 .. Len(w) |-> c[i]]
  /\ res.array = IF own THEN c[Len(w) + 1] ELSE NULL
  /\ \A i \in 1 .. Parts(w, own) :
       /\ c[i] # NULL
       /\ Request2Size(Wanted(w, i)) <= c[i + 1] - c[i]
       /\ c[i + 1] - c[i] <= Request2Size(Wanted(w, i)) + MinChunk
  /\ \A i, j \in 1 .. Parts(w, own) : c[i] = c[j] => i = j

Batched(m, res, w, own) ==
  \/ res.elements = <<>> /\ res.array = NULL /\ Left(m, res.heap, UsedIn(m.head))
  \/ \E c : Handed(m, res.heap, c, Parts(w, own)) /\ BatchAt(res, w, own, c)

(* The sizes of the parts of a chunk that is large enough, and not much    *)
(* larger.                                                                 *)
LEMMA PartSizes ==
  ASSUME NEW w \in Seq(Nat), w # <<>>, NEW own \in BOOLEAN, NEW p \in Int, NEW s \in Int,
         NEW nb, nb = Offset(w, Len(w)) + ArraySize(Len(w), own), nb <= s, s <= nb + MinChunk,
         NEW k, k = Parts(w, own), NEW c, c = Element(w, p, s, k)
  PROVE  /\ s - Offset(w, k - 1) >= MinChunk
         /\ \A i \in 1 .. k : /\ Request2Size(Wanted(w, i)) <= c[i + 1] - c[i]
                              /\ c[i + 1] - c[i] <= Request2Size(Wanted(w, i)) + MinChunk
<1>1. PICK n : n = Len(w)
  OBVIOUS
<1>2. /\ n \in Nat /\ \A i \in 0 .. n : Offset(w, i) \in Int
      /\ \A i \in 1 .. n : /\ Offset(w, i) = Offset(w, i - 1) + Request2Size(w[i])
                           /\ Request2Size(w[i]) \in Int /\ Request2Size(w[i]) >= MinChunk
  BY <1>1, OffsetBounds
<1>3. n > 0 /\ MinChunk \in Int /\ MinChunk > 0
  BY <1>1, <1>2, ListsAssumption
<1>4. PICK y : y = s - Offset(w, n)
  OBVIOUS
<1>5. PICK a : a = Request2Size((n + 1) \div 2)
  OBVIOUS
<1>6. a \in Int /\ a >= MinChunk
  <2>1. (n + 1) \div 2 \in Nat
    BY <1>2
  <2> QED  BY <1>5, <2>1, PaddedIs
<1>7. Offset(w, n) \in Int /\ y \in Int
  <2>1. n \in 0 .. n
    BY <1>2
  <2> QED  BY <1>2, <1>4, <2>1
<1>8. ASSUME own PROVE a <= y /\ y <= a + MinChunk
  <2>1. nb = Offset(w, n) + a
    BY <1>1, <1>5, <1>8 DEF ArraySize
  <2>2. PICK o : o = Offset(w, n)
    OBVIOUS
  <2>3. y = s - o /\ o \in Int
    BY <1>4, <1>7, <2>2
  <2>4. nb = o + a
    BY <2>1, <2>2
  <2>5. nb <= s /\ s <= nb + MinChunk
    OBVIOUS
  <2>6. o \in Int /\ s \in Int /\ a \in Int /\ MinChunk \in Int
    BY <1>3, <1>6, <2>3
  <2>7. a <= s - o
    BY Z3, <2>4, <2>5, <2>6
  <2>8. s - o <= a + MinChunk
    BY Z3, <2>4, <2>5, <2>6
  <2> QED  BY <2>3, <2>7, <2>8
<1>9. ~own => 0 <= y /\ y <= MinChunk
  <2>1. ~own => nb = Offset(w, n) + 0
    BY <1>1 DEF ArraySize
  <2>2. PICK o : o = Offset(w, n)
    OBVIOUS
  <2>3. y = s - o /\ o \in Int
    BY <1>4, <1>7, <2>2
  <2>4. ~own => nb = o
    BY <2>1, <2>2, <2>3
  <2> QED  BY <1>3, <2>3, <2>4
<1>10. (own /\ k = n + 1) \/ (~own /\ k = n)
  BY <1>1 DEF Parts
<1>11. PICK b : b = Request2Size(w[n])
  OBVIOUS
<1>12. b \in Int /\ b >= MinChunk /\ Offset(w, n) = Offset(w, n - 1) + b /\ Offset(w, n - 1) \in Int
  <2>1. n \in 1 .. n /\ n - 1 \in 0 .. n
    BY <1>2, <1>3
  <2> QED  BY <1>2, <1>11, <2>1
<1>13. s - Offset(w, n - 1) = y + b
  <2>1. PICK o : o = Offset(w, n - 1)
    OBVIOUS
  <2>2. y = s - (o + b) /\ o \in Int
    BY <1>4, <1>12, <2>1
  <2> QED  BY <1>12, <2>1, <2>2
<1>14. \A i \in 1 .. k : c[i] = p + Offset(w, i - 1)
  BY <1>2, <1>10 DEF Element
<1>15. c[k + 1] = p + s
  BY <1>2, <1>10 DEF Element
<1>16. ASSUME NEW i \in 1 .. k, i < k
       PROVE  c[i + 1] - c[i] = Request2Size(w[i]) /\ i \in 1 .. n /\ Request2Size(w[i]) \in Int
  <2>1. i \in 1 .. n /\ i + 1 \in 1 .. k /\ (i + 1) - 1 = i /\ i - 1 \in 0 .. n
    BY <1>2, <1>10, <1>16
  <2>2. PICK o, z : o = Offset(w, i - 1) /\ z = Request2Size(w[i])
    OBVIOUS
  <2>3. Offset(w, i) = o + z /\ o \in Int /\ z \in Int
    BY <1>2, <2>1, <2>2
  <2>4. c[i] = p + o
    BY <1>14, <2>2
  <2>5. c[i + 1] = p + (o + z)
    <3>1. c[i + 1] = p + Offset(w, (i + 1) - 1)
      BY <1>14, <2>1
    <3>2. (i + 1) - 1 = i
      BY <2>1
    <3> QED  BY <2>3, <3>1, <3>2
  <2>6. c[i + 1] - c[i] = z
    BY <2>3, <2>4, <2>5
  <2> QED  BY <2>1, <2>2, <2>3, <2>6
<1>17. CASE own
  <2>0. a <= y /\ y <= a + MinChunk
    BY <1>8, <1>17
  <2>00. k = n + 1
    BY <1>1, <1>17 DEF Parts
  <2>1. k = n + 1 /\ k - 1 = n /\ a <= y /\ y <= a + MinChunk
    BY <1>2, <2>0, <2>00
  <2>2. s - Offset(w, k - 1) >= MinChunk
    <3>1. s - Offset(w, k - 1) = y
      BY <1>4, <2>1
    <3> QED  BY <1>3, <1>6, <1>7, <2>1, <3>1
  <2>3. ASSUME NEW i \in 1 .. k
        PROVE  /\ Request2Size(Wanted(w, i)) <= c[i + 1] - c[i]
               /\ c[i + 1] - c[i] <= Request2Size(Wanted(w, i)) + MinChunk
    <3>1. CASE i < k
      <4>1. Wanted(w, i) = w[i]
        BY <1>1, <1>2, <1>16, <3>1 DEF Wanted
      <4>2. PICK z : z = Request2Size(w[i])
        OBVIOUS
      <4>3. c[i + 1] - c[i] = z /\ z \in Int
        BY <1>16, <3>1, <4>2
      <4>4. z <= z /\ z <= z + MinChunk
        BY <1>3, <4>3
      <4> QED  BY <4>1, <4>2, <4>3, <4>4
    <3>2. CASE i = k
      <4>1. Wanted(w, i) = (n + 1) \div 2
        BY <1>1, <1>2, <2>1, <3>2 DEF Wanted
      <4>2. c[i + 1] - c[i] = y
        <5>1. c[i + 1] = p + s
          BY <1>15, <3>2
        <5>2. c[i] = p + Offset(w, n)
          BY <1>14, <2>1, <3>2
        <5>3. PICK o : o = Offset(w, n)
          OBVIOUS
        <5>4. c[i] = p + o /\ o \in Int /\ y = s - o
          BY <1>4, <1>7, <5>2, <5>3
        <5> QED  BY <5>1, <5>4
      <4> QED  BY <1>5, <2>1, <4>1, <4>2
    <3> QED  BY <1>2, <2>1, <3>1, <3>2
  <2> QED  BY <2>2, <2>3
<1>18. CASE ~own
  <2>1. k = n /\ 0 <= y /\ y <= MinChunk
    BY <1>9, <1>10, <1>18
  <2>2. s - Offset(w, k - 1) >= MinChunk
    <3>1. s - Offset(w, k - 1) = y + b
      BY <1>13, <2>1
    <3> QED  BY <1>3, <1>7, <1>12, <2>1, <3>1
  <2>3. ASSUME NEW i \in 1 .. k
        PROVE  /\ Request2Size(Wanted(w, i)) <= c[i + 1] - c[i]
               /\ c[i + 1] - c[i] <= Request2Size(Wanted(w, i)) + MinChunk
    <3>0. Wanted(w, i) = w[i]
      BY <1>1, <1>2, <2>1 DEF Wanted
    <3>1. CASE i < k
      <4>2. PICK z : z = Request2Size(w[i])
        OBVIOUS
      <4>3. c[i + 1] - c[i] = z /\ z \in Int
        BY <1>16, <3>1, <4>2
      <4>4. z <= z /\ z <= z + MinChunk
        BY <1>3, <4>3
      <4> QED  BY <3>0, <4>2, <4>3, <4>4
    <3>2. CASE i = k
      <4>1. Request2Size(Wanted(w, i)) = b
        BY <1>11, <2>1, <3>0, <3>2
      <4>2. c[i + 1] - c[i] = y + b
        <5>1. c[i + 1] = p + s
          BY <1>15, <3>2
        <5>2. c[i] = p + Offset(w, n - 1)
          BY <1>14, <2>1, <3>2
        <5>3. PICK o : o = Offset(w, n - 1)
          OBVIOUS
        <5>4. c[i] = p + o /\ o \in Int /\ y + b = s - o
          BY <1>12, <1>13, <5>2, <5>3
        <5>5. c[i + 1] - c[i] = s - o
          BY <5>1, <5>4
        <5> QED  BY <5>4, <5>5
      <4>3. b <= y + b /\ y + b <= b + MinChunk
        BY <1>3, <1>7, <1>12, <2>1
      <4> QED  BY <4>1, <4>2, <4>3
    <3> QED  BY <1>2, <2>1, <3>1, <3>2
  <2> QED  BY <2>2, <2>3
<1> QED  BY <1>17, <1>18

(* What is asked of malloc() for a batch.                                  *)
BatchRequest(w, own) == Offset(w, Len(w)) + ArraySize(Len(w), own) - Overhead

(* ialloc's request is one that malloc() pads to the sum of the elements   *)
(* and the array.                                                          *)
LEMMA BatchRequestIs ==
  ASSUME NEW w \in Seq(Nat), w # <<>>, NEW own \in BOOLEAN, NEW r, r = BatchRequest(w, own)
  PROVE  /\ r \in Nat /\ Request2Size(r) = Offset(w, Len(w)) + ArraySize(Len(w), own)
         /\ Offset(w, Len(w)) + ArraySize(Len(w), own) \in Int
<1>1. PICK n : n = Len(w)
  OBVIOUS
<1>2. /\ n \in Nat /\ \A i \in 0 .. n : Offset(w, i) \in Int /\ Offset(w, i) >= 0
      /\ \A i \in 1 .. n : /\ Offset(w, i) = Offset(w, i - 1) + Request2Size(w[i])
                           /\ Request2Size(w[i]) \in Int /\ Request2Size(w[i]) >= MinChunk
  BY <1>1, OffsetBounds
<1>3. n \in 1 .. n /\ n - 1 \in 0 .. n
  BY <1>1, <1>2
<1>4. PICK o, b, o2 : o = Offset(w, n) /\ b = Request2Size(w[n]) /\ o2 = Offset(w, n - 1)
  OBVIOUS
<1>5. o = o2 + b /\ b \in Int /\ b >= MinChunk /\ o2 \in Int /\ o2 >= 0
  BY <1>2, <1>3, <1>4
<1>6. PICK a : a = ArraySize(Len(w), own)
  OBVIOUS
<1>7. a \in Int /\ a >= 0
  <2>1. CASE own
    <3>1. (n + 1) \div 2 \in Nat
      BY <1>2
    <3>2. a = Request2Size((n + 1) \div 2)
      BY <1>1, <1>6, <2>1 DEF ArraySize
    <3> QED  BY <3>1, <3>2, PaddedIs, ListsAssumption
  <2>2. CASE ~own
    BY <1>6, <2>2 DEF ArraySize
  <2> QED  BY <2>1, <2>2
<1>8. r = o + a - Overhead
  BY <1>1, <1>4, <1>6 DEF BatchRequest
<1>9. MinChunk \in Nat /\ Overhead \in Nat /\ Overhead < MinChunk
  BY ListsAssumption, TagsAssumption
<1>10. o \in Int /\ o + a \in Int /\ o + a >= MinChunk
  BY <1>5, <1>7, <1>9
<1>11. r \in Nat /\ r + Overhead = o + a
  BY <1>8, <1>9, <1>10, <1>7
<1>12. Request2Size(r) = o + a
  BY <1>9, <1>10, <1>11 DEF Request2Size
<1> QED  BY <1>1, <1>4, <1>6, <1>10, <1>11, <1>12

(* The addresses that ialloc stores are those of the parts.                *)
LEMMA BatchPlaces ==
  ASSUME NEW w \in Seq(Nat), w # <<>>, NEW own \in BOOLEAN, NEW p \in Int, NEW s \in Int,
         NEW k, k = Parts(w, own), NEW c, c = Element(w, p, s, k)
  PROVE  /\ [i \in 1 .. Len(w) |-> p + Offset(w, i - 1)] = [i \in 1 .. Len(w) |-> c[i]]
         /\ IF own THEN p + Offset(w, Len(w)) = c[Len(w) + 1] ELSE TRUE
<1>1. PICK n : n = Len(w)
  OBVIOUS
<1>2. n \in Nat
  BY <1>1
<1>3. CASE own
  <2>1. k = n + 1
    BY <1>1, <1>3 DEF Parts
  <2>2. \A i \in 1 .. n + 1 : c[i] = p + Offset(w, i - 1)
    BY <1>2, <2>1 DEF Element
  <2>3. n + 1 \in 1 .. n + 1 /\ (n + 1) - 1 = n
    BY <1>2
  <2>4. c[n + 1] = p + Offset(w, (n + 1) - 1)
    BY <2>2, <2>3
  <2>5. \A i \in 1 .. n : c[i] = p + Offset(w, i - 1)
    BY <1>2, <2>2
  <2> QED  BY <1>1, <2>3, <2>4, <2>5
<1>4. CASE ~own
  <2>1. k = n
    BY <1>1, <1>4 DEF Parts
  <2>2. \A i \in 1 .. n : c[i] = p + Offset(w, i - 1)
    BY <1>2, <2>1 DEF Element
  <2> QED  BY <1>1, <1>4, <2>2
<1> QED  BY <1>3, <1>4

(* The chunk that malloc() gave is shared out.                             *)
LEMMA DistributeIs ==
  ASSUME NEW m, NEW w \in Seq(Nat), w # <<>>, NEW own \in BOOLEAN, NEW nb,
         nb = Offset(w, Len(w)) + ArraySize(Len(w), own), nb \in Int,
         NEW got, got.mem # NULL, Given(m, got.heap, got.mem, nb), Packed(got),
         NEW res, res = Distribute(got, w, own)
  PROVE  Batched(m, res, w, own)
<1>1. PICK g, p, s : g = got.heap /\ p = got.mem /\ s = g.head[p].size
  OBVIOUS
<1>2. /\ Grown(g) /\ p \in UsedIn(g.head) /\ UsedBefore(g.head, p)
      /\ s \in Int /\ nb <= s /\ s <= nb + MinChunk
  BY <1>1 DEF Given, Packed
<1>3. p \in Int
  BY <1>2, UsedChunkIs
<1>4. PICK k : k = Parts(w, own)
  OBVIOUS
<1>5. k = IF own THEN Len(w) + 1 ELSE Len(w)
  BY <1>4 DEF Parts
<1>6. PICK c : c = Element(w, p, s, k)
  OBVIOUS
<1>7. /\ s - Offset(w, k - 1) >= MinChunk
      /\ \A i \in 1 .. k : /\ Request2Size(Wanted(w, i)) <= c[i + 1] - c[i]
                           /\ c[i + 1] - c[i] <= Request2Size(Wanted(w, i)) + MinChunk
  BY <1>2, <1>3, <1>4, <1>6, PartSizes
<1>8. PICK contents : contents = Offset(w, Len(w))
  OBVIOUS
<1>9. PICK n : n = CutElements(CutArray(g, p, contents, s, own), p, w, IF own THEN contents ELSE s)
  OBVIOUS
<1>10. res = [heap |-> n, elements |-> [i \in 1 .. Len(w) |-> p + Offset(w, i - 1)],
              array |-> IF own THEN p + contents ELSE NULL]
  BY Zenon, <1>1, <1>8, <1>9 DEF Distribute, ChunkSize
<1>11. Shared(g, n, p, c, k)
  BY <1>1, <1>2, <1>3, <1>5, <1>6, <1>7, <1>8, <1>9, CutElementsIs
<1>12. Handed(m, n, c, k)
  BY <1>1, <1>11, SharedHanded
<1>13. Count(w, k)
  <2>1. CASE own
    BY <1>5, <2>1 DEF Count
  <2>2. CASE ~own
    BY <1>5, <2>2 DEF Count
  <2> QED  BY <2>1, <2>2
<1>14. Points(c, k, p, p + s)
  BY <1>2, <1>3, <1>6, <1>7, <1>13, ElementPoints
<1>15. \A i, j \in 1 .. k : c[i] = c[j] => i = j
  BY <1>14, PointsIs
<1>16. \A i \in 1 .. k : c[i] # NULL
  <2>1. \A i \in 1 .. k : c[i] \in UsedIn(n.head)
    BY <1>12 DEF Handed
  <2>2. Grown(n)
    BY <1>12 DEF Handed
  <2> QED  BY <2>1, <2>2, UsedChunkIs
<1>17. /\ [i \in 1 .. Len(w) |-> p + Offset(w, i - 1)] = [i \in 1 .. Len(w) |-> c[i]]
       /\ IF own THEN p + Offset(w, Len(w)) = c[Len(w) + 1] ELSE TRUE
  BY <1>2, <1>3, <1>4, <1>6, BatchPlaces
<1>18. res.heap = n /\ res.elements = [i \in 1 .. Len(w) |-> c[i]]
  BY <1>10, <1>17
<1>19. res.array = IF own THEN c[Len(w) + 1] ELSE NULL
  BY <1>8, <1>10, <1>17
<1>20. BatchAt(res, w, own, c)
  BY <1>4, <1>7, <1>15, <1>16, <1>18, <1>19 DEF BatchAt
<1> QED  BY <1>4, <1>12, <1>18, <1>20 DEF Batched

(* independent_comalloc() gives distinct blocks of the sizes asked for,    *)
(* and with them the array of their addresses if it was asked to allocate  *)
(* it; or it gives nothing.  Every other block stays as it was.            *)
THEOREM ComallocKeepsHeap ==
  ASSUME NEW m, Heap(m), NEW w \in Seq(Nat), w # <<>>, NEW own \in BOOLEAN,
         NEW res, res = Ialloc(m, w, own)
  PROVE  Batched(m, res, w, own)
<1>1. PICK r : r = BatchRequest(w, own)
  OBVIOUS
<1>2. PICK nb : nb = Offset(w, Len(w)) + ArraySize(Len(w), own)
  OBVIOUS
<1>3. r \in Nat /\ Request2Size(r) = nb /\ nb \in Int
  BY <1>1, <1>2, BatchRequestIs
<1>4. PICK got : got = DlMalloc(m, r)
  OBVIOUS
<1>5. Served(m, got, SizeFor(r)) /\ Packed(got)
  BY <1>3, <1>4, MallocKeepsHeap
<1>6. res = Distribute(got, w, own)
  BY Zenon, <1>1, <1>4 DEF Ialloc, BatchRequest
<1>7. CASE got.mem = NULL
  <2>1. res = [heap |-> got.heap, elements |-> <<>>, array |-> NULL]
    BY Zenon, <1>6, <1>7 DEF Distribute
  <2>2. Left(m, got.heap, UsedIn(m.head))
    BY <1>5, <1>7 DEF Served
  <2> QED  BY <2>1, <2>2 DEF Batched
<1>8. CASE got.mem # NULL
  <2>1. Given(m, got.heap, got.mem, SizeFor(r))
    BY <1>5, <1>8 DEF Served
  <2>2. r < MaxRequest
    BY <1>3, <2>1, GivenSize
  <2>3. SizeFor(r) = nb
    BY <1>3, <2>2, SizeForIs
  <2>4. Given(m, got.heap, got.mem, nb)
    BY <2>1, <2>3
  <2> QED  BY <1>2, <1>3, <1>5, <1>6, <1>8, <2>4, DistributeIs
<1> QED  BY <1>7, <1>8

-----------------------------------------------------------------------------
(* bulk_free                                                               *)

(* Two chunks in use that are neighbours, at p and q, became one.          *)
Merged(m, n, p, q) ==
  /\ Grown(n) /\ UsedIn(n.head) = UsedIn(m.head) \ {q}
  /\ SizesKept(m.head, n.head, UsedIn(m.head) \ {p, q})
  /\ Called(m, n)

(* bulk_free makes one chunk in use of two adjacent ones.                  *)
LEMMA MergeIs ==
  ASSUME NEW m, Grown(m), NEW p \in UsedIn(m.head), NEW q \in UsedIn(m.head), q = End(m.head, p),
         NEW s, s = m.head[p].size + m.head[q].size, NEW n, n = SetInuse(m, p, s)
  PROVE  Merged(m, n, p, q)
<1>1. PICK e : e = End(m.head, q)
  OBVIOUS
<1>2. PICK F, U : F = FreeIn(m.head, m.top) /\ U = UsedIn(m.head)
  OBVIOUS
<1>3. /\ Lone(m, p, q) /\ p \in Int /\ q \in Int /\ m.head[p].size = q - p /\ q - p >= MinChunk
      /\ F = F \ (p .. q-1)
  BY <1>2, LoneChunk
<1>4. /\ Lone(m, q, e) /\ e \in Int /\ m.head[q].size = e - q /\ e - q >= MinChunk
      /\ F = F \ (q .. e-1)
  BY <1>1, <1>2, LoneChunk
<1>5. /\ p \in DOMAIN m.head /\ e \in DOMAIN m.head /\ e <= m.top
      /\ U \ (p .. q-1) = U \ {p} /\ U \ (q .. e-1) = U \ {q}
  BY <1>2, <1>3, <1>4 DEF Lone
<1>6. MinChunk \in Int /\ MinChunk > 0
  BY ListsAssumption
<1>7. s = e - p /\ e - p >= MinChunk /\ p < q /\ q < e
  BY <1>3, <1>4, <1>6
<1>8. \A x : x \in p .. e-1 <=> x \in p .. q-1 \/ x \in q .. e-1
  BY <1>3, <1>4, <1>7
<1>9. F = F \ (p .. e-1)
  BY <1>3, <1>4, <1>8
<1>10. U \ (p .. e-1) = U \ {p, q}
  BY <1>5, <1>8
<1>11. Sound(m, F)
  BY <1>2 DEF Grown
<1>12. SpanTaken(m, n, p, e)
  BY <1>2, <1>5, <1>7, <1>9, <1>11, TakeSpan
<1>13. /\ Grown(n) /\ KeepsTags(m, n) /\ UsedIn(n.head) = (U \ (p .. e-1)) \cup {p}
       /\ \A x \in U : x \notin p .. e-1 => n.head[x].size = m.head[x].size
  BY <1>2, <1>12 DEF SpanTaken
<1>14. UsedIn(n.head) = U \ {q}
  BY <1>2, <1>3, <1>7, <1>10, <1>13
<1>15. SizesKept(m.head, n.head, U \ {p, q})
  BY <1>10, <1>13 DEF SizesKept
<1>16. Called(m, n) /\ n.brk = m.brk
  <2>1. Keeps(m, n, StillFields)
    BY <1>13 DEF Keeps, KeepsTags, StillFields, ChunkFields
  <2> QED  BY <2>1, StillCalled
<1> QED  BY <1>2, <1>13, <1>14, <1>15, <1>16 DEF Merged

(* What an iteration of the loop makes of the heap: the first chunk of     *)
(* what is left of the array takes the second one in, or is freed.         *)
Disposed(m, n, p) ==
  /\ Grown(n) /\ UsedIn(n.head) = UsedIn(m.head) \ {p}
  /\ SizesKept(m.head, n.head, UsedIn(m.head) \ {p})
  /\ Called(m, n)

(* An iteration of the loop of bulk_free() passes the runtime checks, and  *)
(* takes one chunk away: the chunk it merges into the one before it, or    *)
(* the one that it frees.                                                  *)
THEOREM BulkFreeStepKeepsHeap ==
  ASSUME NEW m, Grown(m), NEW p \in UsedIn(m.head), NEW rest, rest # <<>> => Head(rest) \in UsedIn(m.head)
  PROVE  /\ IsFollowed(m, p, rest) => Merged(m, MergeOrFree(Check(m, Owned(m, p)), p, TRUE), p, Head(rest))
         /\ ~IsFollowed(m, p, rest) => Disposed(m, MergeOrFree(Check(m, Owned(m, p)), p, FALSE), p)
<1>1. Check(m, Owned(m, p)) = m
  BY ValidIs DEF Check
<1>2. ASSUME IsFollowed(m, p, rest)
      PROVE  Merged(m, MergeOrFree(m, p, TRUE), p, Head(rest))
  <2>1. PICK q : q = Head(rest)
    OBVIOUS
  <2>2. rest # <<>> /\ q = End(m.head, p)
    BY <1>2, <2>1 DEF IsFollowed, ChunkSize, End
  <2>3. q \in UsedIn(m.head)
    BY <2>1, <2>2
  <2>4. PICK s : s = m.head[p].size + m.head[q].size
    OBVIOUS
  <2>5. p + m.head[p].size = q
    BY <2>2 DEF End
  <2>6. MergeOrFree(m, p, TRUE) = SetInuse(m, p, s)
    BY <2>4, <2>5 DEF MergeOrFree, ChunkSize
  <2> QED  BY <2>1, <2>2, <2>3, <2>4, <2>6, MergeIs
<1>3. Disposed(m, MergeOrFree(m, p, FALSE), p)
  <2>1. PICK n, U, s : n = DisposeChunk(m, p, s) /\ U = UsedIn(m.head) \ {p} /\ s = m.head[p].size
    OBVIOUS
  <2>2. MergeOrFree(m, p, FALSE) = n
    BY <2>1 DEF MergeOrFree, ChunkSize
  <2>3. Became(m, n, U, U)
    BY <2>1, DisposeChunkIs
  <2>4. Grown(n) /\ UsedIn(n.head) = U /\ SizesKept(m.head, n.head, U) /\ Called(m, n)
    <3>1. Keeps(m, n, StillFields)
      BY <2>3 DEF Became, Keeps, StillFields
    <3>2. Called(m, n)
      BY <3>1, StillCalled
    <3> QED  BY <2>3, <3>2 DEF Became
  <2> QED  BY <2>1, <2>2, <2>4 DEF Disposed
<1> QED  BY <1>1, <1>2, <1>3

(* What follows the loop keeps every block, too.                           *)
LEMMA FinishIs ==
  ASSUME NEW m, Grown(m), NEW rest, NEW n, n = FinishBulkFree(m, rest)
  PROVE  Grown(n) /\ SameBlocks(m, n)
<1>1. Heap(m)
  BY GrownIs
<1>2. CASE rest = <<>>
  BY <1>1, <1>2, TrimIfLargeIs DEF FinishBulkFree
<1>3. CASE rest # <<>>
  BY <1>1, <1>3, NothingChanged DEF FinishBulkFree
<1> QED  BY <1>2, <1>3

-----------------------------------------------------------------------------
(* malloc_set_footprint_limit                                              *)

(* malloc_set_footprint_limit leaves the heap alone.                       *)
LEMMA LimitKeepsHeap ==
  ASSUME NEW m, Heap(m), NEW z, NEW n, n = [m EXCEPT !.footprint_limit = z]
  PROVE  Heap(n) /\ n.head = m.head /\ n.top = m.top /\ (Grown(m) => Grown(n))
<1>1. DOMAIN m = HeapFields /\ m.contiguous \in BOOLEAN
  BY HeapIs DEF Breaking
<1>2. /\ Keeps(m, n, QuietFields) /\ n.contiguous = m.contiguous /\ n.trim_check = m.trim_check
  BY <1>1 DEF HeapFields, Keeps, QuietFields
<1>3. n.contiguous \in BOOLEAN
  BY Zenon, <1>1, <1>2
<1> QED  BY <1>2, <1>3, HeapFrame
=============================================================================
