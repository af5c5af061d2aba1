----------------------------- MODULE HeapProofs -----------------------------
(***************************************************************************)
(* The properties of module HeapInvariants, for every value of the         *)
(* constants.                                                              *)
(*                                                                         *)
(* The inductive invariant HeapInv says that the heap is one that          *)
(* DlmallocProofs calls Heap, and that the chunks in use are the blocks of *)
(* the program and those that bulk_free has still to free.  A call keeps   *)
(* it by what DlmallocProofs shows of the call.                            *)
(*                                                                         *)
(* Then what a step may do: to the sizes of blocks, to the break and the   *)
(* footprint, when it fails, when it turns to the system, when it trims;   *)
(* and that the allocator implements AbsHeap.                              *)
(*                                                                         *)
(* The last part is about module Mmap: the heap stays consistent with      *)
(* mappings and the TLS block in it, and these stay whole, aligned and     *)
(* apart.                                                                  *)
(***************************************************************************)
EXTENDS Mmap, DlmallocProofs, FiniteSetTheorems, SequenceTheorems

(* A chunk of size s is one that was given for a request of r granules.    *)
Fits(s, r) == r \in Nat /\ Request2Size(r) <= s /\ s <= Request2Size(r) + MinChunk

(* The chunks in use are those of the program, l, and what is left of the  *)
(* array of bulk_free, f.                                                  *)
Holds(h, l, f) ==
  /\ l = [p \in DOMAIN l |-> l[p]]
  /\ UsedIn(h) = DOMAIN l \cup {f[i] : i \in DOMAIN f}
  /\ \A p \in DOMAIN l : Fits(h[p].size, l[p])

Pending(l, f) ==
  /\ f \in Seq(Int) /\ Len(f) <= MaxBatch
  /\ \A i, j \in 1 .. Len(f) : f[i] = f[j] => i = j
  /\ \A i \in 1 .. Len(f) : f[i] \notin DOMAIN l

State(m, l, f) == Heap(m) /\ Holds(m.head, l, f) /\ Pending(l, f)

HeapInv == State(gm, live, freeing) /\ sp \in StackAddrs /\ asked \in Limits \cup {MaxSize}

(* The blocks but those of S stayed as they were.                          *)
Others(m, l, n, l2, S) ==
  \A x \in DOMAIN l \ S : x \in DOMAIN l2 /\ l2[x] = l[x] /\ n.head[x].size = m.head[x].size

-----------------------------------------------------------------------------
(* The steps                                                               *)

(* An empty array has no entries.                                          *)
LEMMA NoneFreeing == {<<>>[i] : i \in DOMAIN <<>>} = {}
OBVIOUS

(* A heap with chunks in use has obtained memory.                          *)
LEMMA UsedGrown ==
  ASSUME NEW m, Heap(m), NEW p \in UsedIn(m.head)
  PROVE  Grown(m) /\ p \in Int /\ p # NULL
<1>1. Grown(m)
  BY DEF Heap, Empty, UsedIn
<1> QED  BY <1>1, UsedChunkIs

(* The chunks in use are the same, of the same sizes.                      *)
LEMMA HeldStill ==
  ASSUME NEW m, NEW l, NEW f, State(m, l, f), NEW n, Heap(n), UsedIn(n.head) = UsedIn(m.head),
         SizesKept(m.head, n.head, UsedIn(m.head))
  PROVE  State(n, l, f) /\ Others(m, l, n, l, {})
BY DEF State, Holds, SizesKept, Others

(* The call gave p, for r granules, and took the blocks of S back.         *)
Exchanged(m, n, S, p, r) ==
  /\ Heap(n) /\ UsedIn(n.head) = (UsedIn(m.head) \ S) \cup {p} /\ p \notin UsedIn(m.head) \ S
  /\ SizesKept(m.head, n.head, UsedIn(m.head) \ S)
  /\ Fits(n.head[p].size, r)

(* After a call that gave up the chunks of S, and obtained p or nothing,   *)
(* the chunks in use are the program's.                                    *)
LEMMA HeldAfterExchange ==
  ASSUME NEW m, NEW l, State(m, l, <<>>), NEW n, NEW S, NEW p, NEW r, S \subseteq DOMAIN l,
         Exchanged(m, n, S, p, r), NEW l2, l2 = Put(Without(l, S), p, r)
  PROVE  State(n, l2, <<>>) /\ Others(m, l, n, l2, S)
<1>1. DOMAIN l = UsedIn(m.head)
  <2>1. UsedIn(m.head) = DOMAIN l \cup {<<>>[i] : i \in DOMAIN <<>>}
    BY DEF State, Holds
  <2> QED  BY <2>1, NoneFreeing
<1>2. DOMAIN l2 = (DOMAIN l \ S) \cup {p} /\ l2[p] = r /\ l2 = [x \in DOMAIN l2 |-> l2[x]]
  BY DEF Put, Without
<1>3. \A x \in DOMAIN l \ S : x # p /\ l2[x] = l[x]
  BY <1>1 DEF Put, Without, Exchanged
<1>4. Holds(n.head, l2, <<>>)
  <2>1. UsedIn(n.head) = DOMAIN l2 \cup {<<>>[i] : i \in DOMAIN <<>>}
    BY <1>1, <1>2 DEF Exchanged
  <2>2. \A x \in DOMAIN l2 : Fits(n.head[x].size, l2[x])
    BY <1>1, <1>2, <1>3 DEF Exchanged, SizesKept, State, Holds
  <2> QED  BY <1>2, <2>1, <2>2 DEF Holds
<1>5. Pending(l2, <<>>)
  BY DEF State, Pending
<1>6. Others(m, l, n, l2, S)
  BY <1>1, <1>2, <1>3 DEF Others, Exchanged, SizesKept
<1> QED  BY <1>4, <1>5, <1>6 DEF State, Exchanged

(* The call took back the blocks of S, and gave none.                      *)
LEMMA HeldAfterFree ==
  ASSUME NEW m, NEW l, State(m, l, <<>>), NEW n, NEW p \in DOMAIN l,
         Left(m, n, UsedIn(m.head) \ {p}), NEW l2, l2 = Without(l, {p})
  PROVE  State(n, l2, <<>>) /\ Others(m, l, n, l2, {p})
<1>1. DOMAIN l = UsedIn(m.head)
  <2>1. UsedIn(m.head) = DOMAIN l \cup {<<>>[i] : i \in DOMAIN <<>>}
    BY DEF State, Holds
  <2> QED  BY <2>1, NoneFreeing
<1>2. DOMAIN l2 = DOMAIN l \ {p} /\ l2 = [x \in DOMAIN l2 |-> l2[x]]
  BY DEF Without
<1>3. \A x \in DOMAIN l2 : l2[x] = l[x]
  BY DEF Without
<1>4. Holds(n.head, l2, <<>>)
  <2>1. UsedIn(n.head) = DOMAIN l2 \cup {<<>>[i] : i \in DOMAIN <<>>}
    BY <1>1, <1>2 DEF Left
  <2>2. \A x \in DOMAIN l2 : Fits(n.head[x].size, l2[x])
    BY <1>1, <1>2, <1>3 DEF Left, SizesKept, State, Holds
  <2> QED  BY <1>2, <2>1, <2>2 DEF Holds
<1>5. Pending(l2, <<>>)
  BY DEF State, Pending
<1>6. Others(m, l, n, l2, {p})
  BY <1>1, <1>2, <1>3 DEF Others, Left, SizesKept
<1> QED  BY <1>4, <1>5, <1>6 DEF State, Left

(* What malloc() and memalign() give for r granules.                       *)
LEMMA ServedHeld ==
  ASSUME NEW m, NEW l, State(m, l, <<>>), NEW r \in Nat, NEW got, Served(m, got, SizeFor(r)),
         NEW l2, l2 = IF got.mem = NULL THEN l ELSE Put(Without(l, {}), got.mem, r)
  PROVE  State(got.heap, l2, <<>>) /\ Others(m, l, got.heap, l2, {})
<1>1. CASE got.mem = NULL
  <2>1. Left(m, got.heap, UsedIn(m.head))
    BY <1>1 DEF Served
  <2> QED  BY <1>1, <2>1, HeldStill DEF Left
<1>2. CASE got.mem # NULL
  <2>1. PICK n, p : n = got.heap /\ p = got.mem
    OBVIOUS
  <2>2. Given(m, n, p, SizeFor(r))
    BY <1>2, <2>1 DEF Served
  <2>3. r < MaxRequest
    BY <2>2, GivenSize
  <2>4. Given(m, n, p, Request2Size(r))
    BY <2>2, <2>3, SizeForIs
  <2>5. Exchanged(m, n, {}, p, r)
    BY <2>4, GrownIs DEF Given, Exchanged, Fits
  <2> QED  BY <1>2, <2>1, <2>5, HeldAfterExchange
<1> QED  BY <1>1, <1>2

(* What realloc() and realloc_in_place() give for the block at p.          *)
LEMMA ReservedHeld ==
  ASSUME NEW m, NEW l, State(m, l, <<>>), NEW r \in Nat, NEW p \in DOMAIN l,
         NEW got, Reserved(m, got, p, Request2Size(r)),
         NEW l2, l2 = IF got.mem = NULL THEN l ELSE Put(Without(l, {p}), got.mem, r)
  PROVE  State(got.heap, l2, <<>>) /\ Others(m, l, got.heap, l2, {p})
<1>1. CASE got.mem = NULL
  <2>1. Left(m, got.heap, UsedIn(m.head))
    BY <1>1 DEF Reserved
  <2>2. State(got.heap, l, <<>>) /\ Others(m, l, got.heap, l, {})
    BY <2>1, HeldStill DEF Left
  <2> QED  BY <1>1, <2>2 DEF Others
<1>2. CASE got.mem # NULL
  <2>1. PICK n, q : n = got.heap /\ q = got.mem
    OBVIOUS
  <2>2. Replaced(m, n, p, q, Request2Size(r))
    BY <1>2, <2>1 DEF Reserved
  <2>3. Exchanged(m, n, {p}, q, r)
    BY <2>2, GrownIs DEF Replaced, Exchanged, Fits
  <2> QED  BY <1>2, <2>1, <2>3, HeldAfterExchange
<1> QED  BY <1>1, <1>2

(* The blocks that the program receives from independent_comalloc().       *)
Elements(res, w) ==
  [p \in {res.elements[i] : i \in DOMAIN res.elements} |->
     w[CHOOSE i \in DOMAIN res.elements : res.elements[i] = p]]

Received(res, w) ==
  IF res.array = NULL THEN Elements(res, w)
  ELSE Put(Elements(res, w), res.array, (Len(w) + 1) \div 2)

Joint(l, received) ==
  [p \in DOMAIN l \cup DOMAIN received |-> IF p \in DOMAIN received THEN received[p] ELSE l[p]]

(* The first n blocks that c places are the distinct elements of a batch,  *)
(* and the program asked for w.                                            *)
Placed(res, w, n, c) ==
  /\ n = Len(w) /\ res.elements = [i \in 1 .. n |-> c[i]]
  /\ \A i, j \in 1 .. n : c[i] = c[j] => i = j

(* f[c[i]] is what was wanted as the i-th block, for the first k.          *)
Gives(f, w, k, c) ==
  DOMAIN f = {c[i] : i \in 1 .. k} /\ \A i \in 1 .. k : f[c[i]] = Wanted(w, i)

(* The blocks of a batch as the program records them.                      *)
LEMMA ElementsAre ==
  ASSUME NEW w \in Seq(Nat), NEW c, NEW n, NEW res, Placed(res, w, n, c)
  PROVE  Gives(Elements(res, w), w, n, c)
<1>1. n = Len(w) /\ n \in Nat /\ \A i, j \in 1 .. n : c[i] = c[j] => i = j
  BY DEF Placed
<1>2. DOMAIN res.elements = 1 .. n /\ \A i \in 1 .. n : res.elements[i] = c[i]
  BY DEF Placed
<1>3. DOMAIN Elements(res, w) = {c[i] : i \in 1 .. n}
  <2>1. DOMAIN Elements(res, w) = {res.elements[i] : i \in DOMAIN res.elements}
    BY Zenon DEF Elements
  <2>2. {res.elements[i] : i \in 1 .. n} = {c[i] : i \in 1 .. n}
    BY <1>2
  <2> QED  BY <1>2, <2>1, <2>2
<1>4. ASSUME NEW i \in 1 .. n
      PROVE  Elements(res, w)[c[i]] = w[i]
  <2>1. c[i] \in {res.elements[j] : j \in DOMAIN res.elements}
    BY <1>2
  <2>2. PICK j : j = CHOOSE k \in DOMAIN res.elements : res.elements[k] = c[i]
    OBVIOUS
  <2>3. Elements(res, w)[c[i]] = w[j]
    BY <2>1, <2>2 DEF Elements
  <2>4. j \in DOMAIN res.elements /\ res.elements[j] = c[i]
    BY <1>2, <2>2
  <2>5. j \in 1 .. n /\ c[j] = c[i]
    BY <1>2, <2>4
  <2>6. j = i
    BY <1>1, <2>5
  <2> QED  BY <2>3, <2>6
<1>5. \A i \in 1 .. n : Wanted(w, i) = w[i]
  BY <1>1 DEF Wanted
<1> QED  BY <1>3, <1>4, <1>5 DEF Gives

(* The same, with the array that independent_comalloc allocated for it.    *)
LEMMA ReceivedIs ==
  ASSUME NEW w \in Seq(Nat), NEW own \in BOOLEAN, NEW c, NEW res, BatchAt(res, w, own, c),
         NEW k, k = Parts(w, own)
  PROVE  Gives(Received(res, w), w, k, c)
<1>1. PICK n : n = Len(w) /\ k = Parts(w, own)
  OBVIOUS
<1>2. /\ res.elements = [i \in 1 .. n |-> c[i]] /\ n \in Nat
      /\ res.array = IF own THEN c[n + 1] ELSE NULL
      /\ \A i \in 1 .. k : c[i] # NULL
      /\ \A i, j \in 1 .. k : c[i] = c[j] => i = j
  BY <1>1 DEF BatchAt
<1>3. (own /\ k = n + 1) \/ (~own /\ k = n)
  BY <1>1 DEF Parts
<1>4. \A i, j \in 1 .. n : c[i] = c[j] => i = j
  BY <1>2, <1>3
<1>5. PICK e : e = Elements(res, w)
  OBVIOUS
<1>6. DOMAIN e = {c[i] : i \in 1 .. n} /\ \A i \in 1 .. n : e[c[i]] = Wanted(w, i)
  <2>1. Placed(res, w, n, c)
    BY <1>1, <1>2, <1>4 DEF Placed
  <2>2. Gives(e, w, n, c)
    BY <1>5, <2>1, ElementsAre
  <2> QED  BY <2>2 DEF Gives
<1>8. CASE ~own
  <2>1. Received(res, w) = e /\ k = n
    BY <1>2, <1>3, <1>5, <1>8 DEF Received
  <2> QED  BY <1>6, <2>1 DEF Gives
<1>9. CASE own
  <2>1. k = n + 1 /\ n + 1 \in 1 .. k
    <3>1. n \in Nat
      BY <1>2
    <3>2. k = n + 1
      BY Zenon, <1>3, <1>9
    <3> QED  BY <3>1, <3>2
  <2>2. res.array = c[n + 1] /\ c[n + 1] # NULL
    BY <1>2, <1>9, <2>1
  <2>3. PICK z : z = (n + 1) \div 2
    OBVIOUS
  <2>4. Received(res, w) = Put(e, c[n + 1], z)
    BY <1>1, <1>5, <2>2, <2>3 DEF Received
  <2>5. \A i \in 1 .. k : i \in 1 .. n \/ i = n + 1
    BY <1>2, <2>1
  <2>6. DOMAIN Received(res, w) = {c[i] : i \in 1 .. k}
    <3>1. DOMAIN Received(res, w) = DOMAIN e \cup {c[n + 1]}
      BY <2>4 DEF Put
    <3>2. \A i \in 1 .. n : i \in 1 .. k
      BY <1>2, <2>1
    <3> QED  BY <1>6, <2>1, <2>5, <3>1, <3>2
  <2>7. Wanted(w, n + 1) = z
    BY <1>1, <1>2, <2>3 DEF Wanted
  <2>8. Received(res, w)[c[n + 1]] = z
    BY <2>4 DEF Put
  <2>9. ASSUME NEW i \in 1 .. n
        PROVE  Received(res, w)[c[i]] = Wanted(w, i)
    <3>1. c[i] # c[n + 1]
      BY <1>2, <2>1
    <3>2. c[i] \in DOMAIN e
      BY <1>6
    <3>3. Received(res, w)[c[i]] = e[c[i]]
      BY <2>4, <3>1, <3>2 DEF Put
    <3> QED  BY <1>6, <3>3
  <2>10. ASSUME NEW i \in 1 .. k
         PROVE  Received(res, w)[c[i]] = Wanted(w, i)
    BY <2>5, <2>7, <2>8, <2>9
  <2> QED  BY <2>6, <2>10 DEF Gives
<1> QED  BY <1>8, <1>9

(* What independent_comalloc() gives.                                      *)
LEMMA BatchHeld ==
  ASSUME NEW m, NEW l, State(m, l, <<>>), NEW w \in Seq(Nat), NEW own \in BOOLEAN,
         NEW res, Batched(m, res, w, own), NEW l2, l2 = Joint(l, Received(res, w))
  PROVE  State(res.heap, l2, <<>>) /\ Others(m, l, res.heap, l2, {})
<1>1. CASE res.elements = <<>> /\ res.array = NULL /\ Left(m, res.heap, UsedIn(m.head))
  <2>1. DOMAIN Received(res, w) = {}
    BY <1>1 DEF Received, Elements
  <2>2. l2 = [p \in DOMAIN l |-> l[p]]
    BY <2>1 DEF Joint
  <2>3. l2 = l
    BY <2>2 DEF State, Holds
  <2> QED  BY <1>1, <2>3, HeldStill DEF Left
<1>2. ASSUME NEW c, Handed(m, res.heap, c, Parts(w, own)), BatchAt(res, w, own, c)
      PROVE  State(res.heap, l2, <<>>) /\ Others(m, l, res.heap, l2, {})
  <2>1. PICK n, k, q : n = res.heap /\ k = Parts(w, own) /\ q = Received(res, w)
    OBVIOUS
  <2>2. DOMAIN q = {c[i] : i \in 1 .. k} /\ \A i \in 1 .. k : q[c[i]] = Wanted(w, i)
    <3>1. Gives(q, w, k, c)
      BY <1>2, <2>1, ReceivedIs
    <3> QED  BY <3>1 DEF Gives
  <2>3. /\ Grown(n) /\ UsedIn(n.head) = UsedIn(m.head) \cup {c[i] : i \in 1 .. k}
        /\ SizesKept(m.head, n.head, UsedIn(m.head))
        /\ \A i \in 1 .. k : n.head[c[i]].size = c[i + 1] - c[i] /\ c[i] \notin UsedIn(m.head)
    BY <1>2, <2>1 DEF Handed
  <2>4. DOMAIN l = UsedIn(m.head)
    <3>1. UsedIn(m.head) = DOMAIN l \cup {<<>>[i] : i \in DOMAIN <<>>}
      BY DEF State, Holds
    <3> QED  BY <3>1, NoneFreeing
  <2>5. DOMAIN l2 = DOMAIN l \cup DOMAIN q /\ l2 = [x \in DOMAIN l2 |-> l2[x]]
    BY <2>1 DEF Joint
  <2>6. \A x \in DOMAIN l : l2[x] = l[x] /\ n.head[x].size = m.head[x].size
    BY <2>1, <2>2, <2>3, <2>4 DEF Joint, SizesKept
  <2>7. \A i \in 1 .. k : l2[c[i]] = Wanted(w, i)
    BY <2>1, <2>2 DEF Joint
  <2>8. ASSUME NEW i \in 1 .. k
        PROVE  Fits(n.head[c[i]].size, Wanted(w, i))
    <3>1. /\ Request2Size(Wanted(w, i)) <= c[i + 1] - c[i]
          /\ c[i + 1] - c[i] <= Request2Size(Wanted(w, i)) + MinChunk
      BY <1>2, <2>1 DEF BatchAt
    <3>2. Wanted(w, i) \in Nat
      BY <2>1 DEF Wanted, Parts
    <3> QED  BY <2>3, <3>1, <3>2 DEF Fits
  <2>9. Holds(n.head, l2, <<>>)
    <3>1. UsedIn(n.head) = DOMAIN l2 \cup {<<>>[i] : i \in DOMAIN <<>>}
      BY <2>2, <2>3, <2>4, <2>5, NoneFreeing
    <3>2. \A x \in DOMAIN l : Fits(n.head[x].size, l2[x])
      BY <2>6 DEF State, Holds
    <3>3. \A x \in DOMAIN q : Fits(n.head[x].size, l2[x])
      BY <2>2, <2>7, <2>8
    <3> QED  BY <2>5, <3>1, <3>2, <3>3 DEF Holds
  <2>10. Pending(l2, <<>>)
    BY DEF State, Pending
  <2>11. Others(m, l, n, l2, {})
    BY <2>5, <2>6 DEF Others
  <2> QED  BY <2>1, <2>3, <2>9, <2>10, <2>11, GrownIs DEF State
<1> QED  BY <1>1, <1>2 DEF Batched

(* The program gives bulk_free() an array of its blocks.                   *)
LEMMA ArrayHeld ==
  ASSUME NEW m, NEW l, State(m, l, <<>>), NEW own, own \subseteq DOMAIN l, NEW f \in Arrays(own),
         NEW l2, l2 = Without(l, {f[i] : i \in DOMAIN f})
  PROVE  State(m, l2, f) /\ Others(m, l, m, l2, own)
<1>1. DOMAIN l = UsedIn(m.head)
  <2>1. UsedIn(m.head) = DOMAIN l \cup {<<>>[i] : i \in DOMAIN <<>>}
    BY DEF State, Holds
  <2> QED  BY <2>1, NoneFreeing
<1>2. PICK n \in 1 .. MaxBatch : f \in {a \in [1 .. n -> own] : \A i, j \in 1 .. n : a[i] = a[j] => i = j}
  BY DEF Arrays
<1>3. f \in [1 .. n -> own] /\ \A i, j \in 1 .. n : f[i] = f[j] => i = j
  BY <1>2
<1>4. \A x \in own : x \in Int
  BY <1>1, UsedGrown DEF State
<1>5. n \in Nat /\ n <= MaxBatch
  BY <1>2, ProgramAssumption
<1>6. f \in Seq(Int) /\ Len(f) = n /\ DOMAIN f = 1 .. n
  <2>1. f \in [1 .. n -> Int]
    BY <1>3, <1>4
  <2> QED  BY <1>5, <2>1
<1>7. PICK R : R = {f[i] : i \in DOMAIN f}
  OBVIOUS
<1>8. DOMAIN l2 = DOMAIN l \ R /\ l2 = [x \in DOMAIN l2 |-> l2[x]] /\ \A x \in DOMAIN l2 : l2[x] = l[x]
  BY <1>7 DEF Without
<1>9. R \subseteq own
  BY <1>3, <1>7
<1>10. Holds(m.head, l2, f)
  <2>1. UsedIn(m.head) = DOMAIN l2 \cup R
    BY <1>1, <1>8, <1>9
  <2>2. \A x \in DOMAIN l2 : Fits(m.head[x].size, l2[x])
    BY <1>8 DEF State, Holds
  <2> QED  BY <1>7, <1>8, <2>1, <2>2 DEF Holds
<1>11. Pending(l2, f)
  <2>1. \A i \in 1 .. n : f[i] \notin DOMAIN l2
    BY <1>6, <1>7, <1>8
  <2> QED  BY <1>3, <1>5, <1>6, <2>1 DEF Pending
<1>12. Others(m, l, m, l2, own)
  BY <1>8, <1>9 DEF Others
<1> QED  BY <1>10, <1>11, <1>12 DEF State

(* The array f is left to be freed instead of g: the chunk at p was taken  *)
(* back.                                                                   *)
Fewer(f, g, p) ==
  /\ g \in Seq(Int) /\ Len(g) <= Len(f)
  /\ {g[i] : i \in DOMAIN g} = {f[i] : i \in DOMAIN f} \ {p}
  /\ \A i, j \in 1 .. Len(g) : g[i] = g[j] => i = j
  /\ \E i \in 1 .. Len(f) : f[i] = p

(* Without its first entry the array has one entry fewer.                  *)
LEMMA FewerTail ==
  ASSUME NEW f \in Seq(Int), f # <<>>, \A i, j \in 1 .. Len(f) : f[i] = f[j] => i = j
  PROVE  Fewer(f, Tail(f), Head(f))
<1>1. PICK n, g : n = Len(f) /\ g = Tail(f)
  OBVIOUS
<1>2. n \in Nat /\ n > 0 /\ Head(f) = f[1] /\ 1 \in 1 .. n /\ DOMAIN f = 1 .. n
  BY <1>1
<1>3. g \in Seq(Int) /\ Len(g) = n - 1 /\ DOMAIN g = 1 .. n - 1
  BY <1>1, <1>2
<1>4. \A i \in 1 .. n - 1 : g[i] = f[i + 1] /\ i + 1 \in 1 .. n
  BY <1>1, <1>2
<1>5. \A i, j \in 1 .. n - 1 : g[i] = g[j] => i = j
  <2> SUFFICES ASSUME NEW i \in 1 .. n - 1, NEW j \in 1 .. n - 1, g[i] = g[j] PROVE i = j
    OBVIOUS
  <2>1. f[i + 1] = f[j + 1] /\ i + 1 \in 1 .. n /\ j + 1 \in 1 .. n
    BY <1>4
  <2>2. i + 1 = j + 1
    BY <1>1, <2>1
  <2> QED  BY <1>2, <2>2
<1>6. ASSUME NEW x
      PROVE  x \in {g[i] : i \in 1 .. n - 1} <=> x \in {f[i] : i \in 1 .. n} \ {f[1]}
  <2>1. ASSUME NEW i \in 1 .. n - 1, x = g[i]
        PROVE  x \in {f[j] : j \in 1 .. n} /\ x # f[1]
    <3>1. x = f[i + 1] /\ i + 1 \in 1 .. n /\ i + 1 # 1
      BY <1>2, <1>4, <2>1
    <3> QED  BY <1>1, <1>2, <3>1
  <2>2. ASSUME NEW j \in 1 .. n, x = f[j], x # f[1]
        PROVE  x \in {g[i] : i \in 1 .. n - 1}
    <3>1. j - 1 \in 1 .. n - 1 /\ (j - 1) + 1 = j
      BY <1>2, <2>2
    <3>2. g[j - 1] = f[(j - 1) + 1]
      BY <1>4, <3>1
    <3> QED  BY <2>2, <3>1, <3>2
  <2> QED  BY <2>1, <2>2
<1>7. {g[i] : i \in DOMAIN g} = {f[i] : i \in DOMAIN f} \ {Head(f)}
  BY <1>2, <1>3, <1>6
<1>8. /\ g \in Seq(Int) /\ Len(g) <= Len(f)
      /\ \A i, j \in 1 .. Len(g) : g[i] = g[j] => i = j
  BY <1>1, <1>2, <1>3, <1>5
<1>9. \E i \in 1 .. Len(f) : f[i] = Head(f)
  BY <1>1, <1>2
<1>10. Fewer(f, g, Head(f))
  BY Zenon, <1>7, <1>8, <1>9 DEF Fewer
<1> QED  BY <1>1, <1>10

(* Merging the second entry into the first leaves one entry fewer.         *)
LEMMA FewerMerged ==
  ASSUME NEW f \in Seq(Int), f # <<>>, Tail(f) # <<>>, \A i, j \in 1 .. Len(f) : f[i] = f[j] => i = j,
         NEW g, g = <<Head(f)>> \o Tail(Tail(f))
  PROVE  Fewer(f, g, Head(Tail(f)))
<1>1. PICK n, p, r : n = Len(f) /\ p = Head(f) /\ r = Tail(Tail(f))
  OBVIOUS
<1>2. n \in Nat /\ n > 1 /\ p = f[1] /\ 1 \in 1 .. n /\ 2 \in 1 .. n /\ DOMAIN f = 1 .. n /\ p \in Int
  <2>1. n \in Nat /\ n > 0
    BY <1>1
  <2>2. Len(Tail(f)) = n - 1 /\ Tail(f) \in Seq(Int)
    BY <1>1
  <2>3. n - 1 > 0
    BY <2>1, <2>2
  <2> QED  BY <1>1, <2>1, <2>3
<1>3. Head(Tail(f)) = f[2]
  BY <1>1, <1>2
<1>4. r \in Seq(Int) /\ Len(r) = n - 2 /\ \A i \in 1 .. n - 2 : r[i] = f[i + 2]
  <2>1. PICK t : t = Tail(f)
    OBVIOUS
  <2>2. t \in Seq(Int) /\ Len(t) = n - 1 /\ \A i \in 1 .. n - 1 : t[i] = f[i + 1]
    BY <1>1, <1>2, <2>1
  <2>3. r \in Seq(Int) /\ Len(r) = (n - 1) - 1 /\ \A i \in 1 .. (n - 1) - 1 : r[i] = t[i + 1]
    BY <1>1, <1>2, <2>1, <2>2
  <2>4. \A i \in 1 .. n - 2 : i + 1 \in 1 .. n - 1 /\ (i + 1) + 1 = i + 2
    BY <1>2
  <2>5. (n - 1) - 1 = n - 2
    BY <1>2
  <2> QED  BY <2>2, <2>3, <2>4, <2>5
<1>5. g \in Seq(Int) /\ Len(g) = n - 1 /\ g[1] = f[1] /\ \A i \in 2 .. n - 1 : g[i] = f[i + 1]
  <2>1. <<p>> \in Seq(Int) /\ Len(<<p>>) = 1 /\ <<p>>[1] = p
    BY <1>2
  <2>2. g \in Seq(Int) /\ Len(g) = 1 + (n - 2)
    BY <1>1, <1>4, <2>1
  <2>3. g[1] = p
    BY <1>1, <1>4, <2>1
  <2>4. ASSUME NEW i \in 2 .. n - 1
        PROVE  g[i] = f[i + 1]
    <3>1. g[i] = r[i - 1]
      <4>1. g = <<p>> \o r
        BY <1>1
      <4>2. i \in 1 .. Len(<<p>>) + Len(r) /\ ~(i <= Len(<<p>>)) /\ i - Len(<<p>>) = i - 1
        BY <1>2, <1>4, <2>1
      <4>3. \A x \in 1 .. Len(<<p>>) + Len(r) :
              (<<p>> \o r)[x] = IF x <= Len(<<p>>) THEN <<p>>[x] ELSE r[x - Len(<<p>>)]
        BY Zenon, <1>4, <2>1, ConcatProperties
      <4>4. g[i] = r[i - Len(<<p>>)]
        BY Zenon, <4>1, <4>2, <4>3
      <4> QED  BY <4>2, <4>4
    <3>2. i - 1 \in 1 .. n - 2 /\ (i - 1) + 2 = i + 1
      BY <1>2
    <3> QED  BY <1>4, <3>1, <3>2
  <2>5. 1 + (n - 2) = n - 1
    BY <1>2
  <2> QED  BY <1>2, <2>2, <2>3, <2>4, <2>5
<1>6. DOMAIN g = 1 .. n - 1
  <2>1. g \in Seq(Int) /\ Len(g) = n - 1
    BY <1>5
  <2>2. DOMAIN g = 1 .. Len(g)
    BY Zenon, <2>1, LenProperties
  <2> QED  BY <2>1, <2>2
<1>7. PICK s : s = [i \in 1 .. n - 1 |-> IF i = 1 THEN 1 ELSE i + 1]
  OBVIOUS
<1>8. \A i \in 1 .. n - 1 : s[i] \in 1 .. n /\ g[i] = f[s[i]] /\ s[i] # 2 /\ (i = 1 => s[i] = 1) /\ (i # 1 => s[i] = i + 1)
  <2> SUFFICES ASSUME NEW i \in 1 .. n - 1
               PROVE  s[i] \in 1 .. n /\ g[i] = f[s[i]] /\ s[i] # 2 /\ (i = 1 => s[i] = 1) /\ (i # 1 => s[i] = i + 1)
    OBVIOUS
  <2>1. CASE i = 1
    <3>1. s[i] = 1
      BY <1>7, <2>1
    <3>2. g[i] = f[1]
      BY <1>5, <2>1
    <3> QED  BY <1>2, <2>1, <3>1, <3>2
  <2>2. CASE i # 1
    <3>1. s[i] = i + 1
      BY <1>7, <2>2
    <3>2. i \in 2 .. n - 1 /\ i + 1 \in 1 .. n /\ i + 1 # 2
      BY <1>2, <2>2
    <3>3. g[i] = f[i + 1]
      BY <1>5, <3>2
    <3> QED  BY <2>2, <3>1, <3>2, <3>3
  <2> QED  BY <2>1, <2>2
<1>9. \A i, j \in 1 .. n - 1 : g[i] = g[j] => i = j
  <2> SUFFICES ASSUME NEW i \in 1 .. n - 1, NEW j \in 1 .. n - 1, g[i] = g[j] PROVE i = j
    OBVIOUS
  <2>1. f[s[i]] = f[s[j]] /\ s[i] \in 1 .. n /\ s[j] \in 1 .. n
    BY <1>8
  <2>2. s[i] = s[j]
    BY <1>1, <2>1
  <2>7. i \in Int /\ j \in Int /\ i >= 1 /\ j >= 1
    BY <1>2
  <2>3. CASE i = 1 /\ j = 1
    BY <2>3
  <2>4. CASE i = 1 /\ j # 1
    <3>1. s[i] = 1 /\ s[j] = j + 1
      BY <1>8, <2>4
    <3> QED  BY <2>2, <2>7, <2>4, <3>1
  <2>5. CASE i # 1 /\ j = 1
    <3>1. s[j] = 1 /\ s[i] = i + 1
      BY <1>8, <2>5
    <3> QED  BY <2>2, <2>7, <2>5, <3>1
  <2>6. CASE i # 1 /\ j # 1
    <3>1. s[i] = i + 1 /\ s[j] = j + 1
      BY <1>8, <2>6
    <3>2. i + 1 = j + 1
      BY Zenon, <2>2, <3>1
    <3> QED  BY <2>7, <3>2
  <2> QED  BY <2>3, <2>4, <2>5, <2>6
<1>10. ASSUME NEW x
      PROVE  x \in {g[i] : i \in 1 .. n - 1} <=> x \in {f[i] : i \in 1 .. n} \ {f[2]}
  <2>1. ASSUME NEW i \in 1 .. n - 1, x = g[i]
        PROVE  x \in {f[j] : j \in 1 .. n} /\ x # f[2]
    <3>1. x = f[s[i]] /\ s[i] \in 1 .. n /\ s[i] # 2
      BY <1>8, <2>1
    <3> QED  BY <1>1, <1>2, <3>1
  <2>2. ASSUME NEW j \in 1 .. n, x = f[j], x # f[2]
        PROVE  x \in {g[i] : i \in 1 .. n - 1}
    <3>1. CASE j = 1
      <4>1. 1 \in 1 .. n - 1 /\ g[1] = x
        BY <1>2, <1>5, <2>2, <3>1
      <4> QED  BY <4>1
    <3>2. CASE j # 1
      <4>1. j - 1 \in 1 .. n - 1 /\ j - 1 \in 2 .. n - 1 /\ (j - 1) + 1 = j
        BY <1>2, <2>2, <3>2
      <4>2. g[j - 1] = f[(j - 1) + 1]
        BY <1>5, <4>1
      <4> QED  BY <2>2, <4>1, <4>2
    <3> QED  BY <3>1, <3>2
  <2> QED  BY <2>1, <2>2
<1>11. Len(g) <= n
  BY <1>2, <1>5
<1> QED  BY <1>1, <1>2, <1>3, <1>5, <1>6, <1>9, <1>10, <1>11 DEF Fewer

(* An iteration of bulk_free(), from m to n, took the chunk at p back.     *)
LEMMA HeldAfterNext ==
  ASSUME NEW m, NEW l, NEW f, State(m, l, f), NEW g, NEW p, Fewer(f, g, p),
         NEW n, Heap(n), UsedIn(n.head) = UsedIn(m.head) \ {p},
         \A x \in DOMAIN l : n.head[x].size = m.head[x].size
  PROVE  State(n, l, g) /\ Others(m, l, n, l, {})
<1>1. PICK F, G : F = {f[i] : i \in DOMAIN f} /\ G = {g[i] : i \in DOMAIN g}
  OBVIOUS
<1>2. f \in Seq(Int) /\ g \in Seq(Int) /\ DOMAIN f = 1 .. Len(f) /\ DOMAIN g = 1 .. Len(g)
  BY DEF State, Pending, Fewer
<1>3. G = F \ {p}
  BY <1>1 DEF Fewer
<1>4. p \notin DOMAIN l
  BY DEF State, Pending, Fewer
<1>5. Holds(n.head, l, g)
  <2>1. UsedIn(n.head) = DOMAIN l \cup G
    BY <1>1, <1>3, <1>4 DEF State, Holds
  <2>2. \A x \in DOMAIN l : Fits(n.head[x].size, l[x])
    BY DEF State, Holds
  <2> QED  BY <1>1, <2>1, <2>2 DEF State, Holds
<1>6. Pending(l, g)
  <2>1. Len(g) <= MaxBatch
    <3>1. Len(f) \in Nat /\ Len(g) \in Nat /\ Len(f) <= MaxBatch /\ Len(g) <= Len(f) /\ MaxBatch \in Nat
      BY <1>2, ProgramAssumption DEF State, Pending, Fewer
    <3> QED  BY <3>1
  <2>2. \A i \in 1 .. Len(g) : g[i] \in F
    BY <1>1, <1>2, <1>3
  <2>3. \A x \in F : x \notin DOMAIN l
    BY <1>1, <1>2 DEF State, Pending
  <2> QED  BY <1>2, <2>1, <2>2, <2>3 DEF Pending, Fewer
<1> QED  BY <1>5, <1>6 DEF State, Others

-----------------------------------------------------------------------------
(* The inductive invariant                                                 *)

(* The heap of a program that begins.                                      *)
LEMMA InitHeap == Init => HeapInv
<1> SUFFICES ASSUME Init PROVE HeapInv
  OBVIOUS
<1>1. /\ DOMAIN gm = HeapFields /\ gm.ok = TRUE
      /\ DOMAIN gm.bins = MinChunk .. HeapSize /\ \A s \in DOMAIN gm.bins : gm.bins[s] = <<>>
      /\ gm.top = NULL /\ gm.topsize = 0 /\ gm.dv = NULL /\ gm.dvsize = 0
      /\ DOMAIN gm.head = {} /\ DOMAIN gm.foot = {}
      /\ gm.segbase = 0 /\ gm.segsize = 0 /\ gm.brk = HeapStart
      /\ gm.footprint = 0 /\ gm.max_footprint = 0 /\ gm.trim_check = 0
  BY DEF Init, HeapFields
<1>2. gm.contiguous = TRUE
  BY DEF Init
<1>3. Empty(gm)
  BY Zenon, <1>1, <1>2 DEF Empty
<1>4. DOMAIN live = {} /\ live = [p \in DOMAIN live |-> live[p]] /\ freeing = <<>>
  BY DEF Init
<1>5. Holds(gm.head, live, freeing)
  BY <1>1, <1>4, NoneFreeing DEF Holds, UsedIn
<1>6. Pending(live, freeing)
  BY <1>4, ProgramAssumption DEF Pending
<1> QED  BY <1>3, <1>5, <1>6 DEF Init, HeapInv, State, Heap

(* A call that the program makes while it runs.                            *)
LEMMA RunningState ==
  ASSUME HeapInv, Running
  PROVE  State(gm, live, <<>>) /\ Heap(gm) /\ freeing = <<>>
BY DEF HeapInv, Running, State

(* What a call leaves behind: the invariant, and the other blocks.         *)
Stepped(S) ==
  /\ State(gm', live', freeing') /\ Others(gm, live, gm', live', S)

(* malloc() and calloc() keep the invariant and every other block.         *)
LEMMA MallocStep ==
  ASSUME HeapInv, NEW r \in Nat, Receive(DlMalloc(gm, r), {}, r)
  PROVE  Stepped({})
<1>1. State(gm, live, <<>>) /\ Heap(gm) /\ freeing = <<>>
  BY RunningState DEF Receive
<1>2. PICK got : got = DlMalloc(gm, r)
  OBVIOUS
<1>3. Served(gm, got, SizeFor(r))
  BY <1>1, <1>2, MallocKeepsHeap
<1>4. gm' = got.heap /\ live' = (IF got.mem = NULL THEN live ELSE Put(Without(live, {}), got.mem, r))
      /\ freeing' = <<>>
  BY <1>1, <1>2 DEF Receive
<1> QED  BY <1>1, <1>3, <1>4, ServedHeld DEF Stepped

(* memalign(), posix_memalign(), valloc() and pvalloc() keep the invariant *)
(* and every other block.                                                  *)
LEMMA MemalignStep ==
  ASSUME HeapInv, NEW a \in Nat, NEW r \in Nat, Receive(DlMemalign(gm, a, r), {}, r)
  PROVE  Stepped({})
<1>1. State(gm, live, <<>>) /\ Heap(gm) /\ freeing = <<>>
  BY RunningState DEF Receive
<1>2. PICK got : got = DlMemalign(gm, a, r)
  OBVIOUS
<1>3. Served(gm, got, SizeFor(r))
  BY <1>1, <1>2, MemalignKeepsHeap
<1>4. gm' = got.heap /\ live' = (IF got.mem = NULL THEN live ELSE Put(Without(live, {}), got.mem, r))
      /\ freeing' = <<>>
  BY <1>1, <1>2 DEF Receive
<1> QED  BY <1>1, <1>3, <1>4, ServedHeld DEF Stepped

(* A block of the program is a chunk in use.                               *)
LEMMA BlockUsed ==
  ASSUME NEW m, NEW l, NEW f, State(m, l, f), NEW p \in DOMAIN l
  PROVE  p \in UsedIn(m.head) /\ Grown(m)
BY UsedGrown DEF State, Holds

(* realloc() and realloc_in_place() keep the invariant and every other     *)
(* block.                                                                  *)
LEMMA ReallocStep ==
  ASSUME HeapInv, NEW p \in DOMAIN live, NEW r \in Nat,
         Realloc(p, r) \/ ReallocInPlace(p, r)
  PROVE  Stepped({p})
<1>0. Running
  BY DEF Realloc, ReallocInPlace, Receive
<1>1. State(gm, live, <<>>) /\ freeing = <<>>
  BY <1>0, RunningState
<1>2. p \in UsedIn(gm.head) /\ Grown(gm)
  BY <1>1, BlockUsed
<1>3. CASE Realloc(p, r)
  <2>1. PICK got : got = DlRealloc(gm, p, r)
    OBVIOUS
  <2>2. Reserved(gm, got, p, Request2Size(r))
    BY <1>2, <2>1, ReallocKeepsHeap
  <2>3. gm' = got.heap /\ live' = (IF got.mem = NULL THEN live ELSE Put(Without(live, {p}), got.mem, r))
        /\ freeing' = <<>>
    BY <1>1, <1>3, <2>1 DEF Realloc, Receive
  <2> QED  BY <1>1, <2>2, <2>3, ReservedHeld DEF Stepped
<1>4. CASE ReallocInPlace(p, r)
  <2>1. PICK got : got = DlReallocInPlace(gm, p, r)
    OBVIOUS
  <2>2. Reserved(gm, got, p, Request2Size(r))
    BY <1>2, <2>1, ReallocInPlaceKeepsHeap
  <2>3. gm' = got.heap /\ live' = (IF got.mem = NULL THEN live ELSE Put(Without(live, {p}), got.mem, r))
        /\ freeing' = <<>>
    BY <1>1, <1>4, <2>1 DEF ReallocInPlace, Receive
  <2> QED  BY <1>1, <2>2, <2>3, ReservedHeld DEF Stepped
<1> QED  BY <1>3, <1>4

(* free() keeps the invariant and every other block.                       *)
LEMMA FreeStep ==
  ASSUME HeapInv, NEW p \in DOMAIN live, Free(p)
  PROVE  Stepped({p})
<1>1. State(gm, live, <<>>) /\ freeing = <<>>
  BY RunningState DEF Free
<1>2. p \in UsedIn(gm.head) /\ Grown(gm)
  BY <1>1, BlockUsed
<1>3. gm' = DlFree(gm, p) /\ live' = Without(live, {p}) /\ freeing' = <<>>
  BY <1>1 DEF Free
<1>4. Left(gm, gm', UsedIn(gm.head) \ {p})
  BY <1>2, <1>3, FreeKeepsHeap
<1> QED  BY <1>1, <1>3, <1>4, HeldAfterFree DEF Stepped

(* independent_comalloc() keeps the invariant and every other block.       *)
LEMMA ComallocStep ==
  ASSUME HeapInv, NEW w \in Batches, NEW own \in BOOLEAN, IndependentComalloc(w, own)
  PROVE  Stepped({})
<1>1. State(gm, live, <<>>) /\ Heap(gm) /\ freeing = <<>>
  BY RunningState DEF IndependentComalloc, ReceiveBatch
<1>2. PICK res : res = Ialloc(gm, w, own)
  OBVIOUS
<1>3. w \in Seq(Nat) /\ w # <<>>
  BY ProgramAssumption
<1>4. Batched(gm, res, w, own)
  BY <1>1, <1>2, <1>3, ComallocKeepsHeap
<1>5. gm' = res.heap /\ live' = Joint(live, Received(res, w)) /\ freeing' = <<>>
  <2>1. ReceiveBatch(res, w)
    BY <1>2 DEF IndependentComalloc
  <2>2. live' = Joint(live, Received(res, w))
    BY Zenon, <2>1 DEF ReceiveBatch, Joint, Received, Elements
  <2>3. gm' = res.heap /\ freeing' = freeing
    BY Zenon, <2>1 DEF ReceiveBatch
  <2> QED  BY <1>1, <2>2, <2>3
<1> QED  BY <1>1, <1>3, <1>4, <1>5, BatchHeld DEF Stepped

(* Calling bulk_free() keeps the invariant: the array's chunks wait to be  *)
(* freed.                                                                  *)
LEMMA BulkFreeStep ==
  ASSUME HeapInv, NEW own, own \subseteq DOMAIN live, NEW array \in Arrays(own), BulkFree(array)
  PROVE  Stepped(own)
<1>1. State(gm, live, <<>>) /\ freeing = <<>>
  BY RunningState DEF BulkFree
<1>2. gm' = gm /\ live' = Without(live, {array[i] : i \in DOMAIN array}) /\ freeing' = array
  BY DEF BulkFree
<1> QED  BY <1>1, <1>2, ArrayHeld DEF Stepped

(* bulk_free() freeing a chunk, or merging two, keeps the invariant and    *)
(* every block.                                                            *)
LEMMA BulkFreeNextStep ==
  ASSUME HeapInv, BulkFreeNext
  PROVE  Stepped({})
<1>1. PICK m, l, f, p, rest : m = gm /\ l = live /\ f = freeing /\ p = Head(freeing) /\ rest = Tail(freeing)
  OBVIOUS
<1>2. State(m, l, f) /\ Heap(m) /\ f # <<>> /\ p = Head(f) /\ rest = Tail(f)
  BY <1>1 DEF HeapInv, State, BulkFreeNext
<1>3. f \in Seq(Int) /\ \A i, j \in 1 .. Len(f) : f[i] = f[j] => i = j
  BY <1>2 DEF State, Pending
<1>4. \A i \in 1 .. Len(f) : f[i] \in UsedIn(m.head) /\ f[i] \notin DOMAIN l
  <2>1. DOMAIN f = 1 .. Len(f)
    BY <1>3
  <2> QED  BY <1>2, <2>1 DEF State, Holds, Pending
<1>5. Fewer(f, rest, p)
  BY <1>2, <1>3, FewerTail
<1>6. p \in UsedIn(m.head) /\ p \notin DOMAIN l
  BY <1>4, <1>5 DEF Fewer
<1>7. Grown(m)
  BY <1>2, <1>6, UsedGrown
<1>8. rest # <<>> => Fewer(f, <<p>> \o Tail(rest), Head(rest))
  BY <1>2, <1>3, FewerMerged
<1>9. rest # <<>> => Head(rest) \in UsedIn(m.head) /\ Head(rest) \notin DOMAIN l
  BY <1>4, <1>8 DEF Fewer
<1>10. PICK g : g = freeing'
  OBVIOUS
<1>11. DOMAIN l \subseteq UsedIn(m.head)
  BY <1>2 DEF State, Holds
<1>12. CASE IsFollowed(m, p, rest)
  <2>1. rest # <<>>
    BY <1>12 DEF IsFollowed
  <2>2. PICK k, q : k = MergeOrFree(Check(m, Owned(m, p)), p, TRUE) /\ q = Head(rest)
    OBVIOUS
  <2>3. Merged(m, k, p, q)
    BY <1>6, <1>7, <1>9, <1>12, <2>2, BulkFreeStepKeepsHeap
  <2>4. g = <<p>> \o Tail(rest) /\ gm' = FinishBulkFree(k, g) /\ live' = l
    BY <1>1, <1>10, <1>12, <2>2 DEF BulkFreeNext, FreeNext, MergeOrFree
  <2>5. Grown(k) /\ UsedIn(k.head) = UsedIn(m.head) \ {q} /\ SizesKept(m.head, k.head, UsedIn(m.head) \ {p, q})
    BY <2>3 DEF Merged
  <2>6. Grown(gm') /\ UsedIn(gm'.head) = UsedIn(k.head) /\ SizesKept(k.head, gm'.head, UsedIn(k.head))
    BY <2>4, <2>5, FinishIs DEF SameBlocks
  <2>7. UsedIn(gm'.head) = UsedIn(m.head) \ {q}
    BY <2>5, <2>6
  <2>8. \A x \in DOMAIN l : gm'.head[x].size = m.head[x].size
    <3>1. \A x \in DOMAIN l : x \in UsedIn(m.head) \ {p, q} /\ x \in UsedIn(k.head)
      BY <1>6, <1>9, <1>11, <2>1, <2>2, <2>5
    <3> QED  BY <2>5, <2>6, <3>1 DEF SizesKept
  <2>9. State(gm', l, g) /\ Others(m, l, gm', l, {})
    <3>1. PICK n : n = gm'
      OBVIOUS
    <3>2. Heap(n) /\ UsedIn(n.head) = UsedIn(m.head) \ {q}
      BY <2>6, <2>7, <3>1, GrownIs
    <3>3. \A x \in DOMAIN l : n.head[x].size = m.head[x].size
      BY <2>8, <3>1
    <3>4. Fewer(f, g, q)
      BY <1>8, <2>1, <2>2, <2>4
    <3>5. State(n, l, g) /\ Others(m, l, n, l, {})
      BY <1>2, <3>2, <3>3, <3>4, HeldAfterNext
    <3> QED  BY <3>1, <3>5
  <2> QED  BY <1>1, <1>10, <2>4, <2>9 DEF Stepped
<1>13. CASE ~IsFollowed(m, p, rest)
  <2>2. PICK k : k = MergeOrFree(Check(m, Owned(m, p)), p, FALSE)
    OBVIOUS
  <2>3. Disposed(m, k, p)
    BY <1>6, <1>7, <1>9, <1>13, <2>2, BulkFreeStepKeepsHeap
  <2>4. g = rest /\ gm' = FinishBulkFree(k, g) /\ live' = l
    BY <1>1, <1>10, <1>13, <2>2 DEF BulkFreeNext, FreeNext, MergeOrFree
  <2>5. Grown(k) /\ UsedIn(k.head) = UsedIn(m.head) \ {p} /\ SizesKept(m.head, k.head, UsedIn(m.head) \ {p})
    BY <2>3 DEF Disposed
  <2>6. Grown(gm') /\ UsedIn(gm'.head) = UsedIn(k.head) /\ SizesKept(k.head, gm'.head, UsedIn(k.head))
    BY <2>4, <2>5, FinishIs DEF SameBlocks
  <2>7. UsedIn(gm'.head) = UsedIn(m.head) \ {p}
    BY <2>5, <2>6
  <2>8. \A x \in DOMAIN l : gm'.head[x].size = m.head[x].size
    BY <1>6, <1>11, <2>5, <2>6 DEF SizesKept
  <2>9. State(gm', l, g) /\ Others(m, l, gm', l, {})
    <3>1. PICK n : n = gm'
      OBVIOUS
    <3>2. Heap(n) /\ UsedIn(n.head) = UsedIn(m.head) \ {p}
      BY <2>6, <2>7, <3>1, GrownIs
    <3>3. \A x \in DOMAIN l : n.head[x].size = m.head[x].size
      BY <2>8, <3>1
    <3>4. Fewer(f, g, p)
      BY <1>5, <2>4
    <3>5. State(n, l, g) /\ Others(m, l, n, l, {})
      BY <1>2, <3>2, <3>3, <3>4, HeldAfterNext
    <3> QED  BY <3>1, <3>5
  <2> QED  BY <1>1, <1>10, <2>4, <2>9 DEF Stepped
<1> QED  BY <1>12, <1>13

(* malloc_trim() keeps the invariant and every block.                      *)
LEMMA TrimStep ==
  ASSUME HeapInv, NEW pad \in Nat, MallocTrim(pad)
  PROVE  Stepped({})
<1>1. State(gm, live, <<>>) /\ Heap(gm) /\ freeing = <<>>
  BY RunningState DEF MallocTrim
<1>2. gm' = SysTrim(gm, pad) /\ live' = live /\ freeing' = <<>>
  BY <1>1 DEF MallocTrim
<1>3. SameBlocks(gm, gm')
  BY <1>1, <1>2, SysTrimIs
<1> QED  BY <1>1, <1>2, <1>3, HeldStill DEF SameBlocks, Stepped

(* malloc_set_footprint_limit() keeps the invariant and every block.       *)
LEMMA LimitStep ==
  ASSUME HeapInv, NEW bytes, SetFootprintLimit(bytes)
  PROVE  Stepped({})
<1>1. State(gm, live, <<>>) /\ Heap(gm) /\ freeing = <<>>
  BY RunningState DEF SetFootprintLimit
<1>2. PICK z : z = FootprintLimitFor(bytes)
  OBVIOUS
<1>3. gm' = [gm EXCEPT !.footprint_limit = z] /\ live' = live /\ freeing' = <<>>
  BY <1>1, <1>2 DEF SetFootprintLimit
<1>4. Heap(gm') /\ gm'.head = gm.head
  BY <1>1, <1>3, LimitKeepsHeap
<1> QED  BY <1>1, <1>3, <1>4, HeldStill DEF SizesKept, Stepped

(* Every call but a step that changes nothing of the heap.                 *)
LEMMA SameStep ==
  ASSUME HeapInv, gm' = gm, live' = live, freeing' = freeing
  PROVE  Stepped({})
BY DEF HeapInv, Stepped, Others

(* A call of the program, on the blocks in own if it frees or resizes any. *)
LEMMA CallsStep ==
  ASSUME HeapInv, NEW own, own \subseteq DOMAIN live, Calls(own)
  PROVE  Stepped(own) /\ HeapInv'
<1>1. ASSUME NEW r \in Requests, Malloc(r)
      PROVE  Stepped({}) /\ sp' = sp /\ asked' = asked
  BY <1>1, MallocStep, ProgramAssumption DEF Malloc, Receive
<1>2. ASSUME NEW a \in Alignments, NEW r \in Requests, Memalign(a, r)
      PROVE  Stepped({}) /\ sp' = sp /\ asked' = asked
  BY <1>2, MemalignStep, ProgramAssumption DEF Memalign, Receive
<1>3. ASSUME NEW p \in own, NEW r \in Requests, Realloc(p, r) \/ ReallocInPlace(p, r)
      PROVE  Stepped({p}) /\ sp' = sp /\ asked' = asked
  BY <1>3, ReallocStep, ProgramAssumption DEF Realloc, ReallocInPlace, Receive
<1>4. ASSUME NEW p \in own, Free(p)
      PROVE  Stepped({p}) /\ sp' = sp /\ asked' = asked
  BY <1>4, FreeStep DEF Free
<1>5. ASSUME NEW w \in Batches, NEW own_array \in BOOLEAN, IndependentComalloc(w, own_array)
      PROVE  Stepped({}) /\ sp' = sp /\ asked' = asked
  <2>1. Stepped({})
    BY <1>5, ComallocStep
  <2>2. sp' = sp /\ asked' = asked
    BY Zenon, <1>5 DEF IndependentComalloc, ReceiveBatch
  <2> QED  BY <2>1, <2>2
<1>6. ASSUME NEW array \in Arrays(own), BulkFree(array)
      PROVE  Stepped(own) /\ sp' = sp /\ asked' = asked
  BY <1>6, BulkFreeStep DEF BulkFree
<1>7. ASSUME BulkFreeNext
      PROVE  Stepped({}) /\ sp' = sp /\ asked' = asked
  BY <1>7, BulkFreeNextStep DEF BulkFreeNext, FreeNext
<1>8. ASSUME NEW pad \in TrimPads, MallocTrim(pad)
      PROVE  Stepped({}) /\ sp' = sp /\ asked' = asked
  BY <1>8, TrimStep, ProgramAssumption DEF MallocTrim
<1>9. ASSUME NEW bytes \in Limits, SetFootprintLimit(bytes)
      PROVE  Stepped({}) /\ sp' = sp /\ asked' \in Limits
  BY <1>9, LimitStep DEF SetFootprintLimit
<1>10. ASSUME MoveStack
       PROVE  Stepped({}) /\ sp' \in StackAddrs /\ asked' = asked
  BY <1>10, SameStep DEF MoveStack
<1>11. ASSUME NEW S, S \subseteq own, Stepped(S)
       PROVE  Stepped(own)
  BY <1>11 DEF Stepped, Others
<1>12. sp \in StackAddrs /\ asked \in Limits \cup {MaxSize}
  BY DEF HeapInv
<1>13. Stepped(own) /\ sp' \in StackAddrs /\ asked' \in Limits \cup {MaxSize}
  BY <1>1, <1>2, <1>3, <1>4, <1>5, <1>6, <1>7, <1>8, <1>9, <1>10, <1>11, <1>12 DEF Calls
<1> QED  BY <1>13 DEF Stepped, HeapInv

(* HeapInv is inductive.                                                   *)
LEMMA NextHeap == HeapInv /\ [Next]_vars => HeapInv'
<1> SUFFICES ASSUME HeapInv, [Next]_vars PROVE HeapInv'
  OBVIOUS
<1>1. CASE Next
  BY <1>1, CallsStep DEF Next
<1>2. CASE UNCHANGED vars
  BY <1>2 DEF vars, HeapInv
<1> QED  BY <1>1, <1>2

(* The heap is sound in every state that calls lead to, and the chunks in  *)
(* use are the program's blocks and what bulk_free() has still to free.    *)
THEOREM HeapInvariance == Spec => []HeapInv
BY InitHeap, NextHeap, PTL DEF Spec

-----------------------------------------------------------------------------
(* The invariants of module HeapInvariants                                 *)

(* The two kinds of heap, as the invariants see them.                      *)
LEMMA HeapKinds ==
  ASSUME HeapInv
  PROVE  (Empty(gm) /\ gm.top = NULL) \/ (Grown(gm) /\ gm.top # NULL)
BY GrownIs DEF HeapInv, State, Heap, Empty

(* Where the chunks are: before the top chunk, the top chunk itself, and   *)
(* after it the fake chunk.                                                *)
LEMMA ChunksAre ==
  ASSUME Grown(gm)
  PROVE  /\ Segment(gm.head, gm.foot, gm.segbase, gm.top, gm.topsize)
         /\ Fake \in DOMAIN gm.head /\ gm.top \in DOMAIN gm.head /\ gm.top < Fake /\ Fake \in Int
         /\ \A p \in DOMAIN gm.head : p \in Int /\ (p = Fake \/ p = gm.top \/ p < gm.top)
         /\ \A p \in Chunks : p = gm.top \/ p < gm.top
<1>1. Segment(gm.head, gm.foot, gm.segbase, gm.top, gm.topsize)
  BY GrownIs
<1>2. /\ DOMAIN gm.head \subseteq Int /\ gm.top \in Int /\ gm.topsize \in Int /\ 0 < gm.topsize
      /\ gm.top \in DOMAIN gm.head
  BY <1>1, SegmentIs
<1>3. /\ \A x \in DOMAIN gm.head : x <= gm.top \/ x = gm.top + gm.topsize
      /\ gm.top + gm.topsize \in DOMAIN gm.head
  BY <1>1 DEF Segment
<1>4. Fake = gm.top + gm.topsize
  BY DEF Fake
<1>5. \A p \in DOMAIN gm.head : p \in Int /\ (p = Fake \/ p = gm.top \/ p < gm.top)
  BY <1>2, <1>3, <1>4
<1> QED  BY <1>1, <1>2, <1>3, <1>4, <1>5 DEF Chunks

(* The free chunks and the chunks in use, as the invariants name them.     *)
LEMMA FreeChunksAre ==
  ASSUME Grown(gm)
  PROVE  FreeChunks \ {gm.top} = FreeIn(gm.head, gm.top) /\ UsedChunks = UsedIn(gm.head)
<1>1. /\ gm.top < Fake /\ Fake \in Int /\ gm.top \in Int
      /\ \A p \in DOMAIN gm.head : p \in Int /\ (p = Fake \/ p = gm.top \/ p < gm.top)
  BY ChunksAre DEF Segment, Tiles
<1>2. ~gm.head[Fake].cinuse
  BY GrownIs, TopIs DEF Fake
<1>3. FreeChunks \ {gm.top} = FreeIn(gm.head, gm.top)
  <2>1. ASSUME NEW p
        PROVE  p \in FreeChunks \ {gm.top} <=> p \in FreeIn(gm.head, gm.top)
    BY <1>1 DEF FreeChunks, Chunks, FreeIn, Cinuse
  <2> QED  BY <2>1
<1>4. UsedChunks = UsedIn(gm.head)
  <2>1. ASSUME NEW p
        PROVE  p \in UsedChunks <=> p \in UsedIn(gm.head)
    BY <1>2 DEF UsedChunks, Chunks, UsedIn, Cinuse
  <2> QED  BY <2>1
<1> QED  BY <1>3, <1>4

(* No check of the code ever fails, so the program is never aborted.       *)
THEOREM ChecksPass == Spec => []NoAbort
<1>1. HeapInv => NoAbort
  BY HeapIs DEF HeapInv, State, NoAbort
<1> QED  BY <1>1, HeapInvariance, PTL

(* A heap that is sound is tiled by its chunks.                            *)
LEMMA HeapTiled == HeapInv => Tiled
<1> SUFFICES ASSUME HeapInv, gm.top # NULL PROVE Tiled
  BY DEF Tiled
<1>1. Grown(gm)
  BY HeapKinds
<1>2. PICK h, f, a, t, n : h = gm.head /\ f = gm.foot /\ a = gm.segbase /\ t = gm.top /\ n = gm.topsize
  OBVIOUS
<1>3. Segment(h, f, a, t, n)
  BY <1>1, <1>2, ChunksAre
<1>4. /\ a \in Int /\ t \in Int /\ n \in Int /\ 0 < n /\ a <= t /\ a \in DOMAIN h /\ t \in DOMAIN h
      /\ DOMAIN h \subseteq Int /\ h[t].size = n
  BY <1>3, SegmentIs, TopIs
<1>5. t + n \in DOMAIN h /\ \A x \in DOMAIN h : a <= x /\ (x <= t \/ x = t + n)
  BY <1>3 DEF Segment
<1>6. Fake = t + n
  BY <1>2 DEF Fake
<1>7. ASSUME NEW p \in Chunks
      PROVE  /\ a <= p /\ NextOf(p) \in DOMAIN h
             /\ \A q \in DOMAIN h : q <= p \/ q >= NextOf(p)
             /\ p # t => h[p].size >= MinChunk
  <2>1. p \in DOMAIN h /\ p # t + n /\ a <= p /\ p \in Int
    BY <1>2, <1>4, <1>5, <1>6 DEF Chunks
  <2>2. NextOf(p) = p + h[p].size
    BY <1>2 DEF NextOf, ChunkSize
  <2>3. CASE p = t
    BY <1>4, <1>5, <2>1, <2>2, <2>3
  <2>4. CASE p # t
    <3>1. p < t
      BY <1>4, <1>5, <2>1, <2>4
    <3>2. GoodChunk(h, f, p, t)
      BY <1>3, <2>1, <3>1, ChunkIs
    <3>3. End(h, p) = NextOf(p)
      BY <2>2 DEF End
    <3> QED  BY <2>1, <3>2, <3>3 DEF GoodChunk
  <2> QED  BY <2>3, <2>4
<1>8. /\ gm.top + gm.topsize + TopFoot = gm.segbase + gm.segsize
      /\ gm.segbase + gm.segsize = gm.brk
  BY <1>1 DEF Grown, Sound, Counted
<1>9. Fake + TopFoot = SegmentEnd(gm) /\ SegmentEnd(gm) = gm.brk
  BY <1>8 DEF Fake, SegmentEnd
<1>10. {gm.segbase, gm.top, Fake} \subseteq DOMAIN gm.head
  BY <1>2, <1>4, <1>5, <1>6
<1>11. ChunkSize(gm, gm.top) = gm.topsize
  BY <1>2, <1>4 DEF ChunkSize
<1>12. \A p \in Chunks :
         /\ gm.segbase <= p /\ NextOf(p) \in DOMAIN gm.head
         /\ \A q \in DOMAIN gm.head : q <= p \/ q >= NextOf(p)
         /\ p # gm.top => ChunkSize(gm, p) >= MinChunk
  BY <1>2, <1>7 DEF ChunkSize
<1> QED  BY <1>9, <1>10, <1>11, <1>12 DEF Tiled

(* The chunks always tile the segment, up to the break.                    *)
THEOREM ChunksTile == Spec => []Tiled
BY HeapTiled, HeapInvariance, PTL

(* A heap that is sound has exact boundary tags.                           *)
LEMMA HeapTagged == HeapInv => BoundaryTags
<1> SUFFICES ASSUME HeapInv, NEW p \in Chunks \ {gm.top}
             PROVE  /\ Pinuse(gm, NextOf(p)) = Cinuse(gm, p)
                    /\ NextOf(p) \in DOMAIN gm.foot
                    /\ gm.foot[NextOf(p)] = IF Cinuse(gm, p) THEN Magic ELSE ChunkSize(gm, p)
  BY DEF BoundaryTags
<1>1. Grown(gm)
  BY HeapKinds DEF Empty, Chunks
<1>2. /\ Segment(gm.head, gm.foot, gm.segbase, gm.top, gm.topsize)
      /\ p \in DOMAIN gm.head /\ p < gm.top
  BY <1>1, ChunksAre DEF Chunks
<1>3. GoodChunk(gm.head, gm.foot, p, gm.top)
  BY <1>2, ChunkIs
<1>4. NextOf(p) = End(gm.head, p)
  BY DEF NextOf, End, ChunkSize
<1> QED  BY Zenon, <1>3, <1>4 DEF GoodChunk, Pinuse, Cinuse, ChunkSize

(* What a chunk's head, its successor's and the foot between them tell of  *)
(* its status is always the same.                                          *)
THEOREM TagsAgree == Spec => []BoundaryTags
BY HeapTagged, HeapInvariance, PTL

(* A heap that is sound has no two free neighbours.                        *)
LEMMA HeapCoalesced == HeapInv => Coalesced
<1> SUFFICES ASSUME HeapInv, gm.top # NULL PROVE Coalesced
  BY DEF Coalesced
<1>1. Grown(gm)
  BY HeapKinds
<1>2. Segment(gm.head, gm.foot, gm.segbase, gm.top, gm.topsize)
  BY <1>1, ChunksAre
<1>3. Pinuse(gm, gm.segbase)
  BY <1>2 DEF Segment, Pinuse
<1>4. ASSUME NEW p \in FreeChunks
      PROVE  Pinuse(gm, p)
  <2>1. CASE p = gm.top
    BY <1>2, <2>1, TopIs DEF Pinuse
  <2>2. CASE p # gm.top
    <3>1. p \in FreeIn(gm.head, gm.top)
      BY <1>1, <2>2, FreeChunksAre
    <3> QED  BY <1>2, <3>1, FreeNeighbour DEF Pinuse
  <2> QED  BY <2>1, <2>2
<1> QED  BY <1>3, <1>4 DEF Coalesced

(* Two neighbours are never both free: freeing always coalesces.           *)
THEOREM NeighboursMerged == Spec => []Coalesced
BY HeapCoalesced, HeapInvariance, PTL

(* The places of the lists, and the chunk at one.                          *)
Binplaces(bins) == UNION {{s} \X DOMAIN bins[s] : s \in DOMAIN bins}
ChunkAt(bins, e) == bins[e[1]][e[2]]

(* The places of the bins' lists.                                          *)
LEMMA PlacesAre ==
  ASSUME NEW bins, NEW e
  PROVE  e \in Binplaces(bins) <=> \E s \in DOMAIN bins : \E i \in DOMAIN bins[s] : e = <<s, i>>
BY DEF Binplaces

(* A chunk that is in the list of its size once is in one place of all.    *)
LEMMA OnePlace ==
  ASSUME NEW bins, NEW B, NEW h, Binned(bins, B, h), NEW p \in B
  PROVE  Cardinality({e \in Binplaces(bins) : ChunkAt(bins, e) = p}) = 1
<1>1. PICK s : s = h[p].size
  OBVIOUS
<1>2. s \in DOMAIN bins /\ OnceIn(bins[s], p) /\ bins[s] \in Seq(Int)
  BY <1>1 DEF Binned
<1>3. DOMAIN bins[s] = 1 .. Len(bins[s])
  BY Zenon, <1>2, LenProperties
<1>4. PICK i \in 1 .. Len(bins[s]) : bins[s][i] = p /\ \A j \in 1 .. Len(bins[s]) : bins[s][j] = p => j = i
  BY <1>2 DEF OnceIn, Once
<1>5. PICK E : E = {e \in Binplaces(bins) : ChunkAt(bins, e) = p}
  OBVIOUS
<1>6. ASSUME NEW e \in E
      PROVE  e = <<s, i>>
  <2>1. e \in Binplaces(bins) /\ ChunkAt(bins, e) = p
    BY <1>5
  <2>2. PICK z \in DOMAIN bins : \E j \in DOMAIN bins[z] : e = <<z, j>>
    BY <2>1, PlacesAre
  <2>3. PICK j \in DOMAIN bins[z] : e = <<z, j>>
    BY <2>2
  <2>4. bins[z] \in Seq(Int)
    BY DEF Binned
  <2>5. j \in 1 .. Len(bins[z])
    BY Zenon, <2>4, LenProperties
  <2>6. bins[z][j] = p
    BY <2>1, <2>3 DEF ChunkAt
  <2>7. z = s
    BY <1>1, <2>5, <2>6 DEF Binned
  <2>8. j = i
    BY <1>4, <2>5, <2>6, <2>7
  <2> QED  BY <2>3, <2>7, <2>8
<1>7. <<s, i>> \in E
  <2>1. <<s, i>> \in Binplaces(bins)
    BY <1>2, <1>3, PlacesAre
  <2>2. ChunkAt(bins, <<s, i>>) = p
    BY <1>4 DEF ChunkAt
  <2> QED  BY <1>5, <2>1, <2>2
<1>8. E = {<<s, i>>}
  BY <1>6, <1>7
<1> QED  BY <1>5, <1>8, FS_Singleton

(* A heap that is sound has every free chunk in one list, and no other     *)
(* chunk.                                                                  *)
LEMMA HeapListed == HeapInv => FreeListsExact
<1> SUFFICES ASSUME HeapInv PROVE FreeListsExact
  OBVIOUS
<1>0. PICK F : F = FreeChunks \ {gm.top}
  OBVIOUS
<1>1. Listed(gm, F, gm.head)
  <2>1. CASE Grown(gm)
    BY <1>0, <2>1, GrownIs, FreeChunksAre
  <2>2. CASE Empty(gm)
    <3>1. F = {}
      BY <1>0, <2>2 DEF Empty, FreeChunks, Chunks
    <3>2. Binned(gm.bins, {}, gm.head)
      <4>1. \A s \in DOMAIN gm.bins : gm.bins[s] = <<>>
        BY <2>2 DEF Empty
      <4>2. <<>> \in Seq(Int) /\ 1 .. Len(<<>>) = {}
        OBVIOUS
      <4>3. \A s \in DOMAIN gm.bins : gm.bins[s] \in Seq(Int) /\ 1 .. Len(gm.bins[s]) = {}
        BY Zenon, <4>1, <4>2
      <4> QED  BY Zenon, <4>3 DEF Binned
    <3> QED  BY <2>2, <3>1, <3>2 DEF Empty, Listed
  <2> QED  BY <2>1, <2>2, HeapKinds
<1>2. /\ Binned(gm.bins, F \ {gm.dv}, gm.head) /\ (gm.dv = NULL <=> gm.dvsize = 0)
      /\ gm.dv # NULL => gm.dv \in F /\ gm.head[gm.dv].size = gm.dvsize
  BY <1>1 DEF Listed
<1>3. ASSUME NEW e \in Binplaces(gm.bins)
      PROVE  ChunkAt(gm.bins, e) \in F \ {gm.dv} /\ gm.head[ChunkAt(gm.bins, e)].size = e[1]
  <2>1. PICK s \in DOMAIN gm.bins : \E i \in DOMAIN gm.bins[s] : e = <<s, i>>
    BY <1>3, PlacesAre
  <2>2. PICK i \in DOMAIN gm.bins[s] : e = <<s, i>>
    BY <2>1
  <2>3. gm.bins[s] \in Seq(Int)
    BY <1>2 DEF Binned
  <2>4. i \in 1 .. Len(gm.bins[s])
    BY Zenon, <2>3, LenProperties
  <2>5. ChunkAt(gm.bins, e) = gm.bins[s][i] /\ e[1] = s
    BY <2>2 DEF ChunkAt
  <2> QED  BY <1>2, <2>4, <2>5 DEF Binned
<1>4. \A p \in F \ {gm.dv} : Cardinality({e \in Binplaces(gm.bins) : ChunkAt(gm.bins, e) = p}) = 1
  BY <1>2, OnePlace
<1>5. F \ {gm.dv} = FreeChunks \ {gm.top, gm.dv}
  BY <1>0
<1>6. \A e \in Binplaces(gm.bins) :
         ChunkAt(gm.bins, e) \in FreeChunks \ {gm.top, gm.dv} /\ ChunkSize(gm, ChunkAt(gm.bins, e)) = e[1]
  BY <1>3, <1>5 DEF ChunkSize
<1>7. \A p \in FreeChunks \ {gm.top, gm.dv} :
         Cardinality({e \in Binplaces(gm.bins) : ChunkAt(gm.bins, e) = p}) = 1
  BY <1>4, <1>5
<1>8. gm.dv # NULL => gm.dv \in FreeChunks \ {gm.top} /\ ChunkSize(gm, gm.dv) = gm.dvsize
  BY <1>0, <1>2 DEF ChunkSize
<1> QED  BY Zenon, <1>2, <1>6, <1>7, <1>8 DEF FreeListsExact, Binplaces, ChunkAt

(* Every free chunk can always be found in exactly one place, and nothing  *)
(* else is found there.                                                    *)
THEOREM FreeChunksFound == Spec => []FreeListsExact
BY HeapListed, HeapInvariance, PTL

(* The chunks in use are the blocks.                                       *)
LEMMA HeapBlocks == HeapInv => BlocksExact
<1> SUFFICES ASSUME HeapInv PROVE BlocksExact
  OBVIOUS
<1>1. UsedChunks = UsedIn(gm.head)
  <2>1. CASE Grown(gm)
    BY <2>1, FreeChunksAre
  <2>2. CASE Empty(gm)
    BY <2>2 DEF Empty, UsedChunks, UsedIn, Chunks
  <2> QED  BY <2>1, <2>2, HeapKinds
<1>2. Holds(gm.head, live, freeing)
  BY DEF HeapInv, State
<1>3. UsedChunks = DOMAIN live \cup {freeing[i] : i \in DOMAIN freeing}
  BY <1>1, <1>2 DEF Holds
<1>4. ASSUME NEW p \in DOMAIN live
      PROVE  /\ ChunkSize(gm, p) - Overhead >= live[p]
             /\ ChunkSize(gm, p) <= Request2Size(live[p]) + MinChunk
  <2>1. PICK s, r : s = gm.head[p].size /\ r = live[p]
    OBVIOUS
  <2>2. r \in Nat /\ Request2Size(r) <= s /\ s <= Request2Size(r) + MinChunk
    BY <1>2, <2>1 DEF Holds, Fits
  <2>3. s \in Int
    <3>1. p \in UsedIn(gm.head) /\ Grown(gm)
      BY BlockUsed DEF HeapInv
    <3>2. Segment(gm.head, gm.foot, gm.segbase, gm.top, gm.topsize)
      BY <3>1, GrownIs
    <3> QED  BY <2>1, <3>1, <3>2, ChunkIs DEF UsedIn
  <2>4. s - Overhead >= r
    BY <2>2, <2>3, ListsAssumption, TagsAssumption DEF Request2Size
  <2> QED  BY <2>1, <2>2, <2>4 DEF ChunkSize
<1> QED  BY <1>3, <1>4 DEF BlocksExact

(* The chunks in use are always the blocks of the program and those that   *)
(* bulk_free() has still to free, each large enough, none much too large.  *)
THEOREM ChunksAreBlocks == Spec => []BlocksExact
BY HeapBlocks, HeapInvariance, PTL

(* The footprint is what the system has given, and never above its peak.   *)
THEOREM FootprintCounted == Spec => []FootprintExact
<1>1. HeapInv => FootprintExact
  <2> SUFFICES ASSUME HeapInv PROVE FootprintExact
    OBVIOUS
  <2>1. CASE Grown(gm)
    BY <2>1 DEF Grown, Sound, Counted, FootprintExact
  <2>2. CASE Empty(gm)
    BY <2>2 DEF Empty, FootprintExact
  <2> QED  BY <2>1, <2>2, HeapKinds
<1> QED  BY <1>1, HeapInvariance, PTL

(* A heap that is sound is one of the right type.                          *)
LEMMA HeapTyped == HeapInv => TypeOK
<1> SUFFICES ASSUME HeapInv PROVE TypeOK
  OBVIOUS
<1>1. /\ HeapStart \in Int /\ HeapSize \in Int /\ HeapSize >= 0 /\ HeapEnd = HeapStart + HeapSize
      /\ TopFoot \in Int /\ TopFoot > 0 /\ MinChunk \in Int /\ MinChunk > 0
  BY HeapAssumption, TagsAssumption, ListsAssumption DEF HeapEnd
<1>2. /\ DOMAIN gm.bins = MinChunk .. HeapSize /\ gm.brk \in HeapStart .. HeapEnd
      /\ gm.ok = TRUE /\ gm.contiguous \in BOOLEAN
  BY HeapIs DEF HeapInv, State, Breaking
<1>3. {gm.contiguous, gm.ok} \subseteq BOOLEAN
  BY Zenon, <1>2
<1>4. /\ DOMAIN gm.head \subseteq HeapStart .. HeapEnd
      /\ \A p \in DOMAIN gm.head :
           gm.head[p] \in [size : 1 .. HeapSize, cinuse : BOOLEAN, pinuse : BOOLEAN]
      /\ DOMAIN gm.foot \subseteq HeapStart .. HeapEnd
      /\ \A p \in DOMAIN gm.foot : gm.foot[p] \in {Magic} \cup 1 .. HeapSize
      /\ gm.dv \in {NULL} \cup HeapStart .. HeapEnd /\ gm.dvsize \in 0 .. HeapSize
      /\ gm.top \in {NULL} \cup HeapStart .. HeapEnd /\ gm.topsize \in 0 .. HeapSize
      /\ gm.trim_check \in {0, TrimThreshold, MaxSize}
  <2>1. CASE Empty(gm)
    BY <1>1, <2>1 DEF Empty
  <2>2. CASE Grown(gm)
    <3>1. PICK h, f, a, t, n : h = gm.head /\ f = gm.foot /\ a = gm.segbase /\ t = gm.top /\ n = gm.topsize
      OBVIOUS
    <3>2. Segment(h, f, a, t, n)
      BY <2>2, <3>1, ChunksAre
    <3>3. /\ a \in Int /\ t \in Int /\ n \in Int /\ a <= t /\ 0 < n /\ Words(h)
          /\ HeapStart <= a /\ t + n + TopFoot <= HeapEnd /\ t \in DOMAIN h
      BY <3>2, SegmentIs
    <3>4. /\ \A x \in DOMAIN h : x \in Int /\ a <= x /\ (x <= t \/ x = t + n)
          /\ \A x \in DOMAIN f : x \in Int /\ a <= x /\ x <= t /\ f[x] \in {Magic} \cup 1 .. HeapSize
      BY <3>2 DEF Segment, Words
    <3>5. DOMAIN h \subseteq HeapStart .. HeapEnd /\ DOMAIN f \subseteq HeapStart .. HeapEnd
      BY <1>1, <3>3, <3>4
    <3>6. h[t].size = n /\ h[t + n].size = TopFoot
      BY <3>2, TopIs
    <3>7. n \in 1 .. HeapSize /\ TopFoot \in 1 .. HeapSize /\ n \in 0 .. HeapSize
      BY <1>1, <3>3
    <3>8. \A p \in DOMAIN h : h[p].size \in 1 .. HeapSize
      <4> SUFFICES ASSUME NEW p \in DOMAIN h PROVE h[p].size \in 1 .. HeapSize
        OBVIOUS
      <4>1. CASE p < t
        <5>1. h[p].size \in MinChunk .. HeapSize
          BY <3>2, <4>1, ChunkIs
        <5> QED  BY <1>1, <5>1
      <4>2. CASE p = t
        BY <3>6, <3>7, <4>2
      <4>3. CASE p = t + n
        BY <3>6, <3>7, <4>3
      <4> QED  BY <3>3, <3>4, <4>1, <4>2, <4>3
    <3>9. \A p \in DOMAIN h : h[p] \in [size : 1 .. HeapSize, cinuse : BOOLEAN, pinuse : BOOLEAN]
      BY <3>3, <3>8 DEF Words
    <3>10. gm.dvsize \in 0 .. HeapSize /\ (gm.dv = NULL \/ gm.dv \in FreeIn(h, t))
      <4>1. gm.dv = NULL <=> gm.dvsize = 0
        BY <2>2, GrownIs DEF Listed
      <4> QED  BY <2>2, <3>1, <4>1, DvIs
    <3>11. gm.trim_check \in {TrimThreshold, MaxSize}
      BY <2>2 DEF Grown, Sound, Counted
    <3>12. gm.dv \in {NULL} \cup HeapStart .. HeapEnd
      BY <3>5, <3>10 DEF FreeIn
    <3>13. t \in HeapStart .. HeapEnd
      BY <3>3, <3>5
    <3> QED  BY <3>1, <3>4, <3>5, <3>7, <3>9, <3>10, <3>11, <3>12, <3>13
  <2> QED  BY <2>1, <2>2, HeapKinds
<1>5. \A p \in DOMAIN live : p \in HeapStart .. HeapEnd /\ live[p] \in Nat
  BY <1>4, BlockUsed DEF HeapInv, State, Holds, Fits, UsedIn
<1>6. Len(freeing) <= MaxBatch /\ sp \in StackAddrs /\ asked \in Limits \cup {MaxSize}
  BY DEF HeapInv, State, Pending
<1> QED  BY <1>2, <1>3, <1>4, <1>5, <1>6 DEF TypeOK

(* Every word, pointer and count is always one that the code can hold.     *)
THEOREM HeapTypes == Spec => []TypeOK
BY HeapTyped, HeapInvariance, PTL

-----------------------------------------------------------------------------
(* What a step may not do                                                  *)

(* A block keeps its header and its size through every step but a realloc  *)
(* or realloc_in_place of that very block.                                 *)
LEMMA SizesStep ==
  ASSUME HeapInv, Next, NEW p \in DOMAIN live \cap DOMAIN live'
  PROVE  \/ p \in DOMAIN gm'.head /\ gm'.head[p].size = gm.head[p].size
         \/ \E r \in Requests : Realloc(p, r) \/ ReallocInPlace(p, r)
<1>1. p \in DOMAIN gm'.head
  <2>1. State(gm', live', freeing')
    BY CallsStep DEF Next, Stepped
  <2> QED  BY <2>1, BlockUsed DEF UsedIn
<1>2. ASSUME NEW S, Stepped(S), p \notin S
      PROVE  gm'.head[p].size = gm.head[p].size
  BY <1>2 DEF Stepped, Others
<1>3. ASSUME NEW r \in Requests, Malloc(r)
      PROVE  gm'.head[p].size = gm.head[p].size
  BY <1>2, <1>3, MallocStep, ProgramAssumption DEF Malloc
<1>4. ASSUME NEW a \in Alignments, NEW r \in Requests, Memalign(a, r)
      PROVE  gm'.head[p].size = gm.head[p].size
  BY <1>2, <1>4, MemalignStep, ProgramAssumption DEF Memalign
<1>5. ASSUME NEW q \in DOMAIN live, NEW r \in Requests, Realloc(q, r) \/ ReallocInPlace(q, r), p # q
      PROVE  gm'.head[p].size = gm.head[p].size
  BY <1>2, <1>5, ReallocStep, ProgramAssumption
<1>6. ASSUME NEW q \in DOMAIN live, Free(q)
      PROVE  gm'.head[p].size = gm.head[p].size
  <2>1. p # q
    BY <1>6 DEF Free, Without
  <2> QED  BY <1>2, <1>6, <2>1, FreeStep
<1>7. ASSUME NEW w \in Batches, NEW own \in BOOLEAN, IndependentComalloc(w, own)
      PROVE  gm'.head[p].size = gm.head[p].size
  BY <1>2, <1>7, ComallocStep
<1>8. ASSUME NEW array \in Arrays(DOMAIN live), BulkFree(array)
      PROVE  gm'.head[p].size = gm.head[p].size
  BY <1>8 DEF BulkFree
<1>9. ASSUME BulkFreeNext
      PROVE  gm'.head[p].size = gm.head[p].size
  BY <1>2, <1>9, BulkFreeNextStep
<1>10. ASSUME NEW pad \in TrimPads, MallocTrim(pad)
       PROVE  gm'.head[p].size = gm.head[p].size
  BY <1>2, <1>10, TrimStep, ProgramAssumption
<1>11. ASSUME NEW bytes \in Limits, SetFootprintLimit(bytes)
       PROVE  gm'.head[p].size = gm.head[p].size
  BY <1>2, <1>11, LimitStep
<1>12. ASSUME MoveStack
       PROVE  gm'.head[p].size = gm.head[p].size
  BY <1>12 DEF MoveStack
<1>13. ASSUME NEW q \in DOMAIN live, NEW r \in Requests, Realloc(q, r) \/ ReallocInPlace(q, r)
       PROVE  \/ gm'.head[p].size = gm.head[p].size
              \/ \E z \in Requests : Realloc(p, z) \/ ReallocInPlace(p, z)
  BY <1>5, <1>13
<1> QED  BY <1>1, <1>3, <1>4, <1>6, <1>7, <1>8, <1>9, <1>10, <1>11, <1>12, <1>13 DEF Next, Calls

(* What malloc_usable_size() says of a block stays the same while the      *)
(* program has it and does not resize it, whatever the calls do to its     *)
(* neighbours.                                                             *)
THEOREM SizesStay == Spec => UsableSizesKept
<1>1. HeapInv /\ [Next]_vars =>
        [\A p \in DOMAIN live \cap DOMAIN live' :
           \/ p \in DOMAIN gm'.head /\ gm'.head[p].size = gm.head[p].size
           \/ \E r \in Requests : Realloc(p, r) \/ ReallocInPlace(p, r)]_vars
  BY SizesStep
<1> QED  BY <1>1, HeapInvariance, PTL DEF Spec, UsableSizesKept

-----------------------------------------------------------------------------
(* The refinement                                                          *)

(* What a block may be asked to hold.                                      *)
AskedSizes ==
  Requests \cup UNION {{b[i] : i \in DOMAIN b} \cup {(Len(b) + 1) \div 2} : b \in Batches}

Sized(l) == l \in [DOMAIN l -> AskedSizes]

(* The blocks lie apart in the heap, headers and all.                      *)
LEMMA BlocksApart ==
  ASSUME NEW m, NEW l, NEW f, State(m, l, f)
  PROVE  Blocks!Separate(l) /\ \A p \in DOMAIN l : p \in HeapStart .. HeapEnd - 1
<1>1. /\ HeapStart \in Int /\ HeapSize \in Int /\ HeapEnd \in Int /\ TopFoot \in Int /\ TopFoot > 0
      /\ Overhead \in Int /\ Overhead > 0
  BY HeapAssumption, TagsAssumption, ListsAssumption DEF HeapEnd
<1>2. ASSUME NEW p \in DOMAIN l
      PROVE  /\ p \in Int /\ l[p] \in Nat /\ p + l[p] < End(m.head, p) /\ End(m.head, p) \in Int
             /\ HeapStart <= p /\ p < HeapEnd /\ End(m.head, p) <= HeapEnd /\ p < End(m.head, p)
             /\ p \in DOMAIN m.head /\ \A q \in DOMAIN m.head : q <= p \/ q >= End(m.head, p)
  <2>1. p \in UsedIn(m.head) /\ Grown(m)
    BY BlockUsed
  <2>2. Segment(m.head, m.foot, m.segbase, m.top, m.topsize) /\ p \in DOMAIN m.head /\ m.head[p].cinuse
    BY <2>1, GrownIs DEF UsedIn
  <2>3. /\ p \in Int /\ GoodChunk(m.head, m.foot, p, m.top) /\ m.head[p].size \in Int
        /\ End(m.head, p) \in Int /\ HeapStart <= p /\ p < HeapEnd /\ p < End(m.head, p)
        /\ End(m.head, p) <= m.top
    BY <2>2, ChunkIs
  <2>4. End(m.head, p) <= HeapEnd
    BY <1>1, <2>2, <2>3, SegmentIs
  <2>5. l[p] \in Nat /\ Request2Size(l[p]) <= m.head[p].size
    BY DEF State, Holds, Fits
  <2>6. PICK r, s : r = l[p] /\ s = m.head[p].size
    OBVIOUS
  <2>7. p + r < p + s
    BY <1>1, <2>3, <2>5, <2>6, ListsAssumption DEF Request2Size
  <2> QED  BY <2>2, <2>3, <2>4, <2>5, <2>6, <2>7 DEF End, GoodChunk
<1>3. \A p \in DOMAIN l : p .. p + l[p] \subseteq HeapStart .. HeapEnd - 1
  BY <1>1, <1>2
<1>4. ASSUME NEW p \in DOMAIN l, NEW q \in DOMAIN l, p < q
      PROVE  (p .. p + l[p]) \cap (q .. q + l[q]) = {}
  <2>1. q >= End(m.head, p)
    BY <1>2, <1>4
  <2> QED  BY <1>2, <2>1
<1>5. ASSUME NEW p \in DOMAIN l, NEW q \in DOMAIN l, p # q
      PROVE  (p .. p + l[p]) \cap (q .. q + l[q]) = {}
  <2>1. p < q \/ q < p
    BY <1>2, <1>5
  <2>2. CASE p < q
    BY <1>4, <2>2
  <2>3. CASE q < p
    <3>1. (q .. q + l[q]) \cap (p .. p + l[p]) = {}
      BY <1>4, <2>3
    <3> QED  BY <3>1
  <2> QED  BY <2>1, <2>2, <2>3
<1>6. \A p \in DOMAIN l : p \in HeapStart .. HeapEnd - 1
  BY <1>1, <1>2
<1>7. \A p, q \in DOMAIN l : p # q => (p .. p + l[p]) \cap (q .. q + l[q]) = {}
  BY <1>5
<1> QED  BY <1>3, <1>6, <1>7 DEF Blocks!Separate, Blocks!Extent

(* A call that gives blocks and takes none is one of Obtain.               *)
LEMMA GivesBlocks ==
  ASSUME Stepped({}), Sized(live')
  PROVE  Blocks!Next
<1>1. Blocks!Separate(live')
  BY BlocksApart DEF Stepped
<1>2. live' \in [DOMAIN live' -> AskedSizes]
  BY DEF Sized
<1>3. DOMAIN live \subseteq DOMAIN live' /\ \A p \in DOMAIN live : live'[p] = live[p]
  BY DEF Stepped, Others
<1>4. Blocks!Obtain
  BY <1>1, <1>2, <1>3 DEF Blocks!Obtain, AskedSizes
<1> QED  BY <1>4 DEF Blocks!Next

(* A function with one more or one changed value.                          *)
LEMMA SizedPut ==
  ASSUME NEW l, Sized(l), NEW S, NEW p, NEW r \in AskedSizes
  PROVE  Sized(Put(Without(l, S), p, r))
BY DEF Sized, Put, Without

(* What a program asks for in a call is among what it asks for in all.     *)
LEMMA AskedSizesIs == Requests \subseteq AskedSizes
BY DEF AskedSizes

(* A call that returns a block does what the abstract heap does.           *)
LEMMA ReceiveStep ==
  ASSUME HeapInv, Sized(live), NEW r \in Requests, NEW got, Receive(got, {}, r), Stepped({})
  PROVE  Sized(live') /\ Blocks!Next
<1>1. Sized(live')
  BY SizedPut, AskedSizesIs DEF Receive
<1> QED  BY <1>1, GivesBlocks

(* A call that resizes a block, moving it or not, does what the abstract   *)
(* heap does.                                                              *)
LEMMA ResizeStep ==
  ASSUME HeapInv, Sized(live), NEW p \in DOMAIN live, NEW r \in Requests, NEW got,
         Receive(got, {p}, r), Stepped({p}), got.mem \notin DOMAIN live \ {p}
  PROVE  Sized(live') /\ (Blocks!Next \/ live' = live)
<1>1. Sized(live')
  BY SizedPut, AskedSizesIs DEF Receive
<1>2. CASE got.mem = NULL
  BY <1>1, <1>2 DEF Receive
<1>3. CASE got.mem # NULL
  <2>1. PICK q : q = got.mem
    OBVIOUS
  <2>2. live' = Put(Without(live, {p}), q, r)
    BY <1>3, <2>1 DEF Receive
  <2>3. live' = [x \in (DOMAIN live \ {p}) \cup {q} |-> IF x = q THEN r ELSE live[x]]
    BY <2>2 DEF Put, Without
  <2>4. Blocks!Separate(live') /\ \A x \in DOMAIN live' : x \in HeapStart .. HeapEnd - 1
    BY BlocksApart DEF Stepped
  <2>5. q \in ((HeapStart .. HeapEnd - 1) \ DOMAIN live) \cup {p}
    BY <2>1, <2>3, <2>4
  <2>6. r \in AskedSizes
    BY AskedSizesIs
  <2>7. Blocks!Resize(p)
    BY <2>3, <2>4, <2>5, <2>6 DEF Blocks!Resize, AskedSizes
  <2> QED  BY <1>1, <2>7 DEF Blocks!Next
<1> QED  BY <1>2, <1>3

(* A call that frees blocks does what the abstract heap does.              *)
LEMMA ReleaseStep ==
  ASSUME Sized(live), NEW S, S \subseteq DOMAIN live, live' = Without(live, S)
  PROVE  Sized(live') /\ Blocks!Next
<1>1. Sized(live')
  BY DEF Sized, Without
<1>2. Blocks!Release
  BY DEF Blocks!Release, Without
<1> QED  BY <1>1, <1>2 DEF Blocks!Next

(* realloc() moves a block to no place where the program has another one.  *)
LEMMA ReallocApart ==
  ASSUME HeapInv, NEW p \in DOMAIN live, NEW r \in Requests, Realloc(p, r) \/ ReallocInPlace(p, r)
  PROVE  \E got : Receive(got, {p}, r) /\ got.mem \notin DOMAIN live \ {p}
<1>0. Running /\ r \in Nat
  BY ProgramAssumption DEF Realloc, ReallocInPlace, Receive
<1>1. State(gm, live, <<>>)
  BY <1>0, RunningState
<1>2. p \in UsedIn(gm.head) /\ Grown(gm)
  BY <1>1, BlockUsed
<1>3. DOMAIN live \subseteq UsedIn(gm.head)
  BY <1>1 DEF State, Holds
<1>4. ASSUME NEW got, Reserved(gm, got, p, Request2Size(r))
      PROVE  got.mem \notin DOMAIN live \ {p}
  <2>1. CASE got.mem = NULL
    <3>1. \A x \in DOMAIN live : x # NULL
      BY <1>1, BlockUsed, UsedChunkIs
    <3> QED  BY <2>1, <3>1
  <2>2. CASE got.mem # NULL
    BY <1>3, <1>4, <2>2 DEF Reserved, Replaced
  <2> QED  BY <2>1, <2>2
<1>5. CASE Realloc(p, r)
  <2>1. PICK got : got = DlRealloc(gm, p, r)
    OBVIOUS
  <2>2. Reserved(gm, got, p, Request2Size(r))
    BY <1>0, <1>2, <2>1, ReallocKeepsHeap
  <2>3. Receive(got, {p}, r)
    BY <1>5, <2>1 DEF Realloc
  <2> QED  BY <1>4, <2>2, <2>3
<1>6. CASE ReallocInPlace(p, r)
  <2>1. PICK got : got = DlReallocInPlace(gm, p, r)
    OBVIOUS
  <2>2. Reserved(gm, got, p, Request2Size(r))
    BY <1>0, <1>2, <2>1, ReallocInPlaceKeepsHeap
  <2>3. Receive(got, {p}, r)
    BY <1>6, <2>1 DEF ReallocInPlace
  <2> QED  BY <1>4, <2>2, <2>3
<1> QED  BY <1>5, <1>6

(* A batch has the sizes that were asked for.                              *)
LEMMA WantedAsked ==
  ASSUME NEW w \in Batches, NEW own \in BOOLEAN, NEW i \in 1 .. Parts(w, own)
  PROVE  Wanted(w, i) \in AskedSizes
<1>1. w \in Seq(Nat)
  BY ProgramAssumption
<1>2. {w[j] : j \in DOMAIN w} \cup {(Len(w) + 1) \div 2} \subseteq AskedSizes
  BY Zenon DEF AskedSizes
<1>3. CASE i <= Len(w)
  <2>1. i \in DOMAIN w
    BY <1>1, <1>3
  <2> QED  BY <1>2, <1>3, <2>1 DEF Wanted
<1>4. CASE ~(i <= Len(w))
  BY <1>2, <1>4 DEF Wanted
<1> QED  BY <1>3, <1>4

(* A batch gives blocks of sizes that were asked for.                      *)
LEMMA BatchSized ==
  ASSUME Sized(live), NEW m, NEW w \in Batches, NEW own \in BOOLEAN, NEW res, Batched(m, res, w, own)
  PROVE  Sized(Joint(live, Received(res, w)))
<1>1. PICK f : f = Received(res, w)
  OBVIOUS
<1>2. \A x \in DOMAIN f : f[x] \in AskedSizes
  <2>1. CASE res.elements = <<>> /\ res.array = NULL
    <3>1. f = Elements(res, w)
      BY <1>1, <2>1 DEF Received
    <3>2. DOMAIN f = {res.elements[i] : i \in DOMAIN res.elements}
      BY Zenon, <3>1 DEF Elements
    <3> QED  BY <2>1, <3>2, NoneFreeing
  <2>2. ASSUME NEW c, BatchAt(res, w, own, c)
        PROVE  \A x \in DOMAIN f : f[x] \in AskedSizes
    <3>1. w \in Seq(Nat)
      BY ProgramAssumption
    <3>2. PICK k : k = Parts(w, own)
      OBVIOUS
    <3>3. Gives(f, w, k, c)
      BY <1>1, <2>2, <3>1, <3>2, ReceivedIs
    <3>4. \A i \in 1 .. k : Wanted(w, i) \in AskedSizes
      BY <3>2, WantedAsked
    <3> QED  BY <3>3, <3>4 DEF Gives
  <2> QED  BY <2>1, <2>2 DEF Batched
<1>3. Sized(Joint(live, f))
  BY <1>2 DEF Joint, Sized
<1> QED  BY <1>1, <1>3

(* So does independent_comalloc().                                         *)
LEMMA ComallocReceives ==
  ASSUME HeapInv, Sized(live), NEW w \in Batches, NEW own \in BOOLEAN, IndependentComalloc(w, own)
  PROVE  Sized(live')
<1>1. Heap(gm)
  BY RunningState DEF IndependentComalloc, ReceiveBatch
<1>2. PICK res : res = Ialloc(gm, w, own)
  OBVIOUS
<1>3. Batched(gm, res, w, own)
  BY <1>1, <1>2, ComallocKeepsHeap, ProgramAssumption
<1>4. live' = Joint(live, Received(res, w))
  <2>1. ReceiveBatch(res, w)
    BY <1>2 DEF IndependentComalloc
  <2> QED  BY Zenon, <2>1 DEF ReceiveBatch, Joint, Received, Elements
<1> QED  BY <1>3, <1>4, BatchSized

(* A step of the allocator, seen from the abstract one.                    *)
Abstracts == Sized(live') /\ (Blocks!Next \/ live' = live)

(* Every call does one of the steps of the abstract heap, or none.         *)
LEMMA CallsAbstract ==
  ASSUME HeapInv, Sized(live), Next
  PROVE  Abstracts
<1>1. ASSUME NEW r \in Requests, Malloc(r)
      PROVE  Abstracts
  BY <1>1, MallocStep, ReceiveStep, ProgramAssumption DEF Malloc, Abstracts
<1>2. ASSUME NEW a \in Alignments, NEW r \in Requests, Memalign(a, r)
      PROVE  Abstracts
  BY <1>2, MemalignStep, ReceiveStep, ProgramAssumption DEF Memalign, Abstracts
<1>3. ASSUME NEW p \in DOMAIN live, NEW r \in Requests, Realloc(p, r) \/ ReallocInPlace(p, r)
      PROVE  Abstracts
  <2>1. Stepped({p})
    BY <1>3, ReallocStep, ProgramAssumption
  <2>2. PICK got : Receive(got, {p}, r) /\ got.mem \notin DOMAIN live \ {p}
    BY <1>3, ReallocApart
  <2> QED  BY <2>1, <2>2, ResizeStep DEF Abstracts
<1>4. ASSUME NEW p \in DOMAIN live, Free(p)
      PROVE  Abstracts
  <2>1. live' = Without(live, {p}) /\ {p} \subseteq DOMAIN live
    BY <1>4 DEF Free
  <2> QED  BY <2>1, ReleaseStep DEF Abstracts
<1>5. ASSUME NEW w \in Batches, NEW own \in BOOLEAN, IndependentComalloc(w, own)
      PROVE  Abstracts
  BY <1>5, ComallocStep, ComallocReceives, GivesBlocks DEF Abstracts
<1>6. ASSUME NEW array \in Arrays(DOMAIN live), BulkFree(array)
      PROVE  Abstracts
  <2>1. PICK S : S = {array[i] : i \in DOMAIN array}
    OBVIOUS
  <2>2. live' = Without(live, S)
    BY <1>6, <2>1 DEF BulkFree
  <2>3. S \subseteq DOMAIN live
    BY <2>1 DEF Arrays
  <2> QED  BY <2>2, <2>3, ReleaseStep DEF Abstracts
<1>7. ASSUME live' = live
      PROVE  Abstracts
  BY <1>7 DEF Abstracts
<1>8. ASSUME BulkFreeNext
      PROVE  live' = live
  BY <1>8 DEF BulkFreeNext, FreeNext
<1>9. ASSUME NEW pad \in TrimPads, MallocTrim(pad)
      PROVE  live' = live
  BY <1>9 DEF MallocTrim
<1>10. ASSUME NEW bytes \in Limits, SetFootprintLimit(bytes)
       PROVE  live' = live
  BY <1>10 DEF SetFootprintLimit
<1>11. ASSUME MoveStack
       PROVE  live' = live
  BY <1>11 DEF MoveStack
<1> QED  BY <1>1, <1>2, <1>3, <1>4, <1>5, <1>6, <1>7, <1>8, <1>9, <1>10, <1>11 DEF Next, Calls

(* The allocator implements AbsHeap, with the program's blocks as the       *)
(* abstract ones: whatever malloc(), memalign() and independent_comalloc() *)
(* return lies in the heap, apart from every block the program has; free() *)
(* and bulk_free() take only what they are given; realloc() changes one    *)
(* block, and moves it only to where there is none; and no other call, nor *)
(* any trimming, gives, moves or takes a block.                            *)
THEOREM Implements == Spec => ImplementsAbsHeap
<1>1. Init => Blocks!Init /\ Sized(live)
  BY DEF Init, Blocks!Init, Sized
<1>2. HeapInv /\ Sized(live) /\ [Next]_vars => Sized(live)' /\ [Blocks!Next]_live
  <2> SUFFICES ASSUME HeapInv, Sized(live), [Next]_vars
               PROVE  Sized(live)' /\ [Blocks!Next]_live
    OBVIOUS
  <2>1. CASE Next
    BY <2>1, CallsAbstract DEF Abstracts
  <2>2. CASE UNCHANGED vars
    BY <2>2 DEF vars, Sized
  <2> QED  BY <2>1, <2>2
<1> QED  BY <1>1, <1>2, HeapInvariance, PTL DEF Spec, ImplementsAbsHeap, Blocks!Spec

-----------------------------------------------------------------------------
(* The break and the footprint                                             *)

(* The step is a call that moves the break as calls of sbrk() may, and     *)
(* changes neither the stack nor the limit on the footprint.               *)
Quiet == Called(gm, gm') /\ UNCHANGED <<sp, asked>>

(* Whatever an allocating function answers, it has moved the break as      *)
(* calls do.                                                               *)
LEMMA AnswersCalled ==
  ASSUME NEW m, NEW got, NEW p, NEW nb, Served(m, got, nb) \/ Reserved(m, got, p, nb)
  PROVE  Called(m, got.heap)
BY DEF Served, Given, Reserved, Replaced, Left

(* The answer of an allocating function makes a quiet step of the program. *)
LEMMA ReceiveQuiet ==
  ASSUME NEW got, NEW S, NEW r, Receive(got, S, r), NEW p, NEW nb,
         Served(gm, got, nb) \/ Reserved(gm, got, p, nb)
  PROVE  Quiet
<1>1. Called(gm, got.heap)
  BY AnswersCalled
<1> QED  BY <1>1 DEF Receive, Quiet

(* One step of the loop of bulk_free is quiet: it frees a chunk or merges  *)
(* two.                                                                    *)
LEMMA BulkFreeNextQuiet ==
  ASSUME HeapInv, BulkFreeNext
  PROVE  Quiet
<1>1. PICK m, f, p, rest : m = gm /\ f = freeing /\ p = Head(freeing) /\ rest = Tail(freeing)
  OBVIOUS
<1>2. State(m, live, f) /\ f # <<>> /\ p = Head(f) /\ rest = Tail(f)
  BY <1>1 DEF HeapInv, BulkFreeNext
<1>3. f \in Seq(Int) /\ \A i, j \in 1 .. Len(f) : f[i] = f[j] => i = j
  BY <1>2 DEF State, Pending
<1>4. \A i \in 1 .. Len(f) : f[i] \in UsedIn(m.head)
  <2>1. DOMAIN f = 1 .. Len(f)
    BY <1>3
  <2> QED  BY <1>2, <2>1 DEF State, Holds
<1>5. p \in UsedIn(m.head)
  <2>1. Fewer(f, rest, p)
    BY <1>2, <1>3, FewerTail
  <2> QED  BY <1>4, <2>1 DEF Fewer
<1>6. rest # <<>> => Head(rest) \in UsedIn(m.head)
  <2>1. rest # <<>> => Fewer(f, <<p>> \o Tail(rest), Head(rest))
    BY <1>2, <1>3, FewerMerged
  <2> QED  BY <1>4, <2>1 DEF Fewer
<1>7. Grown(m)
  BY <1>2, <1>5, UsedGrown DEF State
<1>8. PICK k : /\ k = MergeOrFree(Check(m, Owned(m, p)), p, IsFollowed(m, p, rest))
               /\ gm' = FinishBulkFree(k, freeing')
  BY <1>1 DEF BulkFreeNext, FreeNext
<1>9. Grown(k) /\ Called(m, k)
  <2>1. CASE IsFollowed(m, p, rest)
    <3>1. Merged(m, MergeOrFree(Check(m, Owned(m, p)), p, TRUE), p, Head(rest))
      BY <1>5, <1>6, <1>7, <2>1, BulkFreeStepKeepsHeap
    <3>2. k = MergeOrFree(Check(m, Owned(m, p)), p, TRUE)
      BY <1>8, <2>1 DEF MergeOrFree
    <3> QED  BY <3>1, <3>2 DEF Merged
  <2>2. CASE ~IsFollowed(m, p, rest)
    <3>1. Disposed(m, MergeOrFree(Check(m, Owned(m, p)), p, FALSE), p)
      BY <1>5, <1>6, <1>7, <2>2, BulkFreeStepKeepsHeap
    <3>2. k = MergeOrFree(Check(m, Owned(m, p)), p, FALSE)
      BY <1>8, <2>2 DEF MergeOrFree
    <3> QED  BY <3>1, <3>2 DEF Disposed
  <2> QED  BY <2>1, <2>2
<1>10. PICK n : n = gm'
  OBVIOUS
<1>11. Called(k, n)
  BY <1>8, <1>9, <1>10, FinishIs DEF SameBlocks
<1>12. Called(m, n)
  BY <1>9, <1>11, CalledTwice
<1>13. UNCHANGED <<sp, asked>>
  BY DEF BulkFreeNext, FreeNext
<1> QED  BY <1>1, <1>10, <1>12, <1>13 DEF Quiet

(* Every call but malloc_set_footprint_limit() is one of these.            *)
LEMMA CallsQuiet ==
  ASSUME HeapInv, NEW own, own \subseteq DOMAIN live, Calls(own)
  PROVE  Quiet \/ MoveStack \/ \E bytes \in Limits : SetFootprintLimit(bytes)
<1>1. ASSUME NEW r \in Requests, Malloc(r)
      PROVE  Quiet
  <2>1. State(gm, live, <<>>) /\ Heap(gm)
    BY <1>1, RunningState DEF Malloc, Receive
  <2>2. PICK got : got = DlMalloc(gm, r)
    OBVIOUS
  <2>3. Served(gm, got, SizeFor(r))
    BY <2>1, <2>2, MallocKeepsHeap, ProgramAssumption
  <2>4. Receive(got, {}, r)
    BY <1>1, <2>2 DEF Malloc
  <2> QED  BY <2>3, <2>4, ReceiveQuiet
<1>2. ASSUME NEW a \in Alignments, NEW r \in Requests, Memalign(a, r)
      PROVE  Quiet
  <2>1. State(gm, live, <<>>) /\ Heap(gm)
    BY <1>2, RunningState DEF Memalign, Receive
  <2>2. PICK got : got = DlMemalign(gm, a, r)
    OBVIOUS
  <2>3. Served(gm, got, SizeFor(r))
    BY <2>1, <2>2, MemalignKeepsHeap, ProgramAssumption
  <2>4. Receive(got, {}, r)
    BY <1>2, <2>2 DEF Memalign
  <2> QED  BY <2>3, <2>4, ReceiveQuiet
<1>3. ASSUME NEW p \in own, NEW r \in Requests, Realloc(p, r)
      PROVE  Quiet
  <2>1. State(gm, live, <<>>)
    BY <1>3, RunningState DEF Realloc, Receive
  <2>2. p \in UsedIn(gm.head) /\ Grown(gm)
    BY <2>1, BlockUsed
  <2>3. PICK got : got = DlRealloc(gm, p, r)
    OBVIOUS
  <2>4. Reserved(gm, got, p, Request2Size(r))
    BY <2>2, <2>3, ReallocKeepsHeap, ProgramAssumption
  <2>5. Receive(got, {p}, r)
    BY <1>3, <2>3 DEF Realloc
  <2> QED  BY <2>4, <2>5, ReceiveQuiet
<1>4. ASSUME NEW p \in own, NEW r \in Requests, ReallocInPlace(p, r)
      PROVE  Quiet
  <2>1. State(gm, live, <<>>)
    BY <1>4, RunningState DEF ReallocInPlace, Receive
  <2>2. p \in UsedIn(gm.head) /\ Grown(gm)
    BY <2>1, BlockUsed
  <2>3. PICK got : got = DlReallocInPlace(gm, p, r)
    OBVIOUS
  <2>4. Reserved(gm, got, p, Request2Size(r))
    BY <2>2, <2>3, ReallocInPlaceKeepsHeap, ProgramAssumption
  <2>5. Receive(got, {p}, r)
    BY <1>4, <2>3 DEF ReallocInPlace
  <2> QED  BY <2>4, <2>5, ReceiveQuiet
<1>5. ASSUME NEW p \in own, Free(p)
      PROVE  Quiet
  <2>1. State(gm, live, <<>>)
    BY <1>5, RunningState DEF Free
  <2>2. p \in UsedIn(gm.head) /\ Grown(gm)
    BY <2>1, BlockUsed
  <2>3. Left(gm, gm', UsedIn(gm.head) \ {p})
    BY <1>5, <2>2, FreeKeepsHeap DEF Free
  <2> QED  BY <1>5, <2>3 DEF Left, Free, Quiet
<1>6. ASSUME NEW w \in Batches, NEW own_array \in BOOLEAN, IndependentComalloc(w, own_array)
      PROVE  Quiet
  <2>1. State(gm, live, <<>>) /\ Heap(gm)
    BY <1>6, RunningState DEF IndependentComalloc, ReceiveBatch
  <2>2. PICK res : res = Ialloc(gm, w, own_array)
    OBVIOUS
  <2>3. Batched(gm, res, w, own_array)
    BY <2>1, <2>2, ComallocKeepsHeap, ProgramAssumption
  <2>4. gm' = res.heap /\ UNCHANGED <<sp, asked>>
    BY Zenon, <1>6, <2>2 DEF IndependentComalloc, ReceiveBatch
  <2>5. Called(gm, res.heap)
    BY <2>3 DEF Batched, Left, Handed
  <2> QED  BY <2>4, <2>5 DEF Quiet
<1>7. ASSUME NEW array \in Arrays(own), BulkFree(array)
      PROVE  Quiet
  <2>1. Heap(gm) /\ gm' = gm /\ UNCHANGED <<sp, asked>>
    BY <1>7 DEF HeapInv, State, BulkFree
  <2> QED  BY <2>1, NothingChanged DEF Quiet
<1>8. ASSUME BulkFreeNext
      PROVE  Quiet
  BY <1>8, BulkFreeNextQuiet
<1>9. ASSUME NEW pad \in TrimPads, MallocTrim(pad)
      PROVE  Quiet
  <2>1. Heap(gm) /\ gm' = SysTrim(gm, pad) /\ UNCHANGED <<sp, asked>> /\ pad \in Nat
    BY <1>9, ProgramAssumption DEF HeapInv, State, MallocTrim
  <2>2. SameBlocks(gm, gm')
    BY <2>1, SysTrimIs
  <2> QED  BY <2>1, <2>2 DEF SameBlocks, Quiet
<1> QED  BY <1>1, <1>2, <1>3, <1>4, <1>5, <1>6, <1>7, <1>8, <1>9 DEF Calls

(* The break is moved as one call of sbrk() would move it, from a break    *)
(* in the heap region to another one.                                      *)
LEMMA QuietMoves ==
  ASSUME HeapInv, HeapInv', Quiet
  PROVE  UNCHANGED Sys!vars \/ Sys!Next
<1>1. gm'.brk = gm.brk \/ Sys!Grantable(gm'.brk)
  BY DEF Quiet, Called, BreakMoves
<1>2. /\ HeapStart \in Int /\ HeapEnd \in Int /\ HeapEnd < AddrSpace /\ AddrSpace \in Int
      /\ HeapStart >= 0 /\ HeapEnd - HeapStart < HalfMax /\ HalfMax \in Int
  BY HeapAssumption DEF HeapEnd, HalfMax
<1>3. PICK a, b, d : a = gm.brk /\ b = gm'.brk /\ d = b - a
  OBVIOUS
<1>4. a \in HeapStart .. HeapEnd /\ b \in HeapStart .. HeapEnd
  BY <1>3, HeapIs DEF HeapInv, State, Breaking
<1>5. CASE b = a
  BY <1>3, <1>5 DEF Sys!vars, Quiet
<1>6. CASE Sys!Grantable(b)
  <2>1. a + d = b /\ d \in 1 - HalfMax .. HalfMax - 1
    BY <1>2, <1>3, <1>4
  <2>2. Sys!Wrap(a + d) = b
    BY <1>2, <1>4, <2>1 DEF Sys!Wrap
  <2>3. Sys!BreakAfter(a, d) = b
    BY <1>6, <2>2 DEF Sys!BreakAfter
  <2>4. Sys!Sbrk(d)
    BY <1>3, <2>3 DEF Sys!Sbrk, Sys!layoutVars, Quiet
  <2> QED  BY <2>1, <2>4 DEF Sys!Next
<1> QED  BY <1>1, <1>3, <1>5, <1>6

(* So every step of the program moves the break as sbrk() would.           *)
LEMMA CallsMove ==
  ASSUME HeapInv, HeapInv', NEW own, own \subseteq DOMAIN live, Calls(own)
  PROVE  UNCHANGED Sys!vars \/ Sys!Next
<1>1. CASE Quiet
  BY <1>1, QuietMoves
<1>2. CASE MoveStack
  BY <1>2 DEF MoveStack, Sys!Next, Sys!MoveStack, Sys!layoutVars
<1>3. CASE \E bytes \in Limits : SetFootprintLimit(bytes)
  <2>1. PICK bytes : SetFootprintLimit(bytes)
    BY <1>3
  <2>2. PICK z : z = FootprintLimitFor(bytes)
    OBVIOUS
  <2>3. DOMAIN gm = HeapFields
    BY HeapIs DEF HeapInv, State
  <2>4. gm'.brk = gm.brk /\ sp' = sp
    BY <2>1, <2>2 DEF SetFootprintLimit
  <2> QED  BY <2>4 DEF Sys!vars
<1> QED  BY <1>1, <1>2, <1>3, CallsQuiet

(* Every call moves the break as one call of sbrk() would, with an         *)
(* increment that sbrk() is safe for, or leaves it alone.                  *)
THEOREM BreakMovesByCalls == Spec => BreakMovesBySbrk
<1>1. HeapInv /\ HeapInv' /\ [Next]_vars => [Sys!Next]_(Sys!vars)
  <2> SUFFICES ASSUME HeapInv, HeapInv', [Next]_vars PROVE UNCHANGED Sys!vars \/ Sys!Next
    OBVIOUS
  <2>1. CASE Next
    BY <2>1, CallsMove DEF Next
  <2>2. CASE UNCHANGED vars
    BY <2>2 DEF vars, Sys!vars
  <2> QED  BY <2>1, <2>2
<1> QED  BY <1>1, HeapInvariance, PTL DEF Spec, BreakMovesBySbrk

(* A call of sbrk() keeps the break in the heap region.                    *)
LEMMA MovesInHeap ==
  ASSUME Sys!BreakInHeap, UNCHANGED Sys!vars \/ Sys!Next, HeapStart \in Int
  PROVE  Sys!BreakInHeap'
<1>1. CASE UNCHANGED Sys!vars
  BY <1>1 DEF Sys!vars, Sys!BreakInHeap
<1>2. CASE gm'.brk = gm.brk
  BY <1>2 DEF Sys!BreakInHeap
<1>3. CASE \E d \in 1 - HalfMax .. HalfMax - 1 : Sys!Sbrk(d)
  <2>1. PICK b : b = gm'.brk
    OBVIOUS
  <2>2. b = gm.brk \/ Sys!Grantable(b)
    BY <1>3, <2>1 DEF Sys!Sbrk, Sys!BreakAfter
  <2>3. CASE Sys!Grantable(b)
    BY <2>1, <2>3 DEF Sys!Grantable, Sys!BreakInHeap
  <2> QED  BY <1>2, <2>1, <2>2, <2>3
<1> QED  BY <1>1, <1>2, <1>3 DEF Sys!Next, Sys!NolibcInit, Sys!MoveStack

(* The break never leaves the heap region: it is at its start or strictly  *)
(* below its end, as sbrk() promises, whatever the allocator asks for.     *)
THEOREM BreakStaysInHeap == Spec => []Sys!BreakInHeap
<1>1. Init => Sys!BreakInHeap
  BY HeapAssumption DEF Init, Sys!BreakInHeap
<1>2. HeapInv /\ HeapInv' /\ Sys!BreakInHeap /\ [Next]_vars => Sys!BreakInHeap'
  <2> SUFFICES ASSUME HeapInv, HeapInv', Sys!BreakInHeap, [Next]_vars PROVE Sys!BreakInHeap'
    OBVIOUS
  <2>1. HeapStart \in Int
    BY HeapAssumption
  <2>2. CASE Next
    BY <2>1, <2>2, CallsMove, MovesInHeap DEF Next
  <2>3. CASE UNCHANGED vars
    BY <2>3 DEF vars, Sys!BreakInHeap
  <2> QED  BY <2>2, <2>3
<1> QED  BY <1>1, <1>2, HeapInvariance, PTL DEF Spec

(* What the program asked for last is the limit.                           *)
LimitKept == gm.footprint_limit = FootprintLimitFor(asked)

(* Only malloc_set_footprint_limit() changes the limit.                    *)
LEMMA LimitStays ==
  ASSUME HeapInv, LimitKept, Next
  PROVE  LimitKept'
<1>1. ASSUME Quiet
      PROVE  LimitKept'
  <2>1. gm'.footprint_limit = gm.footprint_limit /\ asked' = asked
    BY <1>1 DEF Quiet, Called, Keeps, HeapFields, CallFields, StillFields, ChunkFields
  <2> QED  BY <2>1 DEF LimitKept
<1>2. ASSUME MoveStack
      PROVE  LimitKept'
  BY <1>2 DEF MoveStack, LimitKept
<1>3. ASSUME NEW bytes \in Limits, SetFootprintLimit(bytes)
      PROVE  LimitKept'
  <2>1. PICK z : z = FootprintLimitFor(bytes)
    OBVIOUS
  <2>2. gm' = [gm EXCEPT !.footprint_limit = z] /\ asked' = bytes
    BY <1>3, <2>1 DEF SetFootprintLimit
  <2>3. DOMAIN gm = HeapFields
    BY HeapIs DEF HeapInv, State
  <2>4. gm'.footprint_limit = z
    BY <2>2, <2>3 DEF HeapFields
  <2>5. FootprintLimitFor(asked') = z
    BY <2>1, <2>2
  <2> QED  BY <2>4, <2>5 DEF LimitKept
<1> QED  BY <1>1, <1>2, <1>3, CallsQuiet DEF Next

(* A call that gets memory from the system stays within the limit, if      *)
(* there is one.                                                           *)
LEMMA LimitHolds ==
  ASSUME HeapInv, HeapInv', LimitKept, Next, NEW limit, limit = GranularityAlign(asked), limit # 0,
         gm'.footprint > gm.footprint
  PROVE  gm'.footprint <= limit
<1>1. gm.footprint \in Int /\ gm'.footprint \in Int
  BY FootprintBounds DEF HeapInv, State
<1>2. limit \in Nat
  <2>1. asked \in Int
    BY HeapAssumption, ProgramAssumption DEF HeapInv, MaxSize
  <2> QED  BY <2>1, AlignedSpace
<1>3. asked # MaxSize
  <2>1. Granularity \in Nat /\ Granularity > 1 /\ AddrSpace \in Nat /\ AddrSpace > 0
    BY HeapAssumption, TagsAssumption, ListsAssumption
  <2>2. ASSUME asked = AddrSpace - 1
        PROVE  FALSE
    BY <1>2, <2>1, <2>2, AlignedSpace
  <2> QED  BY <2>2 DEF MaxSize
<1>4. CASE Quiet
  <2>1. gm.footprint_limit = limit
    BY <1>3 DEF LimitKept, FootprintLimitFor
  <2>2. \A z \in Int : Capped(gm, z) => Capped(gm', z)
    BY <1>4 DEF Quiet, Called, BreakMoves
  <2>3. CASE gm.footprint <= limit
    <3>1. Capped(gm, limit)
      BY <1>2, <2>1, <2>3 DEF Capped
    <3> QED  BY <1>2, <2>2, <3>1 DEF Capped
  <2>4. CASE ~(gm.footprint <= limit)
    <3>1. Capped(gm, gm.footprint)
      BY <1>1, <1>2, <2>1, <2>4 DEF Capped
    <3>2. gm'.footprint <= gm.footprint
      BY <1>1, <2>2, <3>1 DEF Capped
    <3> QED  BY <1>1, <3>2
  <2> QED  BY <2>3, <2>4
<1>5. CASE gm'.footprint = gm.footprint
  BY <1>1, <1>5
<1>6. ASSUME NEW bytes \in Limits, SetFootprintLimit(bytes)
      PROVE  gm'.footprint = gm.footprint
  BY <1>6 DEF SetFootprintLimit
<1> QED  BY <1>4, <1>5, <1>6, CallsQuiet DEF Next, MoveStack

(* The footprint does not grow past the limit that was asked for, as far   *)
(* as there is one.                                                        *)
THEOREM LimitRespected == Spec => FootprintLimited
<1>1. Init => LimitKept
  <2>1. FootprintLimitFor(MaxSize) = 0
    BY DEF FootprintLimitFor
  <2> QED  BY <2>1 DEF Init, LimitKept
<1>2. HeapInv /\ LimitKept /\ [Next]_vars => LimitKept'
  BY LimitStays DEF vars, LimitKept
<1>3. HeapInv /\ HeapInv' /\ LimitKept /\ [Next]_vars =>
        [LET limit == GranularityAlign(asked)
         IN  limit # 0 /\ gm'.footprint > gm.footprint => gm'.footprint <= limit]_vars
  BY LimitHolds
<1> QED  BY <1>1, <1>2, <1>3, HeapInvariance, PTL DEF Spec, FootprintLimited

(* A call that gives no block leaves everything but the permission to call *)
(* sbrk() contiguously.                                                    *)
Untouched == \A x \in DOMAIN gm \ {"contiguous"} : gm'[x] = gm[x]

(* A call that keeps all but the permission leaves the rest untouched.     *)
LEMMA UntouchedIs ==
  ASSUME NEW got, gm' = got.heap, Keeps(gm, got.heap, {"contiguous"})
  PROVE  Untouched
BY DEF Untouched, Keeps

(* malloc(), memalign() and realloc() leave the heap untouched when they   *)
(* give no block.                                                          *)
LEMMA FailedCalls ==
  ASSUME HeapInv, live' = live, NEW r \in Requests
  PROVE  /\ Malloc(r) => Untouched
         /\ \A a \in Alignments : Memalign(a, r) => Untouched
         /\ \A p \in DOMAIN live : Realloc(p, r) /\ DlRealloc(gm, p, r).mem = NULL => Untouched
<1>1. ASSUME NEW got, Receive(got, {}, r), Served(gm, got, SizeFor(r))
      PROVE  Untouched
  <2>1. State(gm, live, <<>>) /\ gm' = got.heap
    BY <1>1, RunningState DEF Receive
  <2>2. CASE got.mem = NULL
    BY <1>1, <2>1, <2>2, UntouchedIs DEF Served
  <2>3. CASE got.mem # NULL
    <3>1. got.mem \notin DOMAIN live
      BY <1>1, <2>1, <2>3 DEF Served, Given, State, Holds
    <3>2. live' = Put(Without(live, {}), got.mem, r)
      BY <1>1, <2>3 DEF Receive
    <3>3. got.mem \in DOMAIN live'
      BY <3>2 DEF Put
    <3> QED  BY <3>1, <3>3
  <2> QED  BY <2>2, <2>3
<1>2. r \in Nat
  BY ProgramAssumption
<1>3. Malloc(r) => Untouched
  <2> SUFFICES ASSUME Malloc(r) PROVE Untouched
    OBVIOUS
  <2>1. Heap(gm)
    BY RunningState DEF Malloc, Receive
  <2>2. PICK got : got = DlMalloc(gm, r)
    OBVIOUS
  <2>3. Served(gm, got, SizeFor(r)) /\ Receive(got, {}, r)
    BY <1>2, <2>1, <2>2, MallocKeepsHeap DEF Malloc
  <2> QED  BY <1>1, <2>3
<1>4. ASSUME NEW a \in Alignments, Memalign(a, r)
      PROVE  Untouched
  <2>1. Heap(gm) /\ a \in Nat
    BY <1>4, RunningState, ProgramAssumption DEF Memalign, Receive
  <2>2. PICK got : got = DlMemalign(gm, a, r)
    OBVIOUS
  <2>3. Served(gm, got, SizeFor(r)) /\ Receive(got, {}, r)
    BY <1>2, <1>4, <2>1, <2>2, MemalignKeepsHeap DEF Memalign
  <2> QED  BY <1>1, <2>3
<1>5. ASSUME NEW p \in DOMAIN live, Realloc(p, r), DlRealloc(gm, p, r).mem = NULL
      PROVE  Untouched
  <2>1. State(gm, live, <<>>)
    BY <1>5, RunningState DEF Realloc, Receive
  <2>2. p \in UsedIn(gm.head) /\ Grown(gm)
    BY <2>1, BlockUsed
  <2>3. PICK got : got = DlRealloc(gm, p, r)
    OBVIOUS
  <2>4. Reserved(gm, got, p, Request2Size(r))
    BY <1>2, <2>2, <2>3, ReallocKeepsHeap
  <2>5. got.mem = NULL /\ gm' = got.heap
    BY <1>5, <2>3 DEF Realloc, Receive
  <2> QED  BY <2>4, <2>5, UntouchedIs DEF Reserved
<1> QED  BY <1>3, <1>4, <1>5

(* A call that gives no block leaves every chunk, list and count as it was.*)
THEOREM FailuresHarmless == Spec => FailureChangesNothing
<1>1. HeapInv /\ [Next]_vars =>
        [live' = live /\ (\E x \in DOMAIN gm \ {"contiguous"} : gm'[x] # gm[x]) =>
           \A r \in Requests :
             /\ ~Malloc(r)
             /\ \A a \in Alignments : ~Memalign(a, r)
             /\ \A p \in DOMAIN live : ~(Realloc(p, r) /\ DlRealloc(gm, p, r).mem = NULL)]_vars
  <2> SUFFICES ASSUME HeapInv, live' = live, ~Untouched
               PROVE  \A r \in Requests :
                        /\ ~Malloc(r)
                        /\ \A a \in Alignments : ~Memalign(a, r)
                        /\ \A p \in DOMAIN live : ~(Realloc(p, r) /\ DlRealloc(gm, p, r).mem = NULL)
    BY DEF Untouched
  <2> QED  BY FailedCalls
<1> QED  BY <1>1, HeapInvariance, PTL DEF Spec, FailureChangesNothing

-----------------------------------------------------------------------------
(* The system is the last resort                                           *)

(* A negative difference of sizes wraps to the top of the address space.   *)
LEMMA WordOfNegative ==
  ASSUME NEW x \in Int, -AddrSpace < x, x < 0
  PROVE  Word(x) = x + AddrSpace
BY ListsAssumption DEF Word

(* malloc() finds no chunk in the bins only when every one there is too    *)
(* small, if the designated victim is too small.                           *)
LEMMA NoneFits ==
  ASSUME NEW m, DOMAIN m.bins = MinChunk .. HeapSize, m.dvsize \in Nat, NEW nb \in MinChunk .. MaxSize,
         BinnedFit(m, nb) = 0, ~(nb <= m.dvsize), NEW s \in Filled(m)
  PROVE  s < nb
<1>1. /\ AddrSpace \in Nat /\ MinChunk \in Nat /\ MinChunk > 0 /\ SmallLimit \in Nat
      /\ HeapSize \in Nat /\ HeapSize < AddrSpace
  BY ListsAssumption, HeapAssumption DEF HeapEnd
<1>2. PICK small, large : /\ small = {x \in SmallSizes(m) : x >= nb}
                          /\ large = {x \in TreeSizes(m) : x >= nb}
  OBVIOUS
<1>3. Filled(m) \subseteq MinChunk .. HeapSize
  BY Zenon DEF Filled
<1>4. SmallSizes(m) \subseteq Filled(m) /\ TreeSizes(m) \subseteq Filled(m)
  BY Zenon DEF SmallSizes, TreeSizes, Filled
<1>5. small \subseteq Nat /\ large \subseteq Nat /\ \A x \in small \cup large : x # 0
  BY <1>1, <1>2, <1>3, <1>4
<1>6. s \in Int /\ s <= HeapSize /\ nb \in Int /\ nb < AddrSpace /\ nb > 0
  BY <1>1, <1>3 DEF MaxSize
<1>7. SUFFICES ASSUME s >= nb PROVE FALSE
  BY <1>6
<1>8. IsSmall(s) => s \in small
  BY <1>2, <1>7 DEF SmallSizes, Filled
<1>9. ~IsSmall(s) => s \in large
  BY <1>2, <1>7 DEF TreeSizes, Filled
<1>10. CASE IsSmall(nb)
  <2>1. 0 = IF nb \in small THEN nb
            ELSE IF nb <= m.dvsize THEN 0
            ELSE IF small # {} THEN Least(small)
            ELSE IF large # {} THEN Least(large) ELSE 0
    BY <1>2, <1>10, Zenon DEF BinnedFit
  <2>2. nb \notin small
    BY <1>6, <2>1
  <2>3. CASE small # {}
    <3>1. Least(small) = 0
      BY <2>1, <2>2, <2>3, Zenon
    <3>2. Least(small) \in small
      BY <1>5, <2>3, LeastIs
    <3> QED  BY <1>5, <3>1, <3>2
  <2>4. CASE small = {}
    <3>1. large # {}
      BY <1>8, <1>9, <2>4
    <3>2. Least(large) = 0
      BY <2>1, <2>2, <2>4, <3>1, Zenon
    <3>3. Least(large) \in large
      BY <1>5, <3>1, LeastIs
    <3> QED  BY <1>5, <3>2, <3>3
  <2> QED  BY <2>3, <2>4
<1>11. CASE ~IsSmall(nb)
  <2>1. s \in large
    BY <1>1, <1>6, <1>7, <1>9, <1>11 DEF IsSmall
  <2>2. PICK b : b = Least(large)
    OBVIOUS
  <2>3. b \in large /\ b <= s /\ b \in Nat
    BY <1>5, <2>1, <2>2, LeastIs
  <2>4. 0 = IF large # {} /\ b - nb < Word(m.dvsize - nb) THEN b ELSE 0
    BY <1>2, <1>11, <2>2, Zenon DEF BinnedFit
  <2>5. ~(b - nb < Word(m.dvsize - nb))
    BY <1>5, <2>1, <2>3, <2>4
  <2>6. Word(m.dvsize - nb) = m.dvsize - nb + AddrSpace
    <3>1. PICK v \in Int : v = m.dvsize /\ v >= 0 /\ v < nb
      BY <1>6
    <3>2. v - nb \in Int /\ -AddrSpace < v - nb /\ v - nb < 0
      BY <1>1, <1>6, <3>1
    <3> QED  BY <3>1, <3>2, WordOfNegative
  <2> QED  BY <1>1, <1>6, <2>3, <2>5, <2>6
<1> QED  BY <1>10, <1>11

(* No chunk that malloc() could use is as large as nb.                     *)
AllSmaller(nb) ==
  /\ \A p \in FreeChunks \ {gm.top} : ChunkSize(gm, p) < nb
  /\ gm.topsize <= nb

(* When malloc() turns to the system, every free chunk was too small.      *)
LEMMA ExhaustedIs ==
  ASSUME HeapInv, NEW nb \in MinChunk .. MaxSize, Exhausted(gm, nb)
  PROVE  AllSmaller(nb)
<1>0. nb \in Int
  BY ListsAssumption DEF MaxSize
<1>1. Heap(gm) /\ DOMAIN gm.bins = MinChunk .. HeapSize /\ gm.topsize \in Int /\ nb \in Int
  BY <1>0, HeapIs DEF HeapInv, State
<1>2. gm.topsize <= nb
  BY <1>1 DEF Exhausted
<1>3. CASE gm.top = NULL
  <2>1. Empty(gm)
    BY <1>3, HeapKinds
  <2> QED  BY <1>2, <2>1 DEF Empty, AllSmaller, FreeChunks, Chunks
<1>4. CASE gm.top # NULL
  <2>1. Grown(gm)
    BY <1>4, HeapKinds
  <2>2. FreeChunks \ {gm.top} = FreeIn(gm.head, gm.top)
    BY <2>1, FreeChunksAre
  <2>3. PICK m, F : m = gm /\ F = FreeIn(m.head, m.top)
    OBVIOUS
  <2>4. Listed(m, F, m.head)
    BY <2>1, <2>3, GrownIs
  <2>5. m.dvsize \in Nat
    BY <2>1, <2>3, DvIs, HeapAssumption
  <2>6. ASSUME NEW p \in F
        PROVE  m.head[p].size < nb
    <3>1. CASE p = m.dv
      <4>1. m.head[p].size = m.dvsize
        <5>1. p # NULL
          BY <2>1, <2>3, <2>6, GrownIs, FreeSizes
        <5> QED  BY <2>4, <3>1, <5>1 DEF Listed
      <4> QED  BY <1>1, <2>3, <2>5, <4>1 DEF Exhausted
    <3>2. CASE p # m.dv
      <4>1. PICK s : s = m.head[p].size
        OBVIOUS
      <4>2. s \in DOMAIN m.bins /\ OnceIn(m.bins[s], p) /\ m.bins[s] \in Seq(Int)
        BY <2>4, <2>6, <3>2, <4>1 DEF Listed, Binned
      <4>3. m.bins[s] # <<>>
        BY <4>2 DEF OnceIn, Once
      <4>4. s \in Filled(m)
        BY <4>2, <4>3 DEF Filled
      <4>5. s < nb
        BY <1>1, <2>3, <2>5, <4>4, NoneFits DEF Exhausted
      <4> QED  BY <4>1, <4>5
    <3> QED  BY <3>1, <3>2
  <2> QED  BY <1>2, <2>2, <2>3, <2>6 DEF AllSmaller, ChunkSize
<1> QED  BY <1>3, <1>4

(* Nor is one as large as a request that is too large for any heap.        *)
LEMMA TooLarge ==
  ASSUME HeapInv, NEW r \in Nat, AllSmaller(SizeFor(r))
  PROVE  AllSmaller(Request2Size(r))
<1>1. CASE r < MaxRequest
  BY <1>1, SizeForIs
<1>2. CASE ~(r < MaxRequest)
  <2>1. PICK nb : nb = Request2Size(r)
    OBVIOUS
  <2>2. HeapSize \in Nat /\ HeapSize <= nb
    <3>1. /\ AddrSpace \in Nat /\ HalfMax \in Nat /\ HalfMax + HalfMax <= AddrSpace
          /\ MinChunk \in Nat /\ 4 * MinChunk <= HalfMax /\ Overhead \in Nat
          /\ HeapSize \in Nat /\ HeapSize < HalfMax
      BY HeapAssumption, ListsAssumption, TagsAssumption DEF HalfMax
    <3>2. r >= AddrSpace - 4 * MinChunk
      BY <1>2, <3>1 DEF MaxRequest
    <3>3. nb >= r
      BY <2>1, <3>1 DEF Request2Size
    <3>4. nb \in Int
      BY <2>1, <3>1 DEF Request2Size
    <3> QED  BY <3>1, <3>2, <3>3, <3>4
  <2>3. nb \in Int
    BY <2>1, PaddedIs
  <2>4. CASE gm.top = NULL
    <3>1. Empty(gm)
      BY <2>4, HeapKinds
    <3> QED  BY <2>1, <2>2, <2>3, <3>1 DEF Empty, AllSmaller, FreeChunks, Chunks
  <2>5. CASE gm.top # NULL
    <3>1. Grown(gm)
      BY <2>5, HeapKinds
    <3>2. PICK m, F : m = gm /\ F = FreeIn(m.head, m.top)
      OBVIOUS
    <3>3. Segment(m.head, m.foot, m.segbase, m.top, m.topsize) /\ FreeChunks \ {gm.top} = F
      BY <3>1, <3>2, GrownIs, FreeChunksAre
    <3>4. m.topsize <= nb
      <4>1. /\ m.segbase \in Int /\ m.top \in Int /\ m.topsize \in Int /\ m.segbase <= m.top
            /\ HeapStart <= m.segbase /\ m.top + m.topsize + TopFoot <= HeapEnd
        BY <3>3, SegmentIs
      <4> QED  BY <2>2, <2>3, <4>1, HeapAssumption, TagsAssumption DEF HeapEnd
    <3>5. ASSUME NEW p \in F
          PROVE  m.head[p].size < nb
      <4>1. m.head[p].size + 0 <= HeapSize /\ m.head[p].size \in Int /\ p \in Int /\ p < m.top
            /\ HeapStart <= p /\ p + m.head[p].size <= m.top
        <5>1. p \in DOMAIN m.head /\ p < m.top
          BY <3>2, <3>5 DEF FreeIn
        <5>2. /\ p \in Int /\ m.head[p].size \in MinChunk .. HeapSize /\ HeapStart <= p
              /\ m.head[p].size \in Int /\ End(m.head, p) <= m.top
          BY <3>3, <5>1, ChunkIs
        <5> QED  BY <2>2, <5>1, <5>2, ListsAssumption DEF End
      <4>2. m.top \in Int /\ m.topsize \in Int /\ m.topsize > 0 /\ m.top + m.topsize + TopFoot <= HeapEnd
        BY <3>3, SegmentIs
      <4> QED  BY <2>2, <2>3, <4>1, <4>2, HeapAssumption, TagsAssumption DEF HeapEnd
    <3> QED  BY <2>1, <3>2, <3>3, <3>4, <3>5 DEF AllSmaller, ChunkSize
  <2> QED  BY <2>4, <2>5
<1> QED  BY <1>1, <1>2

(* malloc() gives a block that the program does not have yet.              *)
LEMMA MallocNew ==
  ASSUME HeapInv, NEW r \in Nat, NEW got, got = DlMalloc(gm, r), Receive(got, {}, r), live' = live
  PROVE  got.mem = NULL
<1>1. State(gm, live, <<>>) /\ Heap(gm)
  BY RunningState DEF Receive
<1>2. Served(gm, got, SizeFor(r))
  BY <1>1, MallocKeepsHeap
<1>3. SUFFICES ASSUME got.mem # NULL PROVE FALSE
  OBVIOUS
<1>4. got.mem \notin DOMAIN live
  BY <1>1, <1>2, <1>3 DEF Served, Given, State, Holds
<1>5. live' = Put(Without(live, {}), got.mem, r)
  BY <1>3 DEF Receive
<1>6. got.mem \in DOMAIN live'
  BY <1>5 DEF Put
<1> QED  BY <1>4, <1>6

(* malloc() fails or moves the break only after the search found every     *)
(* chunk too small.                                                        *)
LEMMA MallocSearches ==
  ASSUME HeapInv, live' = live \/ gm'.brk # gm.brk, NEW r \in Requests, Malloc(r)
  PROVE  AllSmaller(Request2Size(r))
<1>1. Heap(gm) /\ r \in Nat
  BY RunningState, ProgramAssumption DEF Malloc, Receive
<1>2. PICK got : got = DlMalloc(gm, r)
  OBVIOUS
<1>3. Receive(got, {}, r)
  BY <1>2 DEF Malloc
<1>4. got.mem = NULL \/ got.heap.brk # gm.brk
  BY <1>1, <1>2, <1>3, MallocNew DEF Receive
<1>5. Exhausted(gm, SizeFor(r))
  BY <1>1, <1>2, <1>4, MallocExhausts
<1>6. AllSmaller(SizeFor(r))
  BY <1>1, <1>5, SizeForIs, ExhaustedIs
<1> QED  BY <1>1, <1>6, TooLarge

(* malloc() fails, or moves the break, only when neither a free chunk nor  *)
(* the top chunk could hold the request.                                   *)
THEOREM LastResort == Spec => SystemIsLastResort
<1>1. HeapInv /\ [Next]_vars =>
        [live' = live \/ gm'.brk # gm.brk =>
           \A r \in Requests :
             LET nb == Request2Size(r)
             IN  Malloc(r) => /\ \A p \in FreeChunks \ {gm.top} : ChunkSize(gm, p) < nb
                              /\ gm.topsize <= nb]_vars
  BY MallocSearches DEF AllSmaller
<1> QED  BY <1>1, HeapInvariance, PTL DEF Spec, SystemIsLastResort

-----------------------------------------------------------------------------
(* What trimming leaves                                                    *)

(* Where the break may be moved, the top chunk keeps what it must and less *)
(* than a page more.                                                       *)
Leaves(m, n, keep) ==
  /\ n.topsize <= keep + Granularity
  /\ n.topsize < m.topsize => n.topsize > keep

(* Moving the break down takes that much from the top chunk.               *)
LEMMA TrimToLeaves ==
  ASSUME NEW m, Grown(m), NEW b \in Int, m.brk \in Int, NEW n, n = TrimTo(m, b)
  PROVE  n.topsize = m.topsize - (m.brk - b)
<1>1. DOMAIN m = HeapFields /\ m.topsize \in Int
  BY GrownIs
<1>2. PICK r \in Int : r = m.brk - b
  OBVIOUS
<1>3. CASE r # 0
  <2>1. PICK j, s : /\ j = [m EXCEPT !.brk = b, !.segsize = @ - r, !.footprint = @ - r]
                    /\ s = m.topsize - r
    OBVIOUS
  <2>2. n = InitTop(j, m.top, s)
    BY <1>2, <1>3, <2>1, Zenon DEF TrimTo
  <2>3. DOMAIN j = HeapFields
    BY <1>1, <2>1
  <2>4. n.topsize = s
    BY <2>2, <2>3 DEF InitTop, CapSegment, PutHead, HeapFields
  <2> QED  BY <1>2, <2>1, <2>4
<1>4. CASE r = 0
  <2>1. n = [m EXCEPT !.trim_check = IF m.topsize > @ THEN MaxSize ELSE @]
    BY <1>2, <1>4, Zenon DEF TrimTo
  <2>2. n.topsize = m.topsize
    BY <1>1, <2>1 DEF HeapFields
  <2> QED  BY <1>1, <1>2, <1>4, <2>2
<1> QED  BY <1>3, <1>4

(* sys_trim() leaves what it is told to keep, and less than a page more.   *)
LEMMA TrimKeepingLeaves ==
  ASSUME NEW m, Grown(m), Sys!StackLimit \in Int, m.brk < Sys!StackLimit, m.brk < HeapEnd,
         NEW keep \in Nat,
         NEW n, n = TrimKeeping(m, keep)
  PROVE  Leaves(m, n, keep)
<1>1. /\ m.top \in Int /\ m.topsize \in Int /\ m.segbase \in Int /\ m.topsize > 0
      /\ Counted(m) /\ Segment(m.head, m.foot, m.segbase, m.top, m.topsize)
  BY SoundIs, SegmentIs DEF Grown
<1>2. /\ TopFoot \in Int /\ TopFoot > 0 /\ Granularity \in Nat /\ Granularity > 0
      /\ HeapStart \in Nat /\ AddrSpace \in Nat /\ HeapEnd < AddrSpace /\ HeapEnd \in Int
  BY TagsAssumption, HeapAssumption, ListsAssumption DEF HeapEnd
<1>3. PICK b \in Int : /\ b = m.brk /\ m.top + m.topsize + TopFoot = b /\ HeapStart <= m.top
                       /\ b < HeapEnd /\ b = SegmentEnd(m)
  <2>1. HeapStart <= m.top
    BY <1>1, <1>2, SegmentIs
  <2> QED  BY <1>1, <1>2, <2>1 DEF Counted, SegmentEnd
<1>4. PICK t \in Int : t = m.topsize /\ t > 0
  BY <1>1
<1>5. Sys!Wrap(b) = b /\ b + 0 = b /\ Sys!Grantable(b)
  BY <1>1, <1>2, <1>3 DEF Sys!Wrap, Sys!Grantable
<1>6. Sys!SbrkReturns(b, 0) = b
  BY <1>5 DEF Sys!SbrkReturns
<1>7. PICK extra : extra = ((t - keep + Granularity - 1) \div Granularity - 1) * Granularity
  OBVIOUS
<1>8. PICK c : c = IF t > keep /\ Sys!SbrkReturns(b, 0) = SegmentEnd(m)
                   THEN Sys!BreakAfter(b, -extra) ELSE b
  OBVIOUS
<1>9. n = TrimTo(m, c)
  BY <1>3, <1>4, <1>7, <1>8, Zenon DEF TrimKeeping
<1>10. CASE t > keep
  <2>1. extra \in Int /\ 0 <= extra /\ extra < t - keep /\ t - keep <= extra + Granularity
    BY <1>7, <1>10, TrimExtra
  <2>2. PICK w \in Int : w = b + (-extra) /\ w = b - extra
    BY <2>1
  <2>3. HeapStart <= w /\ w <= b
    BY <1>1, <1>2, <1>3, <1>4, <2>1, <2>2
  <2>4. Sys!Wrap(w) = w
    BY <1>2, <1>3, <2>3 DEF Sys!Wrap
  <2>5. Sys!Grantable(w)
    <3>1. b < Sys!StackLimit /\ b < HeapEnd
      BY <1>3
    <3> QED  BY <1>2, <1>3, <2>3, <3>1 DEF Sys!Grantable
  <2>6. c = w
    BY <1>3, <1>6, <1>8, <1>10, <2>2, <2>4, <2>5, Zenon DEF Sys!BreakAfter
  <2>7. n.topsize = t - (b - w)
    <3>1. n = TrimTo(m, w) /\ m.brk \in Int
      BY <1>3, <1>9, <2>6
    <3>2. n.topsize = m.topsize - (m.brk - w)
      BY <3>1, TrimToLeaves
    <3> QED  BY <1>3, <1>4, <3>2
  <2>8. n.topsize = t - extra
    BY <2>1, <2>2, <2>7
  <2> QED  BY <1>2, <1>4, <2>1, <2>8 DEF Leaves
<1>11. CASE ~(t > keep)
  <2>1. c = b
    BY <1>8, <1>11, Zenon
  <2>2. n.topsize = t
    <3>1. n = TrimTo(m, b) /\ m.brk \in Int
      BY <1>3, <1>9, <2>1
    <3>2. n.topsize = m.topsize - (m.brk - b)
      BY <3>1, TrimToLeaves
    <3>3. n.topsize = t - (b - b)
      BY <1>3, <1>4, <3>2
    <3> QED  BY <3>3
  <2> QED  BY <1>2, <1>4, <1>11, <2>2 DEF Leaves
<1> QED  BY <1>10, <1>11

(* The stack limit is a number: the stack is at one of its addresses.      *)
LEMMA StackLimitIs ==
  ASSUME HeapInv
  PROVE  Sys!StackLimit \in Int
<1>1. sp \in Int /\ GuardLimit \in Int /\ HeapSize \in Nat /\ AddrSpace \in Int
  BY HeapAssumption DEF HeapInv
<1>2. PICK g \in Int : g = IF HeapSize >= GuardLimit THEN GuardLimit ELSE HeapSize \div 2
  BY <1>1
<1>3. Sys!StackLimit = Sys!Wrap(sp - g)
  BY <1>2 DEF Sys!StackLimit
<1> QED  BY <1>1, <1>3 DEF Sys!Wrap

(* So does malloc_trim() on a heap that has memory.                        *)
LEMMA TrimStepLeaves ==
  ASSUME HeapInv, Sys!BreakInHeap, NEW pad \in TrimPads, MallocTrim(pad), gm.top # NULL,
         gm.brk < Sys!StackLimit
  PROVE  Leaves(gm, gm', pad + TopFoot)
<1>1. Grown(gm) /\ pad \in Nat /\ pad + TopFoot \in Nat
  BY HeapKinds, ProgramAssumption, TagsAssumption
<1>2. gm' = SysTrim(gm, pad)
  BY DEF MallocTrim
<1>3. PICK m, keep : m = gm /\ keep = pad + TopFoot
  OBVIOUS
<1>4. /\ m.segbase \in Int /\ m.top \in Int /\ m.topsize \in Int /\ m.topsize > 0 /\ m.segbase <= m.top
      /\ HeapStart <= m.segbase /\ m.top + m.topsize + TopFoot <= HeapEnd
      /\ m.brk = m.top + m.topsize + TopFoot /\ m.brk \in Int
  <2>1. Counted(m) /\ Segment(m.head, m.foot, m.segbase, m.top, m.topsize)
    BY <1>1, <1>3, SoundIs DEF Grown
  <2>2. /\ m.segbase \in Int /\ m.top \in Int /\ m.topsize \in Int /\ m.topsize > 0 /\ m.segbase <= m.top
        /\ HeapStart <= m.segbase /\ m.top + m.topsize + TopFoot <= HeapEnd
    BY <2>1, SegmentIs
  <2> QED  BY <2>1, <2>2, TagsAssumption DEF Counted
<1>5. CASE pad >= MaxRequest
  <2>1. gm' = gm
    BY <1>2, <1>5, Zenon DEF SysTrim
  <2>2. /\ AddrSpace \in Nat /\ HalfMax \in Nat /\ HalfMax + HalfMax <= AddrSpace
        /\ MinChunk \in Nat /\ 4 * MinChunk <= HalfMax /\ TopFoot \in Nat /\ Granularity \in Nat
        /\ HeapSize \in Nat /\ HeapSize < HalfMax /\ HeapStart \in Nat
    BY HeapAssumption, ListsAssumption, TagsAssumption DEF HalfMax
  <2>3. pad >= HeapSize
    BY <1>1, <1>5, <2>2 DEF MaxRequest
  <2>4. m.topsize <= HeapSize
    BY <1>4, <2>2 DEF HeapEnd
  <2>5. m.topsize <= keep + Granularity
    BY <1>1, <1>3, <1>4, <2>2, <2>3, <2>4
  <2> QED  BY <1>3, <1>4, <2>1, <2>5 DEF Leaves
<1>6. CASE ~(pad >= MaxRequest)
  <2>1. gm' = TrimKeeping(m, keep)
    BY <1>2, <1>3, <1>6, Zenon DEF SysTrim
  <2>2. m.brk < HeapEnd
    <3>1. m.brk # HeapStart
      BY <1>4, HeapAssumption, TagsAssumption
    <3> QED  BY <1>3, <3>1 DEF Sys!BreakInHeap
  <2> QED  BY <1>1, <1>3, <2>1, <2>2, StackLimitIs, TrimKeepingLeaves
<1> QED  BY <1>5, <1>6

(* malloc_trim(pad) leaves more than pad on top, and less than a page more *)
(* than it must keep, when the stack lets the break move.                  *)
THEOREM TrimLeavesRoom == Spec => TrimLeavesPad
<1>1. HeapInv /\ Sys!BreakInHeap /\ [Next]_vars =>
        [\A pad \in TrimPads :
           MallocTrim(pad) /\ gm.top # NULL /\ gm.brk < Sys!StackLimit =>
             /\ gm'.topsize <= pad + TopFoot + Granularity
             /\ gm'.topsize < gm.topsize => gm'.topsize > pad + TopFoot]_vars
  BY TrimStepLeaves DEF Leaves
<1> QED  BY <1>1, HeapInvariance, BreakStaysInHeap, PTL DEF Spec, TrimLeavesPad

-----------------------------------------------------------------------------
(* Mappings and the TLS block                                              *)
(*                                                                         *)
(* The inductive invariant MapInv adds to HeapInv which blocks are         *)
(* mappings and which one is the TLS block.  The calls of Mmap keep it by  *)
(* what DlmallocProofs shows of malloc(), internal_memalign() and free();  *)
(* the program's other calls, by CallsStep, which says that they leave     *)
(* every block alone that they were not given.                             *)

(* The blocks of mmap() are on page boundaries.                            *)
Paged(S) == \A p \in S : (p + 1) % PageSize = 0

MapInv ==
  /\ HeapInv
  /\ mapped \subseteq DOMAIN live /\ Paged(mapped) /\ tls \notin mapped
  /\ stage = "boot" => freeing = <<>> /\ mapped = {}
  /\ stage = "running" => tls \in DOMAIN live /\ live[tls] = TlsSize

(* A call left the blocks of the program that it was not given as they     *)
(* were.                                                                   *)
LEMMA MappingsStay ==
  ASSUME MapInv, NEW S, Stepped(S), HeapInv', S \cap (mapped \cup {tls}) = {}, stage = "running",
         UNCHANGED <<stage, tls, mapped>>
  PROVE  MapInv'
<1>1. mapped \subseteq DOMAIN live' /\ tls \in DOMAIN live' /\ live'[tls] = TlsSize
  BY DEF MapInv, Stepped, Others
<1> QED  BY <1>1 DEF MapInv, Paged

(* The TLS block is a block like any other, and the first.                 *)
LEMMA BootStep ==
  ASSUME MapInv, AllocTls
  PROVE  MapInv'
<1>1. State(gm, live, <<>>) /\ Heap(gm) /\ freeing = <<>> /\ mapped = {} /\ TlsSize \in Nat
  BY MmapAssumption DEF MapInv, HeapInv, State, AllocTls
<1>2. PICK got : got = DlMalloc(gm, TlsSize)
  OBVIOUS
<1>3. Served(gm, got, SizeFor(TlsSize))
  BY <1>1, <1>2, MallocKeepsHeap
<1>4. /\ gm' = got.heap /\ live' = (IF got.mem = NULL THEN live ELSE Put(live, got.mem, TlsSize))
      /\ InitTls(got) /\ UNCHANGED <<sp, freeing, asked, mapped, ret>>
  BY <1>2 DEF AllocTls
<1>5. Without(live, {}) = live
  BY <1>1 DEF State, Holds, Without
<1>6. State(gm', live', freeing')
  BY <1>1, <1>3, <1>4, <1>5, ServedHeld
<1>7. HeapInv'
  BY <1>4, <1>6 DEF MapInv, HeapInv
<1>8. stage' = "running" => tls' \in DOMAIN live' /\ live'[tls'] = TlsSize
  BY <1>4 DEF InitTls, Put
<1>9. stage' # "boot" /\ mapped' = {}
  BY <1>1, <1>4 DEF InitTls
<1> QED  BY <1>7, <1>8, <1>9 DEF MapInv, Paged

(* mmap() reserves what malloc() would, on a page boundary.                *)
LEMMA ReserveIs ==
  ASSUME NEW m, Heap(m), NEW len \in Nat, NEW got, got = Reserve(m, len)
  PROVE  Served(m, got, SizeFor(len)) /\ AlignedTo(got, PageSize)
<1>1. PageSize \in Nat /\ PageSize >= MinChunk /\ MinChunk \in Nat
  BY MmapAssumption, TagsAssumption, ListsAssumption
<1>2. CASE len <= MaxRequest - PageSize
  BY <1>1, <1>2, InternalMemalignIs DEF Reserve, PosixMemalign
<1>3. CASE ~(len <= MaxRequest - PageSize)
  BY <1>3, NothingLeft DEF Reserve, PosixMemalign, Result, Served, AlignedTo
<1> QED  BY <1>2, <1>3

(* mmap() keeps the invariant.                                             *)
LEMMA MapNewStep ==
  ASSUME MapInv, NEW len \in Lengths, MapNew(len)
  PROVE  MapInv'
<1>1. State(gm, live, <<>>) /\ Heap(gm) /\ freeing = <<>> /\ stage = "running" /\ len \in Nat
  BY RunningState, MmapAssumption DEF MapInv, MapNew, Available
<1>2. PICK got : got = Reserve(gm, len)
  OBVIOUS
<1>3. Served(gm, got, SizeFor(len)) /\ AlignedTo(got, PageSize)
  BY <1>1, <1>2, ReserveIs
<1>4. /\ gm' = got.heap
      /\ got.mem = NULL => live' = live /\ mapped' = mapped
      /\ got.mem # NULL => live' = Put(live, got.mem, len) /\ mapped' = mapped \cup {got.mem}
      /\ UNCHANGED <<sp, freeing, asked, stage, tls>>
  BY <1>2 DEF MapNew
<1>5. Without(live, {}) = live
  BY <1>1 DEF State, Holds, Without
<1>6. State(gm', live', freeing')
  BY <1>1, <1>3, <1>4, <1>5, ServedHeld
<1>7. HeapInv'
  BY <1>4, <1>6 DEF MapInv, HeapInv
<1>8. got.mem # NULL => got.mem \notin DOMAIN live
  BY <1>1, <1>3 DEF Served, Given, State, Holds
<1>9. tls \in DOMAIN live /\ live[tls] = TlsSize /\ tls \notin mapped /\ mapped \subseteq DOMAIN live
  BY <1>1 DEF MapInv
<1>10. CASE got.mem = NULL
  BY <1>1, <1>4, <1>7, <1>10 DEF MapInv, Paged
<1>11. CASE got.mem # NULL
  <2>1. DOMAIN live' = DOMAIN live \cup {got.mem} /\ live'[tls] = TlsSize
    BY <1>4, <1>8, <1>9, <1>11 DEF Put
  <2>2. Paged(mapped')
    BY <1>3, <1>4, <1>11 DEF Paged, AlignedTo, MapInv
  <2> QED  BY <1>1, <1>4, <1>7, <1>8, <1>9, <1>11, <2>1, <2>2 DEF MapInv
<1> QED  BY <1>10, <1>11

(* munmap() keeps the invariant.                                           *)
LEMMA MunmapStep ==
  ASSUME MapInv, NEW p \in mapped, NEW offset, Munmap(p, offset)
  PROVE  MapInv'
<1>1. State(gm, live, <<>>) /\ freeing = <<>> /\ stage = "running" /\ p \in DOMAIN live
  BY RunningState DEF MapInv, Munmap, Available
<1>2. UNCHANGED <<sp, freeing, asked, stage, tls>>
  BY DEF Munmap
<1>3. CASE gm' = gm /\ live' = live /\ mapped' = mapped
  BY <1>2, <1>3 DEF MapInv, HeapInv, Paged
<1>4. CASE gm' = DlFree(gm, p) /\ live' = Without(live, {p}) /\ mapped' = mapped \ {p}
  <2>1. p \in UsedIn(gm.head) /\ Grown(gm)
    BY <1>1, BlockUsed
  <2>2. Left(gm, gm', UsedIn(gm.head) \ {p})
    BY <1>4, <2>1, FreeKeepsHeap
  <2>3. State(gm', live', freeing')
    BY <1>1, <1>2, <1>4, <2>2, HeldAfterFree
  <2>4. HeapInv'
    BY <1>2, <2>3 DEF MapInv, HeapInv
  <2>5. DOMAIN live' = DOMAIN live \ {p} /\ \A x \in DOMAIN live' : live'[x] = live[x]
    BY <1>4 DEF Without
  <2>6. tls # p
    BY DEF MapInv
  <2> QED  BY <1>1, <1>2, <1>4, <2>4, <2>5, <2>6 DEF MapInv, Paged
<1> QED  BY <1>3, <1>4 DEF Munmap, Release

(* MapInv is inductive.                                                    *)
LEMMA MapNext == MapInv /\ [MmapNext]_allvars => MapInv'
<1> SUFFICES ASSUME MapInv, [MmapNext]_allvars PROVE MapInv'
  OBVIOUS
<1>1. CASE Boot
  BY <1>1, BootStep DEF Boot
<1>2. CASE \E len \in Lengths : MapNew(len)
  BY <1>2, MapNewStep
<1>3. CASE \E p \in mapped : Commit(p, live[p])
  <2>1. UNCHANGED <<gm, live, sp, freeing, asked, stage, tls, mapped>>
    BY <1>3 DEF Commit, CommitIn
  <2> QED  BY <2>1 DEF MapInv, HeapInv, Paged
<1>4. CASE MapHint
  BY <1>4 DEF MapHint, MapInv, HeapInv, Paged
<1>5. CASE MapFile
  BY <1>5 DEF MapFile, MapInv, HeapInv, Paged
<1>6. CASE \E p \in mapped, offset \in {0, 1} : Munmap(p, offset)
  BY <1>6, MunmapStep
<1>7. CASE stage = "running" /\ Calls(Own) /\ UNCHANGED <<stage, tls, mapped>>
  <2>1. HeapInv /\ Own \subseteq DOMAIN live
    BY DEF MapInv, Own
  <2>2. Stepped(Own) /\ HeapInv'
    BY <1>7, <2>1, CallsStep
  <2>3. Own \cap (mapped \cup {tls}) = {}
    BY DEF Own
  <2> QED  BY <1>7, <2>2, <2>3, MappingsStay
<1>8. CASE UNCHANGED allvars
  BY <1>8 DEF allvars, MapInv, HeapInv, Paged
<1> QED  BY <1>1, <1>2, <1>3, <1>4, <1>5, <1>6, <1>7, <1>8 DEF MmapNext, MapCall

(* The heap stays sound, and every mapping is a block of it, when the      *)
(* program maps and unmaps as well as allocates.                           *)
THEOREM MapInvariance == MmapSpec => []MapInv
<1>1. BootInit => MapInv
  <2> SUFFICES ASSUME BootInit PROVE MapInv
    OBVIOUS
  <2>1. Init /\ freeing = <<>> /\ mapped = {} /\ stage = "boot"
    BY DEF BootInit, Init
  <2> QED  BY <2>1, InitHeap DEF MapInv, Paged
<1> QED  BY <1>1, MapNext, PTL DEF MmapSpec

(* With mappings, the TLS block, batches and aligned blocks in the heap no *)
(* check of malloc() and free() fails, the chunks tile the segment, their  *)
(* tags agree, free neighbours are merged, and every free chunk is in      *)
(* exactly one list.                                                       *)
THEOREM HeapWithMappings == MmapSpec => []HeapConsistent
<1>1. MapInv => HeapConsistent
  <2> SUFFICES ASSUME MapInv PROVE HeapConsistent
    OBVIOUS
  <2>1. HeapInv
    BY DEF MapInv
  <2>2. NoAbort
    BY <2>1, HeapIs DEF HeapInv, State, NoAbort
  <2> QED  BY <2>1, <2>2, HeapTiled, HeapTagged, HeapCoalesced, HeapListed DEF HeapConsistent
<1> QED  BY <1>1, MapInvariance, PTL

(* The chunks in use are the blocks of the program, its mappings and its   *)
(* TLS block among them, and those that bulk_free() has still to free.     *)
THEOREM BlocksWithMappings == MmapSpec => []BlocksExact
<1>1. MapInv => BlocksExact
  BY HeapBlocks DEF MapInv
<1> QED  BY <1>1, MapInvariance, PTL

(* What mmap() gave stays on its page boundary, as large as it was asked   *)
(* for, apart from the TLS block that _nolibc_init() allocated, which no   *)
(* call takes back or cuts.                                                *)
THEOREM MappingsAreHeld == MmapSpec => []MappingsHeld
<1>1. MapInv => MappingsHeld
  <2> SUFFICES ASSUME MapInv PROVE MappingsHeld
    OBVIOUS
  <2>1. BlocksExact
    BY HeapBlocks DEF MapInv
  <2>2. \A p \in DOMAIN live : p \in UsedChunks /\ ChunkSize(gm, p) - Overhead >= live[p]
    BY <2>1 DEF BlocksExact
  <2>3. mapped \subseteq DOMAIN live /\ Paged(mapped) /\ tls \notin mapped
    BY DEF MapInv
  <2>4. stage = "running" => tls \in DOMAIN live /\ live[tls] = TlsSize
    BY DEF MapInv
  <2>5. \A p \in mapped : /\ p \in UsedChunks \ {tls} /\ (p + 1) % PageSize = 0
                          /\ ChunkSize(gm, p) - Overhead >= live[p]
    BY <2>2, <2>3 DEF Paged
  <2>6. stage = "running" => /\ tls \in UsedChunks \ mapped
                             /\ ChunkSize(gm, tls) - Overhead >= TlsSize
    BY <2>2, <2>3, <2>4
  <2> QED  BY <2>5, <2>6 DEF MappingsHeld
<1> QED  BY <1>1, MapInvariance, PTL

-----------------------------------------------------------------------------
(* What a call of mmap() or munmap() may do                                *)

(* The chunks in use, as MapCallsExact names them.                         *)
InUse(m) == {p \in DOMAIN m.head \ {m.top + m.topsize} : Cinuse(m, p)}

(* The chunks in use are those that the proofs name.                       *)
LEMMA InUseIs ==
  ASSUME NEW m, Heap(m)
  PROVE  InUse(m) = UsedIn(m.head)
<1>1. CASE Empty(m)
  BY <1>1 DEF Empty, InUse, UsedIn
<1>2. CASE Grown(m)
  <2>1. ~m.head[m.top + m.topsize].cinuse
    BY <1>2, GrownIs, TopIs
  <2> QED  BY <2>1 DEF InUse, UsedIn, Cinuse
<1> QED  BY <1>1, <1>2 DEF Heap

(* The call gave at most one block and took at most one, not both, and if  *)
(* neither, it left the heap alone.                                        *)
OneBlock(before, after) ==
  \/ after = before /\ Untouched
  \/ \E p : p \notin before /\ after = before \cup {p}
  \/ \E p : p \in before /\ after = before \ {p}

(* Such a call adds and removes at most one block in all.                  *)
LEMMA OneBlockCounts ==
  ASSUME NEW before, NEW after, OneBlock(before, after)
  PROVE  /\ Cardinality(before \ after) + Cardinality(after \ before) <= 1
         /\ before = after => Untouched
<1>1. Cardinality({}) = 0 /\ \A p : Cardinality({p}) = 1
  BY FS_EmptySet, FS_Singleton
<1>2. CASE after = before /\ Untouched
  <2>1. before \ after = {} /\ after \ before = {}
    BY <1>2
  <2> QED  BY <1>1, <1>2, <2>1
<1>3. ASSUME NEW p, p \notin before, after = before \cup {p}
      PROVE  /\ before \ after = {} /\ after \ before = {p}
             /\ before # after
  BY <1>3
<1>4. ASSUME NEW p, p \in before, after = before \ {p}
      PROVE  /\ before \ after = {p} /\ after \ before = {}
             /\ before # after
  BY <1>4
<1>5. CASE \E p : p \notin before /\ after = before \cup {p}
  <2>1. PICK p : before \ after = {} /\ after \ before = {p} /\ before # after
    BY <1>3, <1>5
  <2>2. Cardinality(before \ after) = 0 /\ Cardinality(after \ before) = 1
    BY <1>1, <2>1
  <2> QED  BY <2>1, <2>2
<1>6. CASE \E p : p \in before /\ after = before \ {p}
  <2>1. PICK p : before \ after = {p} /\ after \ before = {} /\ before # after
    BY <1>4, <1>6
  <2>2. Cardinality(before \ after) = 1 /\ Cardinality(after \ before) = 0
    BY <1>1, <2>1
  <2> QED  BY <2>1, <2>2
<1> QED  BY <1>2, <1>5, <1>6 DEF OneBlock

(* A call that fails gives and takes nothing.                              *)
Honest == ret'.value = MAP_FAILED => DOMAIN live' = DOMAIN live

(* A call that changes neither the heap nor the blocks is one of these.    *)
LEMMA NothingDone ==
  ASSUME UNCHANGED <<gm, live>>
  PROVE  OneBlock(DOMAIN live, DOMAIN live') /\ Honest
BY DEF OneBlock, Untouched, Honest

(* mmap(NULL, len) gives one block or leaves the heap as it was.           *)
LEMMA MapNewExact ==
  ASSUME MapInv, MapInv', NEW len \in Lengths, MapNew(len)
  PROVE  OneBlock(DOMAIN live, DOMAIN live') /\ Honest
<1>1. State(gm, live, <<>>) /\ Heap(gm) /\ len \in Nat
  BY RunningState, MmapAssumption DEF MapInv, MapNew, Available
<1>2. PICK got : got = Reserve(gm, len)
  OBVIOUS
<1>3. Served(gm, got, SizeFor(len))
  BY <1>1, <1>2, ReserveIs
<1>4. /\ gm' = got.heap
      /\ got.mem = NULL => live' = live
      /\ got.mem # NULL => live' = Put(live, got.mem, len) /\ ret' = Ok(Chunk2Mem(got.mem))
  BY <1>2 DEF MapNew
<1>5. CASE got.mem = NULL
  <2>1. Untouched
    BY <1>3, <1>4, <1>5, UntouchedIs DEF Served
  <2> QED  BY <1>4, <1>5, <2>1 DEF OneBlock, Honest
<1>6. CASE got.mem # NULL
  <2>1. got.mem \notin DOMAIN live
    BY <1>1, <1>3, <1>6 DEF Served, Given, State, Holds
  <2>2. DOMAIN live' = DOMAIN live \cup {got.mem}
    BY <1>4, <1>6 DEF Put
  <2>3. got.mem \in HeapStart .. HeapEnd - 1
    <3>1. State(gm', live', freeing') /\ got.mem \in DOMAIN live'
      BY <2>2 DEF MapInv, HeapInv
    <3> QED  BY <3>1, BlocksApart
  <2>4. ret'.value # MAP_FAILED
    <3>1. PICK p \in Nat : p = got.mem
      BY <2>3, HeapAssumption DEF HeapEnd
    <3>2. ret'.value = GranuleBytes * (p + 1)
      BY <1>4, <1>6, <3>1 DEF Ok, Chunk2Mem
    <3>3. GranuleBytes * (p + 1) \in Nat
      BY MmapAssumption
    <3> QED  BY <3>2, <3>3 DEF MAP_FAILED
  <2> QED  BY <2>1, <2>2, <2>4 DEF OneBlock, Honest
<1> QED  BY <1>5, <1>6

(* munmap() takes one block, or none when the address is not a block's.    *)
LEMMA MunmapExact ==
  ASSUME MapInv, NEW p \in mapped, NEW offset, Munmap(p, offset)
  PROVE  OneBlock(DOMAIN live, DOMAIN live') /\ Honest
<1>1. p \in DOMAIN live
  BY DEF MapInv
<1>2. CASE UNCHANGED <<gm, live>>
  BY <1>2, NothingDone
<1>3. CASE ret' = Ok(0) /\ live' = Without(live, {p})
  <2>1. DOMAIN live' = DOMAIN live \ {p}
    BY <1>3 DEF Without
  <2>2. ret'.value # MAP_FAILED
    BY <1>3 DEF Ok, MAP_FAILED
  <2> QED  BY <1>1, <2>1, <2>2 DEF OneBlock, Honest
<1> QED  BY <1>2, <1>3 DEF Munmap

(* Each call of this interface is one of these, and the chunks in use are  *)
(* the blocks.                                                             *)
LEMMA MapCallExact ==
  ASSUME MapInv, MapInv', MapCall
  PROVE  /\ OneBlock(DOMAIN live, DOMAIN live') /\ Honest
         /\ InUse(gm) = DOMAIN live /\ InUse(gm') = DOMAIN live'
<1>1. OneBlock(DOMAIN live, DOMAIN live') /\ Honest
  <2>1. CASE \E len \in Lengths : MapNew(len)
    BY <2>1, MapNewExact
  <2>2. CASE \E p \in mapped, offset \in {0, 1} : Munmap(p, offset)
    BY <2>2, MunmapExact
  <2>3. CASE \E p \in mapped : Commit(p, live[p])
    BY <2>3, NothingDone DEF Commit, CommitIn
  <2>4. CASE MapHint \/ MapFile
    BY <2>4, NothingDone DEF MapHint, MapFile
  <2> QED  BY <2>1, <2>2, <2>3, <2>4 DEF MapCall
<1>2. freeing = <<>> /\ freeing' = <<>>
  BY DEF MapCall, MapNew, Munmap, Commit, MapHint, MapFile, Available, Running
<1>3. ASSUME NEW m, NEW l, State(m, l, <<>>)
      PROVE  InUse(m) = DOMAIN l
  <2>1. UsedIn(m.head) = DOMAIN l
    BY <1>3, NoneFreeing DEF State, Holds
  <2> QED  BY <1>3, <2>1, InUseIs DEF State
<1>4. InUse(gm) = DOMAIN live /\ InUse(gm') = DOMAIN live'
  BY <1>2, <1>3 DEF MapInv, HeapInv
<1> QED  BY <1>1, <1>4

(* Only mmap(NULL) reserves memory and only munmap() gives it back, one    *)
(* block a call; a call that fails, and one that commits or decommits,     *)
(* leaves every block and count as it was.                                 *)
THEOREM MapCallsAreExact == MmapSpec => MapCallsExact
<1>1. MapInv /\ MapInv' /\ [MmapNext]_allvars =>
        [MapCall =>
           LET before == DOMAIN live
               after == DOMAIN live'
               used(m) == {p \in DOMAIN m.head \ {m.top + m.topsize} : Cinuse(m, p)}
           IN  /\ used(gm') = (used(gm) \ (before \ after)) \cup (after \ before)
               /\ Cardinality(before \ after) + Cardinality(after \ before) <= 1
               /\ before = after => \A x \in DOMAIN gm \ {"contiguous"} : gm'[x] = gm[x]
               /\ ret'.value = MAP_FAILED => before = after]_allvars
  <2> SUFFICES ASSUME MapInv, MapInv', MapCall
               PROVE  /\ InUse(gm') = (InUse(gm) \ (DOMAIN live \ DOMAIN live')) \cup (DOMAIN live' \ DOMAIN live)
                      /\ Cardinality(DOMAIN live \ DOMAIN live') + Cardinality(DOMAIN live' \ DOMAIN live) <= 1
                      /\ DOMAIN live = DOMAIN live' => Untouched
                      /\ ret'.value = MAP_FAILED => DOMAIN live = DOMAIN live'
    BY DEF InUse, Untouched
  <2>1. /\ OneBlock(DOMAIN live, DOMAIN live') /\ Honest
        /\ InUse(gm) = DOMAIN live /\ InUse(gm') = DOMAIN live'
    BY MapCallExact
  <2>2. PICK before, after : before = DOMAIN live /\ after = DOMAIN live'
    OBVIOUS
  <2>3. InUse(gm') = (InUse(gm) \ (before \ after)) \cup (after \ before)
    BY <2>1, <2>2
  <2> QED  BY <2>1, <2>2, <2>3, OneBlockCounts DEF Honest
<1> QED  BY <1>1, MapInvariance, PTL DEF MapCallsExact, MmapSpec

-----------------------------------------------------------------------------
(* The program's blocks and its mappings, seen from the abstract allocator *)

(* What the program may do with some of its blocks it may do with all.     *)
LEMMA OwnCalls ==
  ASSUME NEW own, own \subseteq DOMAIN live, Calls(own)
  PROVE  Next
<1>1. Arrays(own) \subseteq Arrays(DOMAIN live)
  <2> SUFFICES ASSUME NEW a \in Arrays(own) PROVE a \in Arrays(DOMAIN live)
    OBVIOUS
  <2>1. PICK n \in 1 .. MaxBatch :
               a \in [1 .. n -> own] /\ \A i, j \in 1 .. n : a[i] = a[j] => i = j
    BY Zenon DEF Arrays
  <2>2. a \in [1 .. n -> DOMAIN live]
    BY <2>1
  <2>3. \E k \in 1 .. MaxBatch :
          a \in {x \in [1 .. k -> DOMAIN live] : \A i, j \in 1 .. k : x[i] = x[j] => i = j}
    BY <2>1, <2>2
  <2> QED  BY <2>3 DEF Arrays
<1> QED  BY <1>1 DEF Calls, Next

(* A call of this module gives a new block of one of these sizes, takes    *)
(* the mapping it was given, or leaves the blocks alone.                   *)
MapSizes == Lengths \cup {TlsSize}

Mapping ==
  \/ Stepped({}) /\ (live' = live \/ \E r \in MapSizes : \E q : live' = Put(live, q, r))
  \/ \E p \in mapped : Stepped({p}) /\ live' = Without(live, {p})

(* Every call of this module and the boot is one of these, or leaves heap  *)
(* and blocks alone.                                                       *)
LEMMA MapCallKind ==
  ASSUME MapInv, Boot \/ MapCall
  PROVE  UNCHANGED <<gm, live>> \/ Mapping
<1>1. State(gm, live, freeing)
  BY DEF MapInv, HeapInv
<1>2. ASSUME freeing = <<>>, freeing' = freeing, NEW r \in MapSizes, NEW got,
             Served(gm, got, SizeFor(r)), gm' = got.heap,
             live' = IF got.mem = NULL THEN live ELSE Put(live, got.mem, r)
      PROVE  Mapping
  <2>1. Without(live, {}) = live
    BY <1>1 DEF State, Holds, Without
  <2>2. State(gm, live, <<>>) /\ r \in Nat
    BY <1>1, <1>2, MmapAssumption DEF MapSizes
  <2>3. Stepped({})
    BY <1>2, <2>1, <2>2, ServedHeld DEF Stepped
  <2>4. live' = live \/ live' = Put(live, got.mem, r)
    BY <1>2
  <2>5. live' = live \/ \E z \in MapSizes : \E q : live' = Put(live, q, z)
    BY <2>4
  <2> QED  BY <2>3, <2>5 DEF Mapping
<1>3. CASE Boot
  <2>1. freeing = <<>> /\ Heap(gm) /\ TlsSize \in Nat
    BY <1>1, <1>3, MmapAssumption DEF MapInv, Boot, AllocTls, State
  <2>2. PICK got : got = DlMalloc(gm, TlsSize)
    OBVIOUS
  <2>3. Served(gm, got, SizeFor(TlsSize))
    BY <2>1, <2>2, MallocKeepsHeap
  <2>4. /\ gm' = got.heap /\ live' = (IF got.mem = NULL THEN live ELSE Put(live, got.mem, TlsSize))
        /\ freeing' = freeing
    BY <1>3, <2>2 DEF Boot, AllocTls
  <2>5. TlsSize \in MapSizes
    BY DEF MapSizes
  <2> QED  BY <1>2, <2>1, <2>3, <2>4, <2>5
<1>4. ASSUME NEW len \in Lengths, MapNew(len)
      PROVE  Mapping
  <2>1. freeing = <<>> /\ Heap(gm) /\ len \in Nat
    BY <1>1, <1>4, MmapAssumption DEF MapNew, Available, Running, State
  <2>2. PICK got : got = Reserve(gm, len)
    OBVIOUS
  <2>3. Served(gm, got, SizeFor(len))
    BY <2>1, <2>2, ReserveIs
  <2>4. /\ gm' = got.heap /\ live' = (IF got.mem = NULL THEN live ELSE Put(live, got.mem, len))
        /\ freeing' = freeing
    BY <1>4, <2>2 DEF MapNew
  <2>5. len \in MapSizes
    BY DEF MapSizes
  <2> QED  BY <1>2, <2>1, <2>3, <2>4, <2>5
<1>5. ASSUME NEW p \in mapped, NEW offset, Munmap(p, offset)
      PROVE  UNCHANGED <<gm, live>> \/ Mapping
  <2>1. p \in DOMAIN live /\ freeing = <<>> /\ freeing' = freeing
    BY <1>5 DEF MapInv, Munmap, Available, Running
  <2>2. CASE gm' = DlFree(gm, p) /\ live' = Without(live, {p})
    <3>1. State(gm, live, <<>>)
      BY <1>1, <2>1
    <3>2. p \in UsedIn(gm.head) /\ Grown(gm)
      BY <2>1, <3>1, BlockUsed
    <3>3. Left(gm, gm', UsedIn(gm.head) \ {p})
      BY <2>2, <3>2, FreeKeepsHeap
    <3>4. Stepped({p})
      BY <2>1, <2>2, <3>1, <3>3, HeldAfterFree DEF Stepped
    <3> QED  BY <2>2, <3>4 DEF Mapping
  <2> QED  BY <1>5, <2>2 DEF Munmap, Release
<1>6. ASSUME NEW p \in mapped, Commit(p, live[p])
      PROVE  UNCHANGED <<gm, live>>
  BY <1>6 DEF Commit, CommitIn
<1>7. CASE MapHint \/ MapFile
  BY <1>7 DEF MapHint, MapFile
<1> QED  BY <1>3, <1>4, <1>5, <1>6, <1>7 DEF MapCall

(* A block keeps its header and its size through mmap() and munmap() too.  *)
LEMMA MapSizesStep ==
  ASSUME MapInv, [MmapNext]_allvars, NEW p \in DOMAIN live \cap DOMAIN live'
  PROVE  \/ p \in DOMAIN gm'.head /\ gm'.head[p].size = gm.head[p].size
         \/ \E r \in Requests : Realloc(p, r) \/ ReallocInPlace(p, r)
<1>1. HeapInv /\ State(gm, live, freeing) /\ Own \subseteq DOMAIN live
  BY DEF MapInv, HeapInv, Own
<1>2. CASE Calls(Own)
  BY <1>1, <1>2, OwnCalls, SizesStep
<1>3. CASE UNCHANGED <<gm, live>>
  <2>1. p \in UsedIn(gm.head)
    BY <1>1, BlockUsed
  <2> QED  BY <1>3, <2>1 DEF UsedIn
<1>4. CASE Mapping
  <2>1. ASSUME NEW S, Stepped(S), p \notin S
        PROVE  p \in DOMAIN gm'.head /\ gm'.head[p].size = gm.head[p].size
    <3>1. State(gm', live', freeing')
      BY <2>1 DEF Stepped
    <3>2. p \in UsedIn(gm'.head)
      BY <3>1, BlockUsed
    <3> QED  BY <2>1, <3>2 DEF Stepped, Others, UsedIn
  <2>2. ASSUME NEW q, Stepped({q}), live' = Without(live, {q})
        PROVE  p # q
    BY <2>2 DEF Without
  <2> QED  BY <1>4, <2>1, <2>2 DEF Mapping
<1> QED  BY <1>2, <1>3, <1>4, MapCallKind DEF MmapNext, allvars

(* A block of the program, a mapping and the TLS block keep their header   *)
(* and usable size through every call but a realloc of that very block.    *)
THEOREM SizesStayMapped == MmapSpec => UsableSizesKept
<1>1. MapInv /\ [MmapNext]_allvars =>
        [\A p \in DOMAIN live \cap DOMAIN live' :
           \/ p \in DOMAIN gm'.head /\ gm'.head[p].size = gm.head[p].size
           \/ \E r \in Requests : Realloc(p, r) \/ ReallocInPlace(p, r)]_vars
  BY MapSizesStep
<1> QED  BY <1>1, MapInvariance, PTL DEF MmapSpec, UsableSizesKept

(* mmap() and munmap() obtain and release blocks as malloc() and free() do.*)
LEMMA MapAbstracts ==
  ASSUME MapInv, Sized(live), MapSizes \subseteq AskedSizes, [MmapNext]_allvars
  PROVE  Sized(live') /\ [Blocks!Next]_live
<1>1. HeapInv /\ State(gm, live, freeing) /\ Own \subseteq DOMAIN live
  BY DEF MapInv, HeapInv, Own
<1>2. CASE Calls(Own)
  BY <1>1, <1>2, OwnCalls, CallsAbstract DEF Abstracts
<1>3. CASE live' = live
  BY <1>3
<1>4. ASSUME Stepped({}), NEW q, NEW r \in MapSizes, live' = Put(live, q, r)
      PROVE  Sized(live') /\ Blocks!Next
  <2>1. Sized(live')
    BY <1>4 DEF Sized, Put
  <2> QED  BY <1>4, <2>1, GivesBlocks
<1>5. ASSUME NEW p \in mapped, live' = Without(live, {p})
      PROVE  Sized(live') /\ Blocks!Next
  <2>1. {p} \subseteq DOMAIN live
    BY DEF MapInv
  <2> QED  BY <1>5, <2>1, ReleaseStep
<1> QED  BY <1>2, <1>3, <1>4, <1>5, MapCallKind DEF MmapNext, allvars, Mapping

(* With mappings and the TLS block in the heap the allocator still         *)
(* implements AbsHeap: a mapping lies apart from every other block, and    *)
(* munmap() takes no block but the one it was given.  AbsHeap has the      *)
(* sizes the program asks malloc() for; mappings and the TLS block must be *)
(* of such sizes.                                                          *)
THEOREM ImplementsMapped ==
  ASSUME Lengths \cup {TlsSize} \subseteq Requests
  PROVE  MmapSpec => ImplementsAbsHeap
<1>1. MapSizes \subseteq AskedSizes
  BY DEF MapSizes, AskedSizes
<1>2. BootInit => Blocks!Init /\ Sized(live)
  BY DEF BootInit, Init, Blocks!Init, Sized
<1>3. MapInv /\ Sized(live) /\ [MmapNext]_allvars => Sized(live)' /\ [Blocks!Next]_live
  BY <1>1, MapAbstracts DEF Sized
<1> QED  BY <1>2, <1>3, MapInvariance, PTL DEF MmapSpec, ImplementsAbsHeap, Blocks!Spec

=============================================================================
