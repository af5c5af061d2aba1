-------------------------------- MODULE Bins --------------------------------
(***************************************************************************)
(* The bins of dlmalloc (src/nolibc/dlmalloc.i) at work: the smallbins and *)
(* treebins of modules SmallBin and TreeBin under the calls that the rest  *)
(* of the allocator makes on them.  They implement the lists of module     *)
(* AbsBins.  The designated victim belongs to the caller: its size and its *)
(* chunk are inputs of the steps that compare with it or bin it.           *)
(***************************************************************************)
EXTENDS TreeBin, Sequences, FiniteSets

CONSTANTS
  Sizes,        (* sizes of the chunks that are freed                      *)
  Requests,     (* sizes that are asked for                                *)
  DvSizes,      (* sizes the designated victim may have, 0 for none        *)
  ChunkSizes    (* bound: the sizes that chunks can then have in the bins  *)

(* The nodes of the bins are not chunks, and a size fits in a word.  What   *)
(* is left of a chunk after a large request is a size too.                 *)
ASSUME BinsAssumption ==
  /\ IsFiniteSet(Chunks) /\ Chunks \cap Int = {} /\ Nil \notin Int
  /\ 0 < MinChunk /\ MinChunk < SmallLimit
  /\ ChunkSizes \subseteq MinChunk .. AddrSpace - 1 /\ Requests \subseteq MinChunk .. AddrSpace - 1
  /\ Sizes \subseteq ChunkSizes /\ DvSizes \ {0} \subseteq ChunkSizes
  /\ \A s \in ChunkSizes, nb \in Requests :
       ~IsSmall(nb) /\ s - nb >= MinChunk => s - nb \in ChunkSizes

VARIABLE b      (* the bins and the chunks in them                         *)

NoLinks == [n \in Chunks |-> Nil]
NoChildren == [k \in 0 .. 1 |-> Nil]

(* A chunk that leaves the bins is payload: nothing reads its links again. *)
Forget(c, p) ==
  [c EXCEPT !.fd[p] = Nil, !.bk[p] = Nil, !.size[p] = 0, !.child[p] = NoChildren,
            !.parent[p] = Nil, !.index[p] = 0]

Binned(c) == {p \in Chunks : c.size[p] # 0}

(* insert_chunk and unlink_chunk                                           *)
InsertChunk(c, p, s) ==
  IF IsSmall(s) THEN InsertSmallChunk(c, p, s) ELSE InsertLargeChunk(c, p, s)

UnlinkChunk(c, p) ==
  Forget(IF IsSmall(c.size[p]) THEN UnlinkSmallChunk(c, p, c.size[p])
         ELSE UnlinkLargeChunk(c, p), p)

(* A mutant: a victim of size 0, which is none, is binned too.             *)
EagerReplaceDv(c, x, d) == InsertSmallChunk(Check(c, IsSmall(d)), x, d)

(* replace_dv, x being the old designated victim, of size d                *)
ReplaceDv(c, x, d) == IF d = 0 THEN c ELSE InsertSmallChunk(Check(c, IsSmall(d)), x, d)

TakeFirst(c, i) == Forget(UnlinkFirstSmallChunk(c, c.fd[i], i), c.fd[i])
TakeNode(c, v) == Forget(UnlinkLargeChunk(c, v), v)

-----------------------------------------------------------------------------
(* init_bins: the headers of the smallbins are linked to themselves.       *)
Init ==
  b = [fd |-> [n \in SmallIndexes \cup Chunks |-> IF n \in Chunks THEN Nil ELSE n],
       bk |-> [n \in SmallIndexes \cup Chunks |-> IF n \in Chunks THEN Nil ELSE n],
       size |-> [p \in Chunks |-> 0],
       smallmap |-> {}, treemap |-> {},
       treebins |-> [i \in TreeIndexes |-> Nil],
       child |-> [p \in Chunks |-> NoChildren],
       parent |-> NoLinks, index |-> [p \in Chunks |-> 0], ok |-> TRUE]

(* free() and its relatives file a chunk, or merge one that is filed.      *)
Insert(p, s) ==
  b.ok /\ p \notin Binned(b) /\ b' = InsertChunk(b, p, s)

Unlink(p) ==
  b.ok /\ p \in Binned(b) /\ b' = UnlinkChunk(b, p)

(* malloc() of a small size: an exact fit,                                 *)
MallocExact(nb) ==
  /\ b.ok /\ IsSmall(nb) /\ ExactBins(b, nb) # {}
  /\ b' = TakeFirst(b, LeastBit(ExactBins(b, nb)))

(* or when the designated victim is too small the first chunk of the next  *)
(* smallbin, whose rest replaces the victim,                               *)
MallocNextSmall(nb, d, x) ==
  LET i == LeastBit(NextSmallBins(b, nb))
  IN  /\ b.ok /\ IsSmall(nb) /\ ExactBins(b, nb) = {} /\ nb > d
      /\ x \notin Binned(b) /\ NextSmallBins(b, nb) # {}
      /\ b' = IF SmallIndex2Size(i) - nb < MinChunk THEN TakeFirst(b, i)
              ELSE ReplaceDv(TakeFirst(b, i), x, d)

(* or the smallest chunk of the trees (tmalloc_small).                     *)
MallocTreeSmall(nb, d, x) ==
  LET v == TmallocSmallChoice(b, nb)
  IN  /\ b.ok /\ IsSmall(nb) /\ nb > d
      /\ ExactBins(b, nb) = {} /\ NextSmallBins(b, nb) = {}
      /\ x \notin Binned(b) /\ b.treemap # {}
      /\ b' = IF b.size[v] - nb < MinChunk THEN TakeNode(b, v)
              ELSE ReplaceDv(TakeNode(b, v), x, d)

(* malloc() of a large size: the best fit in the trees, unless the         *)
(* designated victim fits better; the rest is binned (tmalloc_large).      *)
MallocLarge(nb, d, x) ==
  LET v == TmallocLargeChoice(b, nb)
      rsize == Rem(b, v, nb)
  IN  /\ b.ok /\ ~IsSmall(nb) /\ b.treemap # {}
      /\ v # Nil /\ rsize < Word(d - nb) /\ x \notin Binned(b)
      /\ b' = IF rsize < MinChunk THEN TakeNode(b, v)
              ELSE InsertChunk(TakeNode(b, v), x, rsize)

Next ==
  \/ \E p \in Chunks, s \in Sizes : Insert(p, s)
  \/ \E p \in Chunks : Unlink(p)
  \/ \E nb \in Requests : MallocExact(nb)
  \/ \E nb \in Requests, d \in DvSizes, x \in Chunks :
       \/ MallocNextSmall(nb, d, x)
       \/ MallocTreeSmall(nb, d, x)
       \/ MallocLarge(nb, d, x)

Spec == Init /\ [][Next]_b

-----------------------------------------------------------------------------
(* Properties                                                              *)

Nodes == SmallIndexes \cup TreeIndexes \cup Chunks \cup {Nil}

(* The links are links, and the bitmaps hold indexes of bins.              *)
TypeOK ==
  /\ b.fd \in [SmallIndexes \cup Chunks -> Nodes]
  /\ b.bk \in [SmallIndexes \cup Chunks -> Nodes]
  /\ b.size \in [Chunks -> {0} \cup ChunkSizes]
  /\ b.smallmap \subseteq {SmallIndex(s) : s \in MinChunk .. SmallLimit - 1}
  /\ b.treemap \subseteq TreeIndexes
  /\ b.treebins \in [TreeIndexes -> Chunks \cup {Nil}]
  /\ b.child \in [Chunks -> [0 .. 1 -> Chunks \cup {Nil}]]
  /\ b.parent \in [Chunks -> Nodes] /\ b.index \in [Chunks -> TreeIndexes]
  /\ b.ok \in BOOLEAN

(* No assert and no runtime check of the bins' links ever fails, so        *)
(* CORRUPTION_ERROR_ACTION (src/nolibc/dlmalloc.i:3590-3809) is never run. *)
NoCorruption == b.ok

(* The chunks reached from node n in at most d steps of the given links.   *)
Along(link, n) ==
  LET to[d \in 0 .. Cardinality(Chunks)] == IF d = 0 THEN n ELSE link[to[d-1]]
  IN  to

(* The children of the nodes in U, and the nodes of the trie below t.      *)
Children(c, U) == {c.child[u][k] : u \in U, k \in 0 .. 1} \ {Nil}

Below(c, t) ==
  LET level[d \in 0 .. WordBits] == IF d = 0 THEN {t} ELSE Children(c, level[d-1])
  IN  UNION {level[d] : d \in 0 .. WordBits}

LargeNodes == {p \in Binned(b) : ~IsSmall(b.size[p]) /\ b.parent[p] # Nil}

(* The asserts of do_check_tree, which nolibc compiles out: a node's index *)
(* and parent are right, at most one node has a given size, and every size *)
(* below the left child is smaller than every size below the right one,    *)
(* what the search for the best fit relies on.                             *)
TriesOrdered ==
  \A t \in LargeNodes :
    /\ b.index[t] = ComputeTreeIndex(b.size[t])
    /\ \/ b.parent[t] = b.index[t] /\ b.treebins[b.index[t]] = t
       \/ b.parent[t] \in LargeNodes /\ t \in {b.child[b.parent[t]][k] : k \in 0 .. 1}
    /\ \A u \in LargeNodes \ {t} : b.size[u] # b.size[t]
    /\ Nil \notin {b.child[t][0], b.child[t][1]} =>
         \A u \in Below(b, b.child[t][0]), v \in Below(b, b.child[t][1]) :
           b.size[u] < b.size[v]

(* bin_find(p) of the code, which only its compiled-out checks call.       *)
BinFind(p) ==
  LET s == b.size[p]
      i == IF IsSmall(s) THEN SmallIndex(s) ELSE ComputeTreeIndex(s)
      way == Way(b, i, s)
      from == IF IsSmall(s) THEN i ELSE way[WayEnd(b, way, s)]
      ring == Along(b.fd, from)
  IN  /\ i \in IF IsSmall(s) THEN b.smallmap ELSE b.treemap
      /\ from # Nil
      /\ \E d \in DOMAIN ring : ring[d] = p

(* Every chunk that is filed can be found from the header of its bin, and  *)
(* a bin is marked exactly when something is filed in it: do_check_treebin *)
(* and do_check_smallbin, and bin_find as do_check_malloc_state uses it.   *)
EveryChunkFound ==
  /\ \A p \in Binned(b) : BinFind(p)
  /\ b.smallmap = {SmallIndex(b.size[p]) : p \in {q \in Binned(b) : IsSmall(b.size[q])}}
  /\ b.treemap = {ComputeTreeIndex(b.size[p]) : p \in {q \in Binned(b) : ~IsSmall(b.size[q])}}
  /\ b.treemap = {i \in TreeIndexes : b.treebins[i] # Nil}

(* The lists that the links spell: a smallbin from its header along fd, a  *)
(* ring from its node along bk.                                            *)
Turns(link, n, stop) ==
  LET to == Along(link, n)
  IN  [d \in 1 .. (CHOOSE e \in DOMAIN to : link[to[e]] = stop
                     /\ \A c \in 0 .. e-1 : link[to[c]] # stop) + 1 |-> to[d-1]]

ListOf(s) ==
  IF s \notin {b.size[p] : p \in Chunks} THEN <<>>
  ELSE IF IsSmall(s) THEN Turns(b.fd, b.fd[SmallIndex(s)], SmallIndex(s))
  ELSE LET t == CHOOSE p \in LargeNodes : b.size[p] = s IN Turns(b.bk, t, t)

Lists == INSTANCE AbsBins WITH bins <- [s \in ChunkSizes |-> ListOf(s)]

(* The linked bins implement the lists: insertion, removal from the middle *)
(* and malloc's search, which always finds the oldest chunk of the least   *)
(* size that fits (src/nolibc/dlmalloc.i:4458-4564, 4608-4667).            *)
ImplementsLists == Lists!Spec
=============================================================================
