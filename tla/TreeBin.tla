------------------------------- MODULE TreeBin -------------------------------
(***************************************************************************)
(* The treebins of dlmalloc (src/nolibc/dlmalloc.i): one bitwise trie of   *)
(* large free chunks per bin.  A node's path in its trie is spelled by the *)
(* bits of its size; chunks of the size of a node form a ring with it and  *)
(* have no parent.                                                         *)
(*                                                                         *)
(* The fields of the record b, besides those of module SmallBin:           *)
(*   b.treebins[i]   the root of bin i; the bin itself is the node i       *)
(*   b.treemap       the indexes of the bins marked as not empty           *)
(*   b.child[p], b.parent[p], b.index[p]    the fields of tree chunks      *)
(***************************************************************************)
EXTENDS SmallBin

CONSTANTS
  TreeShift,    (* TREEBIN_SHIFT: SmallLimit is 2^TreeShift granules       *)
  NTreeBins,    (* NTREEBINS: 32                                           *)
  WordBits      (* bits of a size in granules                              *)

(* 1 << k                                                                  *)
Bit[k \in 0 .. WordBits + 1] == IF k = 0 THEN 1 ELSE 2 * Bit[k - 1]

ASSUME TreeBinAssumption ==
  /\ TreeShift \in Nat \ {0, 1} /\ NTreeBins \in Nat \ {0} /\ WordBits \in Nat
  /\ TreeShift + NTreeBins \div 2 <= WordBits /\ SmallLimit = Bit[TreeShift]

TreeIndexes == 0 .. NTreeBins - 1
AddrSpace == Bit[WordBits]
Word(n) == n % AddrSpace

(* compute_tree_index: two bins per power of two, the last one for the     *)
(* rest.                                                                   *)
Log2(x) == CHOOSE k \in 0 .. WordBits : Bit[k] <= x /\ x < Bit[k + 1]
HalfBin(s, k) == 2 * k + ((s \div Bit[k + TreeShift - 1]) % 2)

ComputeTreeIndex(s) ==
  LET x == s \div Bit[TreeShift]
  IN  IF x = 0 THEN 0
      ELSE IF x >= Bit[NTreeBins \div 2] THEN NTreeBins - 1
      ELSE HalfBin(s, Log2(x))

(* The bit of size s that leftshift_for_tree_index(i) and d further shifts *)
(* bring to the sign bit: the choice at depth d of the trie of bin i.      *)
PathBit(s, i, d) ==
  LET at == (IF i = NTreeBins - 1 THEN WordBits - 1 ELSE i \div 2 + TreeShift - 2) - d
  IN  IF at < 0 THEN 0 ELSE (s \div Bit[at]) % 2

(* The nodes met when looking for size s in bin i, one per depth, up to    *)
(* the node of that size or the missing child.                             *)
Way(b, i, s) ==
  LET way[d \in 0 .. WordBits] ==
        IF d = 0 THEN b.treebins[i]
        ELSE IF way[d-1] = Nil \/ b.size[way[d-1]] = s THEN way[d-1]
        ELSE b.child[way[d-1]][PathBit(s, i, d-1)]
  IN  way

WayEnd(b, way, s) ==
  CHOOSE d \in DOMAIN way :
    /\ way[d] = Nil \/ b.size[way[d]] = s
    /\ \A c \in 0 .. d-1 : way[c] # Nil /\ b.size[way[c]] # s

-----------------------------------------------------------------------------
(* insert_large_chunk                                                      *)

AddNode(b, x, p) == [b EXCEPT !.parent[x] = p, !.fd[x] = x, !.bk[x] = x]

AddToRing(b, x, t) ==
  [b EXCEPT !.fd[t] = x, !.bk[b.fd[t]] = x, !.fd[x] = b.fd[t], !.bk[x] = t]

(* A mutant: the bit of the new leaf is that of the next level.            *)
AskewInsertBelow(b, x, s, i, way, d) ==
  IF way[d] # Nil THEN AddToRing(b, x, way[d])
  ELSE [AddNode(b, x, way[d-1]) EXCEPT !.child[way[d-1]][PathBit(s, i, d)] = x]

InsertBelow(b, x, s, i, way, d) ==
  IF way[d] # Nil THEN AddToRing(b, x, way[d])
  ELSE [AddNode(b, x, way[d-1]) EXCEPT !.child[way[d-1]][PathBit(s, i, d-1)] = x]

InsertLargeChunk(b, x, s) ==
  LET i == ComputeTreeIndex(s)
      c == [b EXCEPT !.size[x] = s, !.index[x] = i, !.parent[x] = Nil,
                     !.child[x] = [k \in 0 .. 1 |-> Nil]]
  IN  IF i \notin b.treemap
      THEN AddNode([c EXCEPT !.treebins[i] = x, !.treemap = @ \cup {i}], x, i)
      ELSE LET way == Way(b, i, s) IN InsertBelow(c, x, s, i, way, WayEnd(b, way, s))

-----------------------------------------------------------------------------
(* unlink_large_chunk                                                      *)

(* The slot of parent p that holds x, and p's field with r there instead.  *)
SlotOf(b, p, x) == IF b.child[p][0] = x THEN 0 ELSE 1
SetSlot(b, p, x, r) == [b EXCEPT !.child[p][SlotOf(b, p, x)] = r]

(* The path from x to a leaf that goes right where it can.                 *)
RightmostChild(b, t) == IF b.child[t][1] # Nil THEN b.child[t][1] ELSE b.child[t][0]
Descent(b, x) ==
  LET down[d \in 0 .. WordBits] ==
        IF d = 0 THEN x
        ELSE IF RightmostChild(b, down[d-1]) = Nil THEN down[d-1]
        ELSE RightmostChild(b, down[d-1])
  IN  down

(* What takes the place of x, and the heap without it in its old place: the *)
(* next of its ring, a leaf below it, or nothing.                          *)
Replacement(b, x, leaf) == IF b.bk[x] # x THEN b.bk[x] ELSE IF leaf # x THEN leaf ELSE Nil

DetachReplacement(b, x, leaf) ==
  IF b.bk[x] # x
  THEN [Check(b, b.bk[b.fd[x]] = x /\ b.fd[b.bk[x]] = x) EXCEPT
          !.bk[b.fd[x]] = b.bk[x], !.fd[b.bk[x]] = b.fd[x]]
  ELSE IF leaf # x THEN SetSlot(b, b.parent[leaf], leaf, Nil) ELSE b

(* A mutant: the children of x keep pointing to it.                        *)
OrphaningAdopt(b, x, r) ==
  [b EXCEPT !.parent[r] = b.parent[x],
            !.child[r] = [k \in 0 .. 1 |-> IF b.child[x][k] # Nil THEN b.child[x][k] ELSE @[k]]]

(* r takes over the parent and the children of x.                          *)
Adopt(b, x, r) ==
  [b EXCEPT
     !.parent = [c \in DOMAIN @ |-> IF c = r THEN b.parent[x]
                                    ELSE IF c \in {b.child[x][0], b.child[x][1]} THEN r
                                    ELSE @[c]],
     !.child[r] = [k \in 0 .. 1 |-> IF b.child[x][k] # Nil THEN b.child[x][k] ELSE @[k]]]

PutInPlace(b, x, r) ==
  LET i == b.index[x]
      c == IF b.treebins[i] = x
           THEN [b EXCEPT !.treebins[i] = r,
                          !.treemap = IF r = Nil THEN @ \ {i} ELSE @]
           ELSE SetSlot(b, b.parent[x], x, r)
  IN  IF b.parent[x] = Nil THEN b ELSE IF r = Nil THEN c ELSE Adopt(c, x, r)

UnlinkLargeChunk(b, x) ==
  LET leaf == Descent(b, x)[WordBits]
  IN  PutInPlace(DetachReplacement(b, x, leaf), x, Replacement(b, x, leaf))

-----------------------------------------------------------------------------
(* tmalloc_large and tmalloc_small: which chunk to use for nb              *)

LeftmostChild(b, t) == IF b.child[t][0] # Nil THEN b.child[t][0] ELSE b.child[t][1]

(* The nodes met going down to the left from t.                            *)
LeftSpine(b, t) ==
  LET spine[d \in 0 .. WordBits] ==
        IF d = 0 THEN t
        ELSE IF spine[d-1] = Nil THEN Nil ELSE LeftmostChild(b, spine[d-1])
  IN  {spine[d] : d \in 0 .. WordBits} \ {Nil}

(* chunksize(t) - nb as a size_t: a chunk that is too small leaves more    *)
(* than -nb, with which the search starts.                                 *)
Rem(b, t, nb) == Word(b.size[t] - nb)
Fitting(b, T, nb) == {t \in T : Rem(b, t, nb) < Word(-nb)}
Smallest(b, T, nb) ==
  IF T = {} THEN Nil ELSE CHOOSE t \in T : \A u \in T : Rem(b, t, nb) <= Rem(b, u, nb)

(* The deepest right subtree that the way to nb did not take.              *)
Untaken(b, way, e) ==
  LET rights == {d \in 0 .. e-1 : b.child[way[d]][1] \notin {Nil, way[d+1]}}
  IN  IF rights = {} THEN Nil
      ELSE b.child[way[CHOOSE d \in rights : \A c \in rights : c <= d]][1]

(* The root of the next nonempty treebin above i.                          *)
NextRoot(b, i) ==
  LET left == {j \in b.treemap : j > i} IN IF left = {} THEN Nil ELSE b.treebins[LeastBit(left)]

(* A mutant: right subtrees not taken are forgotten.                       *)
StraightSearch(b, nb, i, way, e) ==
  LET met == Fitting(b, {way[d] : d \in 0 .. e} \ {Nil}, nb)
      t == IF met = {} THEN NextRoot(b, i) ELSE Nil
  IN  Smallest(b, met \cup Fitting(b, LeftSpine(b, t), nb), nb)

(* Where the search goes on after the way to nb, which ended at depth e.   *)
Search(b, nb, i, way, e) ==
  LET met == Fitting(b, {way[d] : d \in 0 .. e} \ {Nil}, nb)
      t == IF way[e] # Nil THEN way[e]
           ELSE IF Untaken(b, way, e) # Nil THEN Untaken(b, way, e)
           ELSE IF met = {} THEN NextRoot(b, i) ELSE Nil
  IN  Smallest(b, met \cup Fitting(b, LeftSpine(b, t), nb), nb)

TmallocLargeChoice(b, nb) ==
  LET i == ComputeTreeIndex(nb)
      way == Way(b, i, nb)
  IN  Search(b, nb, i, way, WayEnd(b, way, nb))

TmallocSmallChoice(b, nb) ==
  Smallest(b, LeftSpine(b, b.treebins[LeastBit(b.treemap)]), nb)

=============================================================================
