------------------------------- MODULE AbsHeap ------------------------------
(***************************************************************************)
(* What an allocator promises the program, without chunks, lists or a      *)
(* break: blocks that lie in the arena and never overlap, that no call     *)
(* moves, changes or takes back but the one made on them.                  *)
(* Module HeapInvariants states that Dlmalloc implements it.               *)
(***************************************************************************)
EXTENDS Integers

CONSTANTS
  Arena,     (* the granules there are                                      *)
  Sizes      (* the sizes, in granules, a block may be asked to have        *)

VARIABLE
  live       (* live[p]: the size of the block whose header is granule p    *)

(* A block owns the granule of its header and those of its payload.         *)
Extent(p, r) == p .. p + r

(* Blocks are inside the arena and no granule belongs to two of them.       *)
Separate(blocks) ==
  /\ \A p \in DOMAIN blocks : Extent(p, blocks[p]) \subseteq Arena
  /\ \A p, q \in DOMAIN blocks :
       p # q => Extent(p, blocks[p]) \cap Extent(q, blocks[q]) = {}

Init == live = [p \in {} |-> 0]

(* malloc, memalign, independent_comalloc: new blocks beside the old ones   *)
Obtain ==
  /\ DOMAIN live \subseteq DOMAIN live'
  /\ \A p \in DOMAIN live : live'[p] = live[p]
  /\ live' \in [DOMAIN live' -> Sizes]
  /\ Separate(live')

(* free, bulk_free: some blocks are given back                              *)
Release ==
  \E gone \in SUBSET DOMAIN live : live' = [p \in DOMAIN live \ gone |-> live[p]]

(* realloc, realloc_in_place: one block has a new size and maybe a new place*)
Resize(p) ==
  \E q \in (Arena \ DOMAIN live) \cup {p}, r \in Sizes :
    /\ live' = [x \in (DOMAIN live \ {p}) \cup {q} |-> IF x = q THEN r ELSE live[x]]
    /\ Separate(live')

Next == Obtain \/ Release \/ \E p \in DOMAIN live : Resize(p)

Spec == Init /\ [][Next]_live

=============================================================================
