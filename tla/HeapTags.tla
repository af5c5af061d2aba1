------------------------------ MODULE HeapTags ------------------------------
(***************************************************************************)
(* The boundary tags of dlmalloc (src/nolibc/dlmalloc.i), with the macros  *)
(* that write them.  The bins are those of module FreeLists.               *)
(*                                                                         *)
(* Every address and size is counted in granules of MALLOC_ALIGNMENT = 16  *)
(* bytes, of which all chunk addresses and sizes are multiples: a chunk    *)
(* header (prev_foot and head) is one granule, fd and bk are the next.     *)
(*                                                                         *)
(* A heap is a record m holding the fields of struct malloc_state, the     *)
(* break, and the tags in memory:                                          *)
(*   m.head[p]   the head word of the chunk at p: its size and two bits    *)
(*   m.foot[p]   the prev_foot word at p: the size of the chunk before p   *)
(*               when that chunk is free, Magic when it is in use          *)
(* Words that a write leaves strictly inside a chunk are payload; they     *)
(* leave the domains of head and foot.                                     *)
(***************************************************************************)
EXTENDS FreeLists

CONSTANTS
  Overhead,     (* CHUNK_OVERHEAD: 1 granule, FOOTERS being 1              *)
  TopFoot,      (* TOP_FOOT_SIZE: 5 granules                               *)
  Granularity   (* mparams.granularity and page_size: 256 granules         *)

ASSUME TagsAssumption ==
  /\ Overhead \in Nat /\ TopFoot \in Nat /\ Granularity \in Nat
  /\ 0 < Overhead /\ Overhead < MinChunk /\ MinChunk < TopFoot
  /\ TopFoot < Granularity

Magic == -1          (* (size_t)gm ^ mparams.magic, which is no chunk size *)

-----------------------------------------------------------------------------
(* Words                                                                   *)

(* f with f[x] = v, whether or not x was in its domain.                    *)
Put(f, x, v) == [y \in DOMAIN f \cup {x} |-> IF y = x THEN v ELSE f[y]]

(* f without what lies strictly inside the chunk of size s at p.           *)
Outside(f, p, s) == [y \in {z \in DOMAIN f : z <= p \/ z >= p + s} |-> f[y]]

(* p->head = s | bits                                                      *)
PutHead(m, p, s, cinuse, pinuse) ==
  [m EXCEPT !.head = Put(Outside(@, p, s), p,
                         [size |-> s, cinuse |-> cinuse, pinuse |-> pinuse]),
            !.foot = Outside(@, p, s)]

(* (p + s)->prev_foot = v                                                  *)
PutFoot(m, n, v) == [m EXCEPT !.foot = Put(@, n, v)]

(* n->head |= PINUSE_BIT and n->head &= ~PINUSE_BIT.  The head of a chunk  *)
(* being split off may not have been written yet: only its bit is defined. *)
PutPinuse(m, n, bit) ==
  [m EXCEPT !.head = Put(@, n, IF n \in DOMAIN @ THEN [@[n] EXCEPT !.pinuse = bit]
                               ELSE [size |-> 0, cinuse |-> FALSE, pinuse |-> bit])]

ChunkSize(m, p) == m.head[p].size
Cinuse(m, p) == m.head[p].cinuse
Pinuse(m, p) == m.head[p].pinuse

(* (head & INUSE_BITS) != PINUSE_BIT                                       *)
IsInuse(m, p) == Cinuse(m, p) \/ ~Pinuse(m, p)

SetInuse(m, p, s) ==
  PutFoot(PutPinuse(PutHead(m, p, s, TRUE, p \in DOMAIN m.head /\ Pinuse(m, p)),
                    p + s, TRUE), p + s, Magic)

(* Mutants of the macros below: no footer, next's bit not cleared.           *)
FootlessSetInuseAndPinuse(m, p, s) == PutPinuse(PutHead(m, p, s, TRUE, TRUE), p + s, TRUE)

SetInuseAndPinuse(m, p, s) ==
  PutFoot(PutPinuse(PutHead(m, p, s, TRUE, TRUE), p + s, TRUE), p + s, Magic)

SetSizeAndPinuseOfInuseChunk(m, p, s) ==
  PutFoot(PutHead(m, p, s, TRUE, TRUE), p + s, Magic)

SetSizeAndPinuseOfFreeChunk(m, p, s) ==
  PutFoot(PutHead(m, p, s, FALSE, TRUE), p + s, s)

ForgetfulSetFree(m, p, s, n) == SetSizeAndPinuseOfFreeChunk(m, p, s)

SetFreeWithPinuse(m, p, s, n) ==
  SetSizeAndPinuseOfFreeChunk(PutPinuse(m, n, FALSE), p, s)

-----------------------------------------------------------------------------
(* pad_request and request2size, of a request of r granules                *)
Request2Size(r) == IF r + Overhead < MinChunk THEN MinChunk ELSE r + Overhead

=============================================================================
