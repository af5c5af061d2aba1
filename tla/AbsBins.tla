------------------------------ MODULE AbsBins ------------------------------
(***************************************************************************)
(* What the bins of dlmalloc promise to the rest of the allocator: the     *)
(* lists of module FreeLists, on which module Dlmalloc is built.           *)
(***************************************************************************)
EXTENDS FreeLists

CONSTANTS
  Chunks,       (* chunk addresses                                         *)
  Sizes,        (* sizes of the chunks that are freed                      *)
  Requests,     (* sizes that are asked for                                *)
  DvSizes,      (* sizes the designated victim may have, 0 for none        *)
  ChunkSizes    (* bound: the sizes that chunks can then have in the bins  *)

VARIABLE bins   (* bins[s]: the free chunks of size s                      *)

In(p, list) == \E i \in DOMAIN list : list[i] = p
IsBinned(p) == \E s \in DOMAIN bins : In(p, bins[s])

(* The fields of struct malloc_state, with chunk x of size d as its dv.    *)
State(d, x) == [bins |-> bins, dv |-> x, dvsize |-> d, ok |-> TRUE]

Insert(p, s) == ~IsBinned(p) /\ bins' = InsertChunk(State(0, NULL), p, s).bins

Unlink(p) == \E s \in DOMAIN bins :
  In(p, bins[s]) /\ bins' = UnlinkChunk(State(0, NULL), p, s).bins

(* malloc() takes the best chunk for nb granules; x is binned then, if any *)
(* chunk is: the old designated victim of size d, or the rest of the chunk *)
(* taken.                                                                  *)
Split(m, nb, s, x) == IF s - nb < MinChunk THEN m ELSE KeepRest(m, nb, x, s - nb)

Malloc(nb, d, x) ==
  LET m == State(d, x)
      s == BinnedFit(m, nb)
  IN  /\ ~IsBinned(x) /\ s # 0
      /\ bins' = Split(UnlinkChunk(m, Head(bins[s]), s), nb, s, x).bins

Init == bins = [s \in ChunkSizes |-> <<>>]

Next ==
  \/ \E p \in Chunks, s \in Sizes : Insert(p, s)
  \/ \E p \in Chunks : Unlink(p)
  \/ \E nb \in Requests, d \in DvSizes, x \in Chunks : Malloc(nb, d, x)

Spec == Init /\ [][Next]_bins
=============================================================================
