------------------------------ MODULE SmallBin ------------------------------
(***************************************************************************)
(* The smallbins of dlmalloc (src/nolibc/dlmalloc.i): circular lists of    *)
(* free chunks of one size, each with a header in struct malloc_state, and *)
(* the bitmap of the bins that are not empty.                              *)
(*                                                                         *)
(* b is a record with these fields, and those of module TreeBin:           *)
(*   b.fd, b.bk     the links of the chunks and of the headers; the header *)
(*                  of smallbin i is the node i                            *)
(*   b.size[p]      the size in the head of chunk p, 0 when p is not free  *)
(*   b.smallmap     the indexes of the bins marked as not empty            *)
(*   b.ok           FALSE once an assert or an RTCHECK has failed          *)
(* The links of an empty bin's header are stale, as in the code.           *)
(***************************************************************************)
EXTENDS Integers

CONSTANTS
  Chunks,       (* chunk addresses                                         *)
  Nil,          (* the null pointer                                        *)
  MinChunk,     (* MIN_CHUNK_SIZE: 2 granules                              *)
  SmallLimit    (* MIN_LARGE_SIZE: 16 granules                             *)

ASSUME SmallBinAssumption ==
  /\ MinChunk \in Nat /\ SmallLimit \in Nat
  /\ Nil \notin Chunks

(* Smallbins are spaced by 8 bytes, half a granule: NSMALLBINS of them.    *)
SmallIndex(s) == 2 * s
SmallIndex2Size(i) == i \div 2
SmallIndexes == 0 .. 2 * SmallLimit - 1
IsSmall(s) == SmallIndex(s) \in SmallIndexes

Check(b, cond) == IF cond THEN b ELSE [b EXCEPT !.ok = FALSE]

(* A mutant: the header of an empty bin is taken to be linked to itself.   *)
TrustingInsertSmallChunk(b, p, s) ==
  LET i == SmallIndex(s)
      f == b.fd[i]
  IN  [b EXCEPT !.size[p] = s, !.smallmap = @ \cup {i},
                !.fd[i] = p, !.bk[f] = p, !.fd[p] = f, !.bk[p] = i]

(* insert_small_chunk: behind the header.  Only a marked bin has a first   *)
(* chunk to link.                                                          *)
InsertSmallChunk(b, p, s) ==
  LET i == SmallIndex(s)
      f == IF i \in b.smallmap THEN b.fd[i] ELSE i
  IN  [Check(b, s >= MinChunk) EXCEPT
         !.size[p] = s, !.smallmap = @ \cup {i},
         !.fd[i] = p, !.bk[f] = p, !.fd[p] = f, !.bk[p] = i]

(* unlink_small_chunk                                                      *)
UnlinkSmallChunk(b, p, s) ==
  LET f == b.fd[p]
      k == b.bk[p]
      i == SmallIndex(s)
  IN  IF p \in {f, k} \/ b.size[p] # SmallIndex2Size(i) \/ (f # i /\ b.bk[f] # p)
      THEN Check(b, FALSE)
      ELSE IF f = k THEN [b EXCEPT !.smallmap = @ \ {i}]
      ELSE [Check(b, k = i \/ b.fd[k] = p) EXCEPT !.bk[f] = k, !.fd[k] = f]

(* unlink_first_small_chunk                                                *)
UnlinkFirstSmallChunk(b, p, i) ==
  LET f == b.fd[p]
  IN  IF p \in {i, f} \/ b.size[p] # SmallIndex2Size(i) THEN Check(b, FALSE)
      ELSE IF f = i THEN [b EXCEPT !.smallmap = @ \ {i}]
      ELSE [Check(b, b.bk[f] = p) EXCEPT !.bk[f] = i, !.fd[i] = f]

-----------------------------------------------------------------------------
(* The least bit of a bit map                                              *)
LeastBit(map) == CHOOSE i \in map : \A j \in map : i <= j

(* The smallbin for an exact fit of nb, and the next nonempty one above.   *)
(* The bin above the exact one is half a granule larger: it is empty.      *)
ExactBins(b, nb) == b.smallmap \cap {SmallIndex(nb), SmallIndex(nb) + 1}
NextSmallBins(b, nb) == {i \in b.smallmap : i > SmallIndex(nb)}

=============================================================================
