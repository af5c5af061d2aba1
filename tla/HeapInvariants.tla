--------------------------- MODULE HeapInvariants ---------------------------
(***************************************************************************)
(* What must be true of the allocator of module Dlmalloc between any two   *)
(* calls, and of every call.  Several of the invariants are those of       *)
(* dlmalloc.i's own debugging checks (do_check_top_chunk ... do_check_     *)
(* malloc_state), which are compiled out of nolibc.                        *)
(***************************************************************************)
EXTENDS Dlmalloc

Fake == gm.top + gm.topsize            (* the fake chunk after the top chunk *)
Chunks == DOMAIN gm.head \ {Fake}
FreeChunks == {p \in Chunks : ~Cinuse(gm, p)}
UsedChunks == {p \in Chunks : Cinuse(gm, p)}
NextOf(p) == p + ChunkSize(gm, p)

TypeOK ==
  /\ DOMAIN gm.head \subseteq HeapStart .. HeapEnd
  /\ \A p \in DOMAIN gm.head :
       gm.head[p] \in [size : 1 .. HeapSize, cinuse : BOOLEAN, pinuse : BOOLEAN]
  /\ DOMAIN gm.foot \subseteq HeapStart .. HeapEnd
  /\ \A p \in DOMAIN gm.foot : gm.foot[p] \in {Magic} \cup 1 .. HeapSize
  /\ DOMAIN gm.bins = MinChunk .. HeapSize
  /\ gm.dv \in {NULL} \cup HeapStart .. HeapEnd /\ gm.dvsize \in 0 .. HeapSize
  /\ gm.top \in {NULL} \cup HeapStart .. HeapEnd /\ gm.topsize \in 0 .. HeapSize
  /\ gm.trim_check \in {0, TrimThreshold, MaxSize}
  /\ {gm.contiguous, gm.ok} \subseteq BOOLEAN
  /\ gm.brk \in HeapStart .. HeapEnd
  /\ \A p \in DOMAIN live : p \in HeapStart .. HeapEnd /\ live[p] \in Nat
  /\ Len(freeing) <= MaxBatch
  /\ sp \in StackAddrs /\ asked \in Limits \cup {MaxSize}

(* No sequence of legal calls makes a live assert() fail, or one of the     *)
(* runtime checks that end the program with "Aborted": the footer of a      *)
(* chunk in use, its bits and its successor's, the links of a free chunk,   *)
(* the size of the old designated victim.                                   *)
NoAbort == gm.ok

(* The chunks tile the segment from its first to its last granule: each one *)
(* ends where the next begins, and the fake chunk's foot space ends where   *)
(* the segment does, at the break (do_check_top_chunk, traverse_and_check). *)
Tiled ==
  gm.top # NULL =>
    /\ {gm.segbase, gm.top, Fake} \subseteq DOMAIN gm.head
    /\ \A p \in Chunks :
         /\ gm.segbase <= p /\ NextOf(p) \in DOMAIN gm.head
         /\ \A q \in DOMAIN gm.head : q <= p \/ q >= NextOf(p)
         /\ p # gm.top => ChunkSize(gm, p) >= MinChunk
    /\ ChunkSize(gm, gm.top) = gm.topsize
    /\ Fake + TopFoot = SegmentEnd(gm)
    /\ SegmentEnd(gm) = gm.brk

(* A chunk's status is told by its own head, by its successor's PINUSE bit  *)
(* and by the word between them, and the three agree; so whatever free()    *)
(* and realloc() learn of their neighbours is true.                         *)
BoundaryTags ==
  \A p \in Chunks \ {gm.top} :
    /\ Pinuse(gm, NextOf(p)) = Cinuse(gm, p)
    /\ NextOf(p) \in DOMAIN gm.foot
    /\ gm.foot[NextOf(p)] = IF Cinuse(gm, p) THEN Magic ELSE ChunkSize(gm, p)

(* No two neighbours are both free, and the first chunk and the top chunk   *)
(* know that no free chunk precedes them: freeing always coalesces.         *)
Coalesced ==
  gm.top # NULL =>
    /\ Pinuse(gm, gm.segbase)
    /\ \A p \in FreeChunks : Pinuse(gm, p)

(* Every free chunk but the top can be found in exactly one place: it is    *)
(* the designated victim or in the bin of its size, once; and everything    *)
(* found there is a free chunk (do_check_free_chunk, bin_find).             *)
FreeListsExact ==
  LET binned == UNION {{s} \X DOMAIN gm.bins[s] : s \in DOMAIN gm.bins}
      chunk(e) == gm.bins[e[1]][e[2]]
  IN  /\ gm.dv = NULL <=> gm.dvsize = 0
      /\ gm.dv # NULL => gm.dv \in FreeChunks \ {gm.top} /\ ChunkSize(gm, gm.dv) = gm.dvsize
      /\ \A e \in binned : /\ chunk(e) \in FreeChunks \ {gm.top, gm.dv}
                           /\ ChunkSize(gm, chunk(e)) = e[1]
      /\ \A p \in FreeChunks \ {gm.top, gm.dv} :
           Cardinality({e \in binned : chunk(e) = p}) = 1

(* The chunks in use are exactly the program's blocks and those bulk_free   *)
(* has still to free, none lost and none kept back; each block is large     *)
(* enough for what was last asked for it, and at most MIN_CHUNK_SIZE larger.*)
BlocksExact ==
  /\ UsedChunks = DOMAIN live \cup {freeing[i] : i \in DOMAIN freeing}
  /\ \A p \in DOMAIN live :
       /\ ChunkSize(gm, p) - Overhead >= live[p]
       /\ ChunkSize(gm, p) <= Request2Size(live[p]) + MinChunk

(* malloc_footprint() is what the system has given, and never above the     *)
(* peak (malloc_max_footprint).                                             *)
FootprintExact ==
  /\ gm.footprint = gm.segsize
  /\ gm.footprint <= gm.max_footprint

(* malloc_memory_usage(), which every call keeps up to date, "is the same   *)
(* as the uordblks field in the mallinfo structure" (dlmalloc.i:982).       *)
UsageIsUordblks == gm.usage = Uordblks(gm)

-----------------------------------------------------------------------------

(* Every step of the allocator moves the break as one call of sbrk() would, *)
(* with an increment that sbrk() is safe for, or leaves it alone.           *)
BreakMovesBySbrk == [][Sys!Next]_(Sys!vars)

(* malloc() fails, or takes memory from the system, only when no free chunk *)
(* and not the top chunk can hold the request: the bins, the designated     *)
(* victim and the top were all searched.                                    *)
SystemIsLastResort ==
  [][live' = live \/ gm'.brk # gm.brk =>
       \A r \in Requests :
         LET nb == Request2Size(r)
         IN  Malloc(r) => /\ \A p \in FreeChunks \ {gm.top} : ChunkSize(gm, p) < nb
                          /\ gm.topsize <= nb]_vars

(* A call that gives no block leaves every chunk, list and count as it was; *)
(* only the permission to call sbrk() contiguously may be lost.             *)
FailureChangesNothing ==
  [][live' = live /\ (\E x \in DOMAIN gm \ {"contiguous"} : gm'[x] # gm[x]) =>
       \A r \in Requests :
         /\ ~Malloc(r)
         /\ \A a \in Alignments : ~Memalign(a, r)
         /\ \A p \in DOMAIN live : ~(Realloc(p, r) /\ DlRealloc(gm, p, r).mem = NULL)]_vars

(* A block keeps its header and its usable size through every call but a    *)
(* realloc of that very block.                                              *)
UsableSizesKept ==
  [][\A p \in DOMAIN live \cap DOMAIN live' :
       \/ p \in DOMAIN gm'.head /\ gm'.head[p].size = gm.head[p].size
       \/ \E r \in Requests : Realloc(p, r) \/ ReallocInPlace(p, r)]_vars

(* After malloc_set_footprint_limit(n) the footprint does not grow past n   *)
(* rounded up to whole pages.  Where that is 0, because n is, or because n  *)
(* is less than a page from the end of the address space and the rounding   *)
(* wraps, there is no limit.                                                *)
FootprintLimited ==
  [][LET limit == GranularityAlign(asked)
     IN  limit # 0 /\ gm'.footprint > gm.footprint => gm'.footprint <= limit]_vars

(* What malloc_trim(pad) leaves on top, when the stack lets the break move: *)
(* more than pad, and less than a page more than it must keep.              *)
TrimLeavesPad ==
  [][\A pad \in TrimPads :
       MallocTrim(pad) /\ gm.top # NULL /\ gm.brk < Sys!StackLimit =>
         /\ gm'.topsize <= pad + TopFoot + Granularity
         /\ gm'.topsize < gm.topsize => gm'.topsize > pad + TopFoot]_vars

(* The allocator implements the abstract one on the program's blocks.       *)
Blocks == INSTANCE AbsHeap WITH
  Arena <- HeapStart .. HeapEnd - 1,
  Sizes <- Requests \cup UNION {{b[i] : i \in DOMAIN b} \cup {(Len(b) + 1) \div 2} : b \in Batches}
ImplementsAbsHeap == Blocks!Spec

=============================================================================
