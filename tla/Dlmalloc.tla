------------------------------ MODULE Dlmalloc ------------------------------
(***************************************************************************)
(* The allocator of src/nolibc: dlmalloc.i as sysdeps_solo5.c configures   *)
(* it (no mmap, no locks, contiguous sbrk, footers and runtime checks on), *)
(* on top of sbrk() (module Sbrk) and the tags of module HeapTags.         *)
(*                                                                         *)
(* A C function on the heap is an operator from a heap record to a heap    *)
(* record, or to a Result: the heap and the chunk it returns.  One action  *)
(* is one call of the public interface by the program, which runs to its   *)
(* end: nothing preempts a unikernel inside malloc().  A block is named by *)
(* its chunk, p = mem2chunk(mem).                                          *)
(***************************************************************************)
EXTENDS HeapTags, FiniteSets, FiniteSetsExt

CONSTANTS
  HeapStart, HeapSize, GuardLimit, StackAddrs,      (* as in module Sbrk    *)
  TrimThreshold,   (* mparams.trim_threshold                                *)
  Requests,        (* sizes, in granules, that the program asks for         *)
  Alignments,      (* alignments, in granules, powers of two                *)
  TrimPads,        (* arguments of malloc_trim                              *)
  Limits,          (* arguments of malloc_set_footprint_limit               *)
  Batches,         (* size arrays of independent_comalloc                   *)
  MaxBatch,        (* bound: longest array given to bulk_free               *)
  MaxBlocks,       (* bound: blocks the program holds                       *)
  MaxDrift         (* bound: no bulk_free once the usage is off by more     *)

VARIABLES
  gm,      (* struct malloc_state, the tags in memory and the break         *)
  live,    (* live[p]: the size the program last asked for the block at p   *)
  sp,      (* the depth of the stack, as in module Sbrk                     *)
  freeing, (* what bulk_free has left to free of its array, else <<>>       *)
  asked    (* the last argument of malloc_set_footprint_limit               *)

vars == <<gm, live, sp, freeing, asked>>

MaxSize == AddrSpace - 1                        (* MAX_SIZE_T               *)
HalfMax == AddrSpace \div 2                     (* HALF_MAX_SIZE_T          *)
MaxRequest == AddrSpace - 4 * MinChunk          (* MAX_REQUEST              *)
SysPadding == TopFoot + 1                       (* SYS_ALLOC_PADDING        *)
HeapEnd == HeapStart + HeapSize

ASSUME HeapAssumption ==
  /\ HeapStart \in Nat \ {NULL} /\ HeapSize \in Nat /\ AddrSpace \in Nat
  /\ HeapEnd < AddrSpace /\ HeapSize < HalfMax
  /\ AddrSpace % Granularity = 0 /\ Granularity < HalfMax      (* powers of 2 *)
  /\ 4 * MinChunk <= HalfMax
  /\ StackAddrs \subseteq Nat /\ GuardLimit \in Nat

ASSUME ProgramAssumption ==
  /\ Requests \subseteq Nat /\ Alignments \subseteq Nat
  /\ TrimPads \subseteq Nat /\ Limits \subseteq Nat /\ MaxBatch \in Nat
  /\ \A sizes \in Batches : sizes \in Seq(Nat) /\ sizes # <<>>

Sys == INSTANCE Sbrk WITH
  Layouts <- {<<HeapStart, HeapSize>>}, Increments <- 1 - HalfMax .. HalfMax - 1,
  sbrk_start <- HeapStart, sbrk_end <- HeapEnd, sbrk_cur <- gm.brk, inited <- TRUE,
  sbrk_guard_size <- IF HeapSize >= GuardLimit THEN GuardLimit ELSE HeapSize \div 2

Result(m, p) == [heap |-> m, mem |-> p]

(* granularity_align, which may wrap                                        *)
GranularityAlign(n) == (Word(n + Granularity - 1) \div Granularity) * Granularity

SegmentEnd(m) == m.segbase + m.segsize
(* A mutant: the limit compared with what there is, not with what there     *)
(* will be.                                                                 *)
LateUnderLimit(m, fp) == m.footprint_limit = 0 \/ m.footprint <= m.footprint_limit
UnderLimit(m, fp) == m.footprint_limit = 0 \/ (fp > m.footprint /\ fp <= m.footprint_limit)
ShouldTrim(m, s) == s > m.trim_check

-----------------------------------------------------------------------------
(* System allocation                                                       *)

(* init_top: the top chunk is [p, p+s), followed by the fake trailing chunk *)
(* that stands for the foot of the segment.  Nothing lies beyond it.        *)
CapSegment(m, n) ==
  [m EXCEPT !.head = Put([x \in {y \in DOMAIN @ : y < n} |-> @[x]], n,
                         [size |-> TopFoot, cinuse |-> FALSE, pinuse |-> FALSE]),
            !.foot = [x \in {y \in DOMAIN @ : y < n} |-> @[x]]]

InitTop(m, p, s) ==
  CapSegment(PutHead([m EXCEPT !.top = p, !.topsize = s, !.trim_check = TrimThreshold],
                     p, s, FALSE, TRUE), p + s)

(* Split nb granules off the top chunk.                                     *)
FromTop(m, nb) ==
  LET rest == PutHead([m EXCEPT !.top = @ + nb, !.topsize = @ - nb],
                      m.top + nb, m.topsize - nb, FALSE, TRUE)
  IN  Result(SetSizeAndPinuseOfInuseChunk(rest, m.top, nb), m.top)

(* A mutant: sbrk() without its comparisons.                                *)
UncheckedMorecore(m, increment) ==
  [heap |-> [m EXCEPT !.brk = @ + increment], base |-> m.brk, size |-> increment]

(* What a call of MORECORE obtains: base is MFAIL when it obtains nothing.  *)
CallMorecore(m, increment) ==
  [heap |-> [m EXCEPT !.brk = Sys!BreakAfter(@, increment)],
   base |-> Sys!SbrkReturns(m.brk, increment), size |-> increment]

Refused(m) == [heap |-> m, base |-> Sys!MFAIL, size |-> 0]

(* The contiguous call: the first one aligns the break to a page and checks *)
(* the footprint limit again, the others ask for what the top chunk lacks.  *)
FirstMorecore(m, nb, ssize) ==
  IF ssize > nb /\ ssize < HalfMax /\ UnderLimit(m, m.footprint + ssize)
  THEN CallMorecore(m, ssize) ELSE Refused(m)

ExtendMorecore(m, ssize) == IF ssize < HalfMax THEN CallMorecore(m, ssize) ELSE Refused(m)

ContiguousMorecore(m, nb, asize) ==
  IF m.top # NULL
  THEN ExtendMorecore(m, GranularityAlign(nb - m.topsize + SysPadding))
  ELSE IF Sys!SbrkReturns(m.brk, 0) = Sys!MFAIL THEN Refused(m)
  ELSE FirstMorecore(m, nb, asize + GranularityAlign(m.brk) - m.brk)

(* The noncontiguous call, the last resort, asks for the whole size again.  *)
NoncontiguousMorecore(m, nb, asize) ==
  IF asize < HalfMax /\ asize > nb + TopFoot THEN CallMorecore(m, asize) ELSE Refused(m)

(* A contiguous call that obtained nothing is the last one ever tried.      *)
OrNoncontiguous(got, nb, asize) ==
  IF got.base # Sys!MFAIL THEN got
  ELSE NoncontiguousMorecore([got.heap EXCEPT !.contiguous = FALSE], nb, asize)

Morecore(m, nb, asize) ==
  IF m.contiguous THEN OrNoncontiguous(ContiguousMorecore(m, nb, asize), nb, asize)
  ELSE NoncontiguousMorecore(m, nb, asize)

(* Account for new system memory and make it the top chunk or part of it.   *)
(* It continues the segment: no one but the allocator moves the break.      *)
CountFootprint(m, size) ==
  [m EXCEPT !.footprint = @ + size,
            !.max_footprint = IF m.footprint + size > @ THEN m.footprint + size ELSE @]

(* A mutant: the old top chunk is forgotten when the segment grows.         *)
ForgetfulGrow(m, base, size) ==
  IF m.top = NULL
  THEN InitTop([m EXCEPT !.segbase = base, !.segsize = size], base, size - TopFoot)
  ELSE InitTop([Check(m, base = SegmentEnd(m)) EXCEPT !.segsize = @ + size], m.top, size)

Grow(m, base, size) ==
  IF m.top = NULL
  THEN InitTop([m EXCEPT !.segbase = base, !.segsize = size], base, size - TopFoot)
  ELSE InitTop([Check(m, base = SegmentEnd(m)) EXCEPT !.segsize = @ + size],
               m.top, m.topsize + size)

AllocFromTop(m, nb) == IF nb < m.topsize THEN FromTop(m, nb) ELSE Result(m, NULL)

AllocFrom(got, nb) ==
  IF got.base = Sys!MFAIL THEN Result(got.heap, NULL)
  ELSE AllocFromTop(Grow(CountFootprint(got.heap, got.size), got.base, got.size), nb)

SysAlloc(m, nb) ==
  LET asize == GranularityAlign(Word(nb + SysPadding))
  IN  IF asize <= nb \/ ~UnderLimit(m, Word(m.footprint + asize)) THEN Result(m, NULL)
      ELSE AllocFrom(Morecore(m, nb, asize), nb)

(* A mutant: what is given back still counts as obtained.                   *)
UncountedTrimTo(m, brk) ==
  IF brk # m.brk
  THEN InitTop([m EXCEPT !.brk = brk, !.segsize = @ - (m.brk - brk)],
               m.top, m.topsize - (m.brk - brk))
  ELSE [m EXCEPT !.trim_check = IF m.topsize > @ THEN MaxSize ELSE @]

(* sys_trim: give back to the system the whole units of the top chunk that  *)
(* lie above pad; when nothing could be given back, turn autotrim off.      *)
TrimTo(m, brk) ==
  LET released == m.brk - brk
  IN  IF released # 0
      THEN InitTop([m EXCEPT !.brk = brk, !.segsize = @ - released,
                             !.footprint = @ - released], m.top, m.topsize - released)
      ELSE [m EXCEPT !.trim_check = IF m.topsize > @ THEN MaxSize ELSE @]

TrimKeeping(m, keep) ==
  LET extra == ((m.topsize - keep + Granularity - 1) \div Granularity - 1) * Granularity
  IN  TrimTo(m, IF m.topsize > keep /\ Sys!SbrkReturns(m.brk, 0) = SegmentEnd(m)
                THEN Sys!BreakAfter(m.brk, -extra) ELSE m.brk)

(* A mutant: no room kept for the foot of the segment.                      *)
FootlessSysTrim(m, pad) ==
  IF pad >= MaxRequest \/ m.top = NULL THEN m ELSE TrimKeeping(m, pad)

SysTrim(m, pad) ==
  IF pad >= MaxRequest \/ m.top = NULL THEN m ELSE TrimKeeping(m, pad + TopFoot)

-----------------------------------------------------------------------------
(* malloc                                                                  *)

(* Cut nb granules off the chunk of size s at p, just unlinked.             *)
CutBinned(m, p, s, nb) ==
  IF s - nb < MinChunk THEN SetInuseAndPinuse(m, p, s)
  ELSE KeepRest(SetSizeAndPinuseOfFreeChunk(SetSizeAndPinuseOfInuseChunk(m, p, nb),
                                            p + nb, s - nb), nb, p + nb, s - nb)

(* Use the next chunk of size s for nb granules.                            *)
FromBin(m, s, nb) ==
  LET p == Head(m.bins[s]) IN Result(CutBinned(UnlinkChunk(m, p, s), p, s, nb), p)

(* Use the designated victim.                                               *)
FromDv(m, nb) ==
  LET p == m.dv
      rsize == m.dvsize - nb
      rest == SetSizeAndPinuseOfFreeChunk([m EXCEPT !.dv = p + nb, !.dvsize = rsize],
                                          p + nb, rsize)
  IN  Result(IF rsize >= MinChunk THEN SetSizeAndPinuseOfInuseChunk(rest, p, nb)
             ELSE SetInuseAndPinuse([m EXCEPT !.dv = NULL, !.dvsize = 0], p, m.dvsize), p)

(* A mutant: the top chunk may be used up.                                  *)
GreedyMallocChunk(m, nb, fit) ==
  IF fit # 0 THEN FromBin(m, fit, nb)
  ELSE IF nb <= m.dvsize THEN FromDv(m, nb)
  ELSE IF nb <= m.topsize THEN FromTop(m, nb)
  ELSE SysAlloc(m, nb)

(* malloc() on the aligned size nb, without its accounting                  *)
MallocChunk(m, nb, fit) ==
  IF fit # 0 THEN FromBin(m, fit, nb)
  ELSE IF nb <= m.dvsize THEN FromDv(m, nb)
  ELSE IF nb < m.topsize THEN FromTop(m, nb)
  ELSE SysAlloc(m, nb)

CountMalloc(got) ==
  IF got.mem = NULL THEN got
  ELSE Result([got.heap EXCEPT !.usage = @ + ChunkSize(got.heap, got.mem)], got.mem)

(* dlmalloc(r); a request of MAX_REQUEST or more is MAX_SIZE_T from here on *)
DlMalloc(m, r) ==
  LET nb == IF r >= MaxRequest THEN MaxSize ELSE Request2Size(r)
  IN  CountMalloc(MallocChunk(m, nb, BinnedFit(m, nb)))

-----------------------------------------------------------------------------
(* free                                                                    *)

(* File the free chunk of size s at p, unless it is the designated victim.  *)
FileMerged(m, p, s) == IF p = m.dv THEN [m EXCEPT !.dvsize = s] ELSE InsertChunk(m, p, s)

MergeIntoTop(m, q, t) ==
  PutHead([m EXCEPT !.topsize = t, !.top = q,
                    !.dvsize = IF q = m.dv THEN 0 ELSE @,
                    !.dv = IF q = m.dv THEN NULL ELSE @], q, t, FALSE, TRUE)

(* A mutant: the designated victim is not merged with what precedes it.     *)
DvlessConsolidateForward(m, q, n, next) ==
  LET nsize == ChunkSize(m, next)
  IN  IF Cinuse(m, next) \/ next = m.dv
      THEN InsertChunk(SetFreeWithPinuse(m, q, n, next), q, n)
      ELSE IF next = m.top THEN MergeIntoTop(m, q, n + nsize)
      ELSE FileMerged(SetSizeAndPinuseOfFreeChunk(UnlinkChunk(m, next, nsize),
                                                  q, n + nsize), q, n + nsize)

(* Consolidate the chunk of size n at q with what follows it at next.       *)
ConsolidateForward(m, q, n, next) ==
  LET nsize == ChunkSize(m, next)
  IN  IF Cinuse(m, next) THEN InsertChunk(SetFreeWithPinuse(m, q, n, next), q, n)
      ELSE IF next = m.top THEN MergeIntoTop(m, q, n + nsize)
      ELSE IF next = m.dv
      THEN SetSizeAndPinuseOfFreeChunk([m EXCEPT !.dvsize = n + nsize, !.dv = q],
                                       q, n + nsize)
      ELSE FileMerged(SetSizeAndPinuseOfFreeChunk(UnlinkChunk(m, next, nsize),
                                                  q, n + nsize), q, n + nsize)

(* dispose_chunk, and the body of dlfree after its checks: free the chunk   *)
(* of size s at p, merging it with the free chunks on both sides.           *)
DisposeChunk(m, p, s) ==
  LET next == p + s
      prevsize == IF Pinuse(m, p) THEN 0 ELSE m.foot[p]
      q == p - prevsize
  IN  IF ~Pinuse(m, p) /\ q = m.dv /\ Cinuse(m, next) /\ Pinuse(m, next)
      THEN SetFreeWithPinuse([m EXCEPT !.dvsize = s + prevsize], q, s + prevsize, next)
      ELSE ConsolidateForward(IF Pinuse(m, p) \/ q = m.dv THEN m
                              ELSE UnlinkChunk(m, q, prevsize),
                              q, s + prevsize, next)

(* The runtime checks on a chunk the program hands in; the footer must      *)
(* decode to gm.                                                            *)
Owned(m, p) ==
  p >= m.segbase /\ IsInuse(m, p) /\ m.foot[p + ChunkSize(m, p)] = Magic

Valid(m, p) ==
  /\ Owned(m, p)
  /\ p < p + ChunkSize(m, p) /\ Pinuse(m, p + ChunkSize(m, p))

TrimIfLarge(m) == IF ShouldTrim(m, m.topsize) THEN SysTrim(m, 0) ELSE m

(* dlfree(mem)                                                              *)
CountFree(m, p) ==
  [m EXCEPT !.usage = IF IsInuse(m, p) THEN @ - ChunkSize(m, p) ELSE @]

FreeChunk(m, p, s) ==
  IF p + s = m.top THEN TrimIfLarge(DisposeChunk(m, p, s)) ELSE DisposeChunk(m, p, s)

DlFree(m, p) == FreeChunk(Check(CountFree(m, p), Valid(m, p)), p, ChunkSize(m, p))

-----------------------------------------------------------------------------
(* realloc                                                                 *)

(* Cut the chunk of size s at p, in use, down to nb and free the rest.      *)
CutTail(m, p, nb, s) ==
  DisposeChunk(SetInuse(SetInuse(m, p, nb), p + nb, s - nb), p + nb, s - nb)

(* The four ways to resize the chunk at p in place: into its own space,     *)
(* into the top chunk, into the designated victim, into a binned chunk.     *)
(* all is the size of the chunk and its neighbour together.                 *)
Shrink(m, p, s, nb) == IF s - nb >= MinChunk THEN CutTail(m, p, nb, s) ELSE m

IntoTop(m, p, all, nb) ==
  PutHead([SetInuse(m, p, nb) EXCEPT !.top = p + nb, !.topsize = all - nb],
          p + nb, all - nb, FALSE, TRUE)

IntoDv(m, p, all, nb) ==
  LET cut == SetSizeAndPinuseOfFreeChunk(
               [SetInuse(m, p, nb) EXCEPT !.dv = p + nb, !.dvsize = all - nb],
               p + nb, all - nb)
  IN  IF all - nb >= MinChunk THEN PutPinuse(cut, p + all, FALSE)
      ELSE SetInuse([m EXCEPT !.dv = NULL, !.dvsize = 0], p, all)

IntoBinned(m, p, all, nb) ==
  IF all - nb < MinChunk THEN SetInuse(m, p, all) ELSE CutTail(m, p, nb, all)

(* try_realloc_chunk: resize the chunk at p in place, or return NULL.       *)
ResizeChunk(m, p, nb) ==
  LET s == ChunkSize(m, p)
      next == p + s
      nsize == ChunkSize(m, next)
  IN  IF s >= nb THEN Result(Shrink(m, p, s, nb), p)
      ELSE IF next = m.top /\ s + m.topsize > nb
      THEN Result(IntoTop(m, p, s + m.topsize, nb), p)
      ELSE IF next = m.top \/ Cinuse(m, next) \/ s + nsize < nb THEN Result(m, NULL)
      ELSE IF next = m.dv THEN Result(IntoDv(m, p, s + nsize, nb), p)
      ELSE Result(IntoBinned(UnlinkChunk(m, next, nsize), p, s + nsize, nb), p)

TryRealloc(m, p, nb) == ResizeChunk(Check(m, Valid(m, p)), p, nb)

(* A mutant: the size is read only after it has changed.                    *)
StaleCountResize(got, s, p) == got

(* In place nothing counts the new size but the caller.                     *)
CountResize(got, s, p) ==
  Result([got.heap EXCEPT !.usage = @ + ChunkSize(got.heap, p) - s], p)

(* A mutant: the old block is freed even when there is no new one.          *)
EagerFreeMoved(got, p) == Result(DlFree(got.heap, p), got.mem)

(* dlrealloc(p, r), p not null: in place, or else malloc, copy and free     *)
FreeMoved(got, p) ==
  IF got.mem = NULL THEN got ELSE Result(DlFree(got.heap, p), got.mem)

OrMove(tried, s, p, r) ==
  IF tried.mem # NULL THEN CountResize(tried, s, p)
  ELSE FreeMoved(DlMalloc(tried.heap, r), p)

DlRealloc(m, p, r) ==
  IF r >= MaxRequest THEN Result(m, NULL)
  ELSE OrMove(TryRealloc(m, p, Request2Size(r)), ChunkSize(m, p), p, r)

(* dlrealloc_in_place(p, r)                                                 *)
OrFail(tried, s, p) == IF tried.mem # NULL THEN CountResize(tried, s, p) ELSE tried

DlReallocInPlace(m, p, r) ==
  IF r >= MaxRequest THEN Result(m, NULL)
  ELSE OrFail(TryRealloc(m, p, Request2Size(r)), ChunkSize(m, p), p)

-----------------------------------------------------------------------------
(* memalign, independent_comalloc, bulk_free, tuning                       *)

(* The first chunk boundary from p on, with room for a chunk before it,     *)
(* whose memory (one granule further) is a multiple of a.                   *)
AlignedChunk(p, a) ==
  LET br == ((p + 1 + a - 1) \div a) * a - 1
  IN  IF (p + 1) % a = 0 THEN p ELSE IF br - p >= MinChunk THEN br ELSE br + a

(* Mutants: the lead is marked free and not filed; the spare is kept.        *)
LostLead(m, p, s, q) ==
  IF q = p THEN m
  ELSE SetFreeWithPinuse(SetInuse(m, q, s - (q - p)), p, q - p, q)

KeptSpare(m, q, nb) == m

(* Give back the space of the chunk of size s at p that lies before q, and  *)
(* then what the chunk at q has beyond nb.                                  *)
GiveLead(m, p, s, q) ==
  IF q = p THEN m
  ELSE DisposeChunk(SetInuse(SetInuse(m, q, s - (q - p)), p, q - p), p, q - p)

GiveSpare(m, q, nb) ==
  IF ChunkSize(m, q) > nb + MinChunk THEN CutTail(m, q, nb, ChunkSize(m, q)) ELSE m

CheckAligned(m, q, a, nb) == Check(m, ChunkSize(m, q) >= nb /\ (q + 1) % a = 0)

AlignIn(got, a, nb) ==
  LET p == got.mem
      s == ChunkSize(got.heap, p)
      q == AlignedChunk(p, a)
  IN  IF p = NULL THEN got
      ELSE CountResize(Result(CheckAligned(GiveSpare(GiveLead(got.heap, p, s, q), q, nb),
                                           q, a, nb), q), s, q)

(* internal_memalign for an alignment a that is a power of two              *)
InternalMemalign(m, a, r) ==
  LET nb == Request2Size(r)
  IN  IF r >= MaxRequest - a THEN Result(m, NULL)
      ELSE AlignIn(DlMalloc(m, nb + a + MinChunk - Overhead), a, nb)

(* dlmemalign(a, r)                                                         *)
DlMemalign(m, a, r) ==
  IF a <= 1 THEN DlMalloc(m, r)
  ELSE InternalMemalign(m, IF a < MinChunk THEN MinChunk ELSE a, r)

(* ialloc on an array of sizes: one chunk is allocated and cut into the     *)
(* elements and, when own is TRUE, an array of pointers to them (eight      *)
(* bytes each); the last one absorbs what is left over.  Returns the heap,  *)
(* the chunk of every element and NULL or the chunk of the array.           *)
(* A mutant: the elements' headers are forgotten.                           *)
BareOffset(sizes, n) ==
  LET start[i \in 0 .. n] == IF i = 0 THEN 0 ELSE start[i - 1] + sizes[i]
  IN  start[n]

Offset(sizes, n) ==
  LET start[i \in 0 .. n] == IF i = 0 THEN 0 ELSE start[i - 1] + Request2Size(sizes[i])
  IN  start[n]

ArraySize(n, own) == IF own THEN Request2Size((n + 1) \div 2) ELSE 0

CutArray(m, p, contents, s, own) ==
  IF own THEN SetSizeAndPinuseOfInuseChunk(m, p + contents, s - contents) ELSE m

(* Split the chunk at p into chunks that end at the offsets ends.           *)
SplitAt(m, p, ends) ==
  LET n == Len(ends)
      begin(i) == IF i = 1 THEN p ELSE p + ends[i - 1]
      split(f, at(_), word(_)) ==
        [x \in DOMAIN f \cup {at(i) : i \in 1 .. n} |->
           IF \E i \in 1 .. n : x = at(i) THEN word(CHOOSE i \in 1 .. n : x = at(i)) ELSE f[x]]
  IN  [m EXCEPT
         !.head = split(@, begin, LAMBDA i : [size |-> p + ends[i] - begin(i),
                                              cinuse |-> TRUE, pinuse |-> TRUE]),
         !.foot = split(@, LAMBDA i : p + ends[i], LAMBDA i : Magic)]

CutElements(m, p, sizes, last) ==
  SplitAt(m, p, [i \in 1 .. Len(sizes) |->
                   IF i = Len(sizes) THEN last ELSE Offset(sizes, i)])

Distribute(got, sizes, own) ==
  LET n == Len(sizes)
      contents == Offset(sizes, n)
      p == got.mem
      s == ChunkSize(got.heap, p)
  IN  IF p = NULL THEN [heap |-> got.heap, elements |-> <<>>, array |-> NULL]
      ELSE [heap |-> CutElements(CutArray(got.heap, p, contents, s, own), p, sizes,
                                 IF own THEN contents ELSE s),
            elements |-> [i \in 1 .. n |-> p + Offset(sizes, i - 1)],
            array |-> IF own THEN p + contents ELSE NULL]

Ialloc(m, sizes, own) ==
  Distribute(DlMalloc(m, Offset(sizes, Len(sizes)) + ArraySize(Len(sizes), own) - Overhead),
             sizes, own)

(* One iteration of the loop of internal_bulk_free: a chunk followed in the *)
(* array by its neighbour in memory is merged with it and takes its place   *)
(* in the array.  Nothing subtracts from the usage.  (The code skips and    *)
(* counts a chunk with a wrong footer; here it fails a check.)              *)
(* A mutant: any later chunk of the array counts as the neighbour.          *)
IsFollowedBelow(m, p, rest) == rest # <<>> /\ Head(rest) > p

IsFollowed(m, p, rest) == rest # <<>> /\ Head(rest) = p + ChunkSize(m, p)

MergeOrFree(m, p, merge) ==
  IF merge THEN SetInuse(m, p, ChunkSize(m, p) + ChunkSize(m, p + ChunkSize(m, p)))
  ELSE DisposeChunk(m, p, ChunkSize(m, p))

(* What follows the loop when nothing is left of the array.                 *)
FinishBulkFree(m, rest) == IF rest = <<>> THEN TrimIfLarge(m) ELSE m

(* dlmalloc_set_footprint_limit(bytes).  Its first "if", for 0, has no      *)
(* effect: the second one assigns to the same variable.                     *)
FootprintLimitFor(bytes) == IF bytes = MaxSize THEN 0 ELSE GranularityAlign(bytes)

(* The uordblks field of mallinfo(): footprint less the free chunks, the    *)
(* top chunk and its foot.                                                  *)
Uordblks(m) ==
  IF m.top = NULL THEN 0
  ELSE m.footprint - TopFoot
       - MapThenSumSet(LAMBDA p : ChunkSize(m, p), {p \in DOMAIN m.head : ~IsInuse(m, p)})

-----------------------------------------------------------------------------
(* The program                                                             *)

Without(f, S) == [x \in DOMAIN f \ S |-> f[x]]

(* _nolibc_init() has set the break, nothing has been allocated.            *)
Init ==
  /\ gm = [head |-> [x \in {} |-> 0], foot |-> [x \in {} |-> 0],
           bins |-> [s \in MinChunk .. HeapSize |-> <<>>],
           dv |-> NULL, dvsize |-> 0, top |-> NULL, topsize |-> 0, trim_check |-> 0,
           segbase |-> 0, segsize |-> 0, brk |-> HeapStart, contiguous |-> TRUE,
           footprint |-> 0, max_footprint |-> 0, footprint_limit |-> 0,
           usage |-> 0, ok |-> TRUE]
  /\ live = [x \in {} |-> 0]
  /\ sp \in StackAddrs
  /\ freeing = <<>>
  /\ asked = MaxSize

(* The program runs, outside of any call, and no failed check has ended it. *)
Running == gm.ok /\ freeing = <<>>

(* The program learns of a new block, in place of the blocks it gave up.    *)
Receive(result, given, r) ==
  /\ Running
  /\ gm' = result.heap
  /\ live' = IF result.mem = NULL THEN live ELSE Put(Without(live, given), result.mem, r)
  /\ UNCHANGED <<sp, freeing, asked>>

HasRoom(n) == Cardinality(DOMAIN live) + n <= MaxBlocks

Malloc(r) == HasRoom(1) /\ Receive(DlMalloc(gm, r), {}, r)

Memalign(a, r) == HasRoom(1) /\ Receive(DlMemalign(gm, a, r), {}, r)

Realloc(p, r) == Receive(DlRealloc(gm, p, r), {p}, r)

ReallocInPlace(p, r) == Receive(DlReallocInPlace(gm, p, r), {p}, r)

Free(p) ==
  /\ Running
  /\ gm' = DlFree(gm, p)
  /\ live' = Without(live, {p})
  /\ UNCHANGED <<sp, freeing, asked>>

ReceiveBatch(result, sizes) ==
  LET at(p) == CHOOSE i \in DOMAIN result.elements : result.elements[i] = p
      elements == [p \in {result.elements[i] : i \in DOMAIN result.elements} |-> sizes[at(p)]]
      received == IF result.array = NULL THEN elements
                  ELSE Put(elements, result.array, (Len(sizes) + 1) \div 2)
  IN  /\ Running
      /\ gm' = result.heap
      /\ live' = [p \in DOMAIN live \cup DOMAIN received |->
                    IF p \in DOMAIN received THEN received[p] ELSE live[p]]
      /\ UNCHANGED <<sp, freeing, asked>>

IndependentComalloc(sizes, own) ==
  /\ HasRoom(Len(sizes) + (IF own THEN 1 ELSE 0))
  /\ ReceiveBatch(Ialloc(gm, sizes, own), sizes)

(* Arrays of distinct blocks, in any order.                                 *)
Arrays(S) ==
  UNION {{a \in [1 .. n -> S] : \A i, j \in 1 .. n : a[i] = a[j] => i = j} : n \in 1 .. MaxBatch}

(* bulk_free(array): the program gives up the blocks, an iteration of the   *)
(* loop is one step, and nothing else happens before the last one.          *)
BulkFree(array) ==
  /\ Running
  /\ gm.usage - Uordblks(gm) <= MaxDrift
  /\ freeing' = array
  /\ live' = Without(live, {array[i] : i \in DOMAIN array})
  /\ UNCHANGED <<gm, sp, asked>>

FreeNext(m, p, rest, merge) ==
  /\ freeing' = IF merge THEN <<p>> \o Tail(rest) ELSE rest
  /\ gm' = FinishBulkFree(MergeOrFree(m, p, merge), freeing')
  /\ UNCHANGED <<live, sp, asked>>

BulkFreeNext ==
  /\ gm.ok /\ freeing # <<>>
  /\ FreeNext(Check(gm, Owned(gm, Head(freeing))), Head(freeing), Tail(freeing),
              IsFollowed(gm, Head(freeing), Tail(freeing)))

MallocTrim(pad) ==
  /\ Running
  /\ gm' = SysTrim(gm, pad)
  /\ UNCHANGED <<live, sp, freeing, asked>>

SetFootprintLimit(bytes) ==
  /\ Running
  /\ gm' = [gm EXCEPT !.footprint_limit = FootprintLimitFor(bytes)]
  /\ asked' = bytes
  /\ UNCHANGED <<live, sp, freeing>>

(* The program calls and returns between its calls of the allocator.        *)
MoveStack == Running /\ sp' \in StackAddrs /\ UNCHANGED <<gm, live, freeing, asked>>

(* The calls a program makes that gives the blocks in own away or resizes   *)
(* them.                                                                    *)
Calls(own) ==
  \/ \E r \in Requests : Malloc(r)
  \/ \E a \in Alignments, r \in Requests : Memalign(a, r)
  \/ \E p \in own, r \in Requests : Realloc(p, r)
  \/ \E p \in own, r \in Requests : ReallocInPlace(p, r)
  \/ \E p \in own : Free(p)
  \/ \E sizes \in Batches, own_array \in BOOLEAN : IndependentComalloc(sizes, own_array)
  \/ \E array \in Arrays(own) : BulkFree(array)
  \/ BulkFreeNext
  \/ \E pad \in TrimPads : MallocTrim(pad)
  \/ \E bytes \in Limits : SetFootprintLimit(bytes)
  \/ MoveStack

Next == Calls(DOMAIN live)

Spec == Init /\ [][Next]_vars

=============================================================================
