-------------------------------- MODULE Mmap --------------------------------
(***************************************************************************)
(* src/nolibc/mmap.c on top of the allocator (module Dlmalloc), and the end *)
(* of _nolibc_init() in sysdeps_solo5.c, which allocates the TLS block.    *)
(*                                                                         *)
(* mmap() reserves memory with posix_memalign(), lets a commit or decommit *)
(* of reserved memory go through, and munmap() is free().  The program is  *)
(* the OCaml runtime with the unikernel: between its calls of mmap() and   *)
(* munmap() it makes every call of module Dlmalloc on its other blocks.    *)
(***************************************************************************)
EXTENDS HeapInvariants

CONSTANTS
  PageSize,      (* OCAML_SOLO5_PAGESIZE, in granules                       *)
  GranuleBytes,  (* bytes in a granule: 16                                  *)
  TlsSize,       (* solo5_tls_size(), in granules                           *)
  Lengths,       (* lengths, in granules, of the mappings asked for         *)
  MaxMapped      (* bound: mappings the program holds                       *)

ASSUME MmapAssumption ==
  /\ PageSize \in Nat /\ MinChunk <= PageSize /\ PageSize < MaxRequest
  /\ GranuleBytes \in Nat /\ GranuleBytes % 2 = 0 /\ GranuleBytes > 0
  /\ TlsSize \in Nat /\ Lengths \subseteq Nat

VARIABLES
  stage,   (* "boot", then "running"; "aborted" once abort() was called     *)
  tls,     (* the chunk of tls_main, NULL before it is allocated            *)
  mapped,  (* the blocks the program holds from mmap()                      *)
  ret      (* what the last call returned, if it was one of this module     *)

allvars == <<gm, live, sp, freeing, asked, stage, tls, mapped, ret>>

MAP_FAILED == -1
EINVAL == "EINVAL"
Ok(value) == [value |-> value, errno |-> "kept"]
Fails(errno) == [value |-> MAP_FAILED, errno |-> errno]

(* The address, in bytes, of the memory of the chunk at p.                  *)
Chunk2Mem(p) == GranuleBytes * (p + 1)

-----------------------------------------------------------------------------
(* Start-up                                                                 *)

BootInit ==
  /\ Init
  /\ stage = "boot" /\ tls = NULL /\ mapped = {} /\ ret = Ok(0)

(* After calloc(): it may have failed, and so may solo5_tls_init() and      *)
(* solo5_set_tls_base(); the block is not given back then.                  *)
InitTls(got) ==
  /\ tls' = got.mem
  /\ IF got.mem = NULL THEN stage' = "aborted" ELSE stage' \in {"running", "aborted"}

(* The part of _nolibc_init() that follows the setting of the break.        *)
AllocTls ==
  /\ stage = "boot"
  /\ LET got == DlMalloc(gm, TlsSize)
     IN  /\ gm' = got.heap
         /\ live' = IF got.mem = NULL THEN live ELSE Put(live, got.mem, TlsSize)
         /\ InitTls(got)
  /\ UNCHANGED <<sp, freeing, asked, mapped, ret>>

-----------------------------------------------------------------------------
(* mmap                                                                     *)

Available == stage = "running" /\ Running

(* The blocks the program passes to the allocator itself.                   *)
Own == DOMAIN live \ (mapped \cup {tls})

(* dlposix_memalign(&ptr, a, r) for an alignment a that passes its tests.   *)
PosixMemalign(m, a, r) ==
  IF r <= MaxRequest - a THEN InternalMemalign(m, IF a < MinChunk THEN MinChunk ELSE a, r)
  ELSE Result(m, NULL)

(* A mutant: the plain allocator instead of posix_memalign().               *)
UnalignedReserve(m, len) == DlMalloc(m, len)

Reserve(m, len) == PosixMemalign(m, PageSize, len)

(* mmap(NULL, len, ...): ptr stays NULL when posix_memalign() fails.        *)
MapNew(len) ==
  /\ Available /\ Cardinality(mapped) < MaxMapped
  /\ LET got == Reserve(gm, len)
     IN  /\ gm' = got.heap
         /\ IF got.mem = NULL
            THEN ret' = Fails("ENOMEM") /\ UNCHANGED <<live, mapped>>
            ELSE /\ ret' = Ok(Chunk2Mem(got.mem))
                 /\ live' = Put(live, got.mem, len)
                 /\ mapped' = mapped \cup {got.mem}
  /\ UNCHANGED <<sp, freeing, asked, stage, tls>>

(* A mutant: the commit of reserved memory reserves it once more.           *)
DoubleReserve(m, p, len) ==
  LET got == Reserve(m, len) IN [heap |-> got.heap, value |-> Chunk2Mem(p)]

(* mmap(addr, len, ... MAP_FIXED ...): prot is ignored, nothing happens.    *)
CommitIn(m, p, len) == [heap |-> m, value |-> Chunk2Mem(p)]

Commit(p, len) ==
  /\ Available
  /\ LET done == CommitIn(gm, p, len) IN gm' = done.heap /\ ret' = Ok(done.value)
  /\ UNCHANGED <<live, sp, freeing, asked, stage, tls, mapped>>

(* mmap(addr, ...) without MAP_FIXED: errno = EINVAL                        *)
MapHint ==
  /\ Available
  /\ ret' = Fails(EINVAL)
  /\ UNCHANGED <<gm, live, sp, freeing, asked, stage, tls, mapped>>

(* mmap() of a file, or with an offset: the program ends.  Nothing follows, *)
(* so it is enough to try it while the program holds no block.              *)
MapFile ==
  /\ Available /\ Own = {} /\ mapped = {}
  /\ stage' = "aborted"
  /\ UNCHANGED <<gm, live, sp, freeing, asked, tls, mapped, ret>>

-----------------------------------------------------------------------------
(* munmap                                                                   *)

Release(m, p) == DlFree(m, p)

(* munmap(addr, length) tests addr & OCAML_SOLO5_PAGESIZE != 0, which is    *)
(* addr & (OCAML_SOLO5_PAGESIZE != 0), the lowest bit of addr.              *)
Misaligned(addr) == addr % 2 # 0

(* munmap() of an address offset bytes into the block at p.                 *)
Munmap(p, offset) ==
  /\ Available
  /\ IF Misaligned(Chunk2Mem(p) + offset)
     THEN ret' = Fails(EINVAL) /\ UNCHANGED <<gm, live, mapped>>
     ELSE /\ ret' = Ok(0)
          /\ gm' = Release(gm, p)
          /\ live' = Without(live, {p})
          /\ mapped' = mapped \ {p}
  /\ UNCHANGED <<sp, freeing, asked, stage, tls>>

-----------------------------------------------------------------------------

Boot == AllocTls

MapCall ==
  \/ \E len \in Lengths : MapNew(len)
  \/ \E p \in mapped : Commit(p, live[p])
  \/ MapHint
  \/ MapFile
  \/ \E p \in mapped, offset \in {0, 1} : Munmap(p, offset)

MmapNext ==
  \/ Boot
  \/ MapCall
  \/ stage = "running" /\ Calls(Own) /\ ret' = Ok(0) /\ UNCHANGED <<stage, tls, mapped>>

MmapSpec == BootInit /\ [][MmapNext]_allvars

(* The program also unmaps blocks that it has from malloc().                *)
StrayNext == MmapNext \/ \E p \in Own : Munmap(p, 0)

StraySpec == BootInit /\ [][StrayNext]_allvars

-----------------------------------------------------------------------------
(* Properties                                                               *)

(* The heap's own consistency, all at once, with mappings, the TLS block,   *)
(* batches and aligned blocks in it: no check fails, the chunks tile the    *)
(* segment, their tags agree, free neighbours are merged, and every free    *)
(* chunk is in exactly one list.                                            *)
HeapConsistent == NoAbort /\ Tiled /\ BoundaryTags /\ Coalesced /\ FreeListsExact

(* Every mapping is a page-aligned block of its own, large enough, apart    *)
(* from the TLS block and from what malloc() gave; once the program runs,   *)
(* the TLS block exists and no call has taken it back or cut it.            *)
MappingsHeld ==
  /\ \A p \in mapped :
       /\ p \in UsedChunks \ {tls} /\ (p + 1) % PageSize = 0
       /\ ChunkSize(gm, p) - Overhead >= live[p]
  /\ stage = "running" => /\ tls \in UsedChunks \ mapped
                          /\ ChunkSize(gm, tls) - Overhead >= TlsSize

(* Only mmap(NULL) reserves memory and only munmap() gives it back: a call  *)
(* that returns MAP_FAILED or -1, a commit and a decommit leave every block *)
(* and count as they were, and the memory in use grows and shrinks by       *)
(* exactly the block a call returned or was given.                          *)
MapCallsExact ==
  [][MapCall =>
       LET before == DOMAIN live
           after == DOMAIN live'
           used(m) == {p \in DOMAIN m.head \ {m.top + m.topsize} : Cinuse(m, p)}
       IN  /\ used(gm') = (used(gm) \ (before \ after)) \cup (after \ before)
           /\ Cardinality(before \ after) + Cardinality(after \ before) <= 1
           /\ before = after => \A x \in DOMAIN gm \ {"contiguous"} : gm'[x] = gm[x]
           /\ ret'.value = MAP_FAILED => before = after]_allvars

(* mmap.c quotes the man page of munmap: "The address addr must be a        *)
(* multiple of the page size"; any other address is to be refused.          *)
UnmapsPagesOnly ==
  [][\A p \in DOMAIN live : Munmap(p, 0) /\ ret'.value = 0 =>
       Chunk2Mem(p) % (PageSize * GranuleBytes) = 0]_allvars

=============================================================================
