# A verification project for ocaml-solo5

ocaml-solo5 builds the OCaml runtime for Solo5 unikernels. Its own code is
`nolibc/`, a small C library that stands between the runtime and the Solo5
host; the rest is build scripts, two patches of OCaml and the vendored
`openlibm`. This directory holds TLA+ modules that model nolibc, TLC
configurations that check them on small instances, and proofs TLAPS checks.

Paths below are relative to the repository.

## Inventory

| Part | State | Operations | Hard behaviour | What makes it correct | Status |
|---|---|---|---|---|---|
| Program break, `nolibc/sysdeps_solo5.c` | `sbrk_start/end/cur/guard_size` | `_nolibc_init`, `sbrk` | address sums that wrap, a stack that moves between calls, refusal to shrink | break in the heap and clear of the stack; exact moves | `Sbrk`, proved |
| Allocator, `nolibc/dlmalloc.i` | `struct malloc_state`, tags in the heap | malloc, free, realloc, realloc_in_place, memalign, independent_comalloc, bulk_free, malloc_trim, set_footprint_limit | long call sequences, coalescing on both sides, remainders of every size, exhaustion, failure half way, two counters kept by many paths | tags tile the segment and agree, every free chunk is in one list, live blocks are disjoint, failures change nothing, counters are exact | `HeapTags`, `Dlmalloc`, `HeapInvariants`, `AbsHeap`; heap invariants and refinement proved |
| Allocator's size arithmetic | none | request padding, rounding, calloc product, odd alignments | wrapping of `size_t` at its upper end | equal to the unbounded computation, or refused | not modelled |
| Allocator's bins | `smallbins`, `treebins`, two bitmaps | insert, unlink, best fit in a trie | three kinds of links, replacement of an inner node, bitmap in step | implement "a list of chunks per size" | `FreeLists`, `SmallBin`, `TreeBin`, `Bins`, `AbsBins`; invariants and refinement proved |
| `nolibc/mmap.c` | none of its own (the heap) | mmap, munmap | reserve, commit and decommit told apart by flags; the alignment test; failure of `posix_memalign` | hands out aligned blocks, never frees what it did not allocate, changes nothing when it fails | `Mmap`, safety proved |
| Startup, `_nolibc_init` | `tls_main` | calloc, TLS set-up, aborts | the first allocation, failing at every step | the TLS block stays as it is under all later calls | `Mmap`, safety proved |
| Formatted output, `vfprintf.c`, `vsnprintf.c` | `FILE.wpos/wend`, `nl_type`, `nl_arg`, `cnt`, `errno` | `snprintf` and its two passes | arguments by position, truncation, a count past `INT_MAX`, rounding in limbs | returns the length of the whole text, never writes past the end, prints what the C standard says | `Fields`, `FmtFp`, `Printf`, `PrintfSpec`, `Text`; `%a`, `%p` left out |
| Number parsing, `strtol.c` | `errno` | `strtol` | saturation one digit ahead | the number the text starts with, or the bound | `Strtol`, `Text`; accumulator proved |
| `dtoa.c` | pool of big integers, `errno` | Balloc, Bfree, ten operations on big integers; `strtod` | recycling by size class, carries, five ways to round, a correction loop, early exits | a Bigint is in one place; arithmetic exact; the nearest double; everything given back; the loop ends | `Bigint`, `AbsBigint`, `Bignums`, `Numeral`, `Doubles`, `Bf96`, `Strtod`; the pool of Bigints, and that `strtod` gives back every one, proved; `gethex`, `hexnan`, `dtoa()` left out |
| String functions | none | memmove, strstr, ... | overlap | equal to their definitions | not modelled: pure |
| Console, clock, exit | none | calls of the Solo5 host | none | | not modelled |
| `stubs.c`, `sysconf.c`, `errlist.c`, headers | none | return a constant or abort | none | | not modelled: no state |
| configure, Makefiles, wrappers, patches, example | files | build steps | none at run time | | not modelled |
| `openlibm/` | none | mathematics | | | not modelled: third party |

How they interact: the OCaml runtime and the unikernel call malloc and its
relatives (and `mmap`, which becomes `posix_memalign` and `free`); the
allocator calls `sbrk()` for more memory and to give memory back; `sbrk()`
compares with the stack pointer of the moment. `strtod()` draws its big
integers from a pool that `malloc` fills; `snprintf`, `strtol` and `strtod`
meet in `errno` and in the buffers of the program. There is one processor and
nothing preempts a unikernel inside a call, so the unit of interleaving is the
call: what varies is the order of calls, their arguments and the depth of the
stack at each. There is nothing persistent, and no messages or timeouts.

## Modules

* `Sbrk`: the break. `NolibcInit` is `_nolibc_init()` up to its first
  allocation, `Sbrk(increment)` is `sbrk()`, `MoveStack` is the program calling
  and returning between two calls of `sbrk()`. `Wrap` is the arithmetic of
  `uintptr_t`; `StackLimit` is the local `max`.
* `SbrkProofs`: theorems about `Sbrk`.
* `FreeLists`: the bins as a list of chunks per size, and which chunk of them
  malloc takes.
* `HeapTags`: the words in memory (`head`, `prev_foot`) with the macros that
  write them (`set_inuse`, `set_free_with_pinuse`, ...).
* `Dlmalloc`: every C function of the allocator as an operator on the heap
  record `gm`, every public call as one action, but for `bulk_free()`, whose
  loop is one step per iteration (`BulkFreeNext`) during which nothing else
  happens; `Sys` is an instance of `Sbrk`
  whose break is `gm.brk`.
* `HeapInvariants`: the properties. `Tiled`, `BoundaryTags`, `Coalesced` and
  `FreeListsExact` are, strengthened, what `do_check_malloc_state()` and its
  helpers (`dlmalloc.i:3243-3505`) assert; nolibc compiles them out.
* `HeapTagsProofs`: what the operators of `HeapTags` and `FreeLists` do to tags,
  tiling and lists.
* `DlmallocProofs`: what each C function of the allocator does to a sound heap.
* `HeapProofs`: the invariants and action properties of `HeapInvariants` as
  theorems of `Spec`, and the refinement of `AbsHeap`; then the same for `Mmap`,
  with the properties of mappings and of the TLS block.
* `AbsHeap`: what an allocator promises: disjoint blocks that only a call on
  them touches. `Dlmalloc` implements it under `live <- live`.
* `SmallBin`, `TreeBin`: the bins as the code links them. `InsertSmallChunk`,
  `InsertLargeChunk`, `UnlinkLargeChunk` and the others are the macros of the
  same names; `Search` is the loop of `tmalloc_large()` with its two
  continuations (`Untaken`, `NextRoot`), `TmallocSmallChoice` that of
  `tmalloc_small()`. A loop down a trie is a recursive function of the depth.
* `Bins`: the two together, with one action per call the allocator makes on
  them, and their properties. The designated victim is the caller's, so its
  size and its chunk are inputs.
* `AbsBins`: the lists of `FreeLists` under the same calls. `Bins` implements
  it, which is what entitles `Dlmalloc` to use `FreeLists`.
* `BinsProofs`: the properties of `Bins` and that implementation as theorems.
* `Mmap`: `mmap.c` and the end of `_nolibc_init()` on top of `Dlmalloc`.
  `Boot` allocates the TLS block, `MapNew`, `Commit`, `MapHint` and `MapFile`
  are the ways through `mmap()`, `Munmap` is `munmap()`; between them the
  program makes every call of `Dlmalloc` on its other blocks. The block of a
  mapping stays one of the program's blocks, so `AbsHeap` is implemented by the
  composition too.
* `Bigint`: the big integers of `dtoa.c` word by word, with their pool:
  `Balloc`, `Bfree`, `multadd`, `s2b`, `i2b`, `mult`, `pow5mult` (with the
  chain `p5s` of powers it keeps), `lshift`, `rshift`, `increment`, `cmp`,
  `diff`. A Bigint handed out keeps the words of its last user.
* `Bignums`: a caller that applies the operations in every order. `AbsBigint`
  is what it is promised: numbers behind handles. `Bignums` implements it.
* `BignumsProofs`: that the pool of `Bignums` is exact.
* `Doubles`: doubles of `P` bits as bit patterns, and `Nearest`, the rounding of
  a quotient to the nearest even.
* `Numeral`: the scan of a numeral by `strtod()`: sign, zeros, point, exponent,
  infinity, NaN, and where it ends.
* `Bf96`: the quick path of `strtod()`, the product of the first digits and a
  table entry (`pten`) in software floating point, with every test that decides
  whether the product is precise enough.
* `Strtod`: `strtod()`, one action per stretch of code between two labels: the
  scan, the paths for few digits, the quick path, the estimate, and the loop
  that compares the estimate with the numeral in big integers and corrects it,
  up to `bigcomp()`.
* `StrtodProofs`: that `Strtod` gives back every Bigint.
* `Fields`: signs, padding and digits, shared by all conversions.
* `FmtFp`: `fmt_fp()`, the expansion of a double in an array of limbs.
* `Printf`: `snprintf()`: `vsnprintf()`, then one action per item of the format
  in each of the two passes of `printf_core()`, with the item's errors, and the
  end of each pass.
* `PrintfSpec`: what a conversion promises, from the C standard: it shares the
  character table with the code's model and nothing else.
* `Strtol`: `strtol()`; `Begin` is all before its loop, `Turn` a turn of it.
* `StrtolProofs`: theorems about `Strtol`.
* `Text`: a program that prints with `snprintf()` and reads back what it finds
  with `strtol()`, and the properties of both.
* `MCSbrk`, `MCDlmalloc`, `MCBins`, `MCMmap`, `MCBignums`, `MCStrtod`,
  `MCText`: constants for TLC.

### How state corresponds

`gm` holds the fields of `struct malloc_state` under their names, `brk`, and
the memory: `gm.head[p]` is the head word of the chunk at `p` (size, CINUSE,
PINUSE), `gm.foot[p]` the `prev_foot` word at `p`, which is the size of a free
predecessor or the footer of one in use (`Magic`). `gm.bins[s]` is the content
of the smallbin or treebin node for size `s`. `gm.ok` becomes FALSE where the
program would abort (a live `assert`, a runtime check, corrupted links), and no action
follows. `gm.contiguous` is the negation of `USE_NONCONTIGUOUS_BIT`,
`gm.usage` is `internal_memory_usage`. `live` is the program's own record of
its blocks; `freeing` is what a running `bulk_free()` has left of its array;
`asked` remembers the last footprint limit it asked for. Only
properties read `asked`.

A block is named by its chunk address. `realloc(NULL)`, `free(NULL)`,
independent_calloc (equal sizes) and a caller-provided array with no elements
are combinations of what is modelled and have no action.

In `Mmap`, `mapped` is the program's record of its mappings and `ret` what the
last call returned, with `errno`. `Release` is the call of `free()`.

In `Bigint`, `p.blk[b]` is a `struct Bigint` (`k`, `sign`, `wds`, the array
`x`), `p.free[k]` is `freelist[k]`, `p.p5s` the chain of powers, `p.used` what
has been taken of `private_mem`; a class above `Kmax` goes back to `free()`. In `Strtod`, `at` is the label in the source that control has
reached, `rv` the bit pattern of the result, `bc` the struct of that name, and
`held` counts the Bigints each local (`bd`, `bd0`, `bb`, `bs`, `delta`) owns;
numbers stand for Bigints there, which `Bignums` entitles it to.

In `Printf`, `i` is the position in the format, `pc` the pass, `ap` the number
of the next argument, and `nl_type`, `nl_arg`, `l10n`, `cnt`, `l`, `wpos`,
`wend` are the variables of those names. A format is a sequence of items, each a
text or a conversion with its flags; reading digits and flags from characters
is not modelled, but what a number past `INT_MAX` becomes is (`getint`). `stored` is what `%n` wrote.

In `Bins`, `b` holds `smallmap`, `treemap` and `treebins`, and the link fields
of the chunks. The header of smallbin `i` and the address of treebin `i` are
the number `i`. A bitmap is the set of its bits. The fields of a chunk in no
bin are payload and kept at a fixed value; those of the header of an empty
smallbin are stale, as in the code, which resets only its bit.

### Abstractions

* Everything is counted in granules of 16 bytes (`MALLOC_ALIGNMENT`): chunk
  addresses and sizes are multiples of it, and `CHUNK_OVERHEAD` is exactly one
  granule because footers are on. Byte sizes and `pad_request` are not
  modelled. Alignments are powers of two.
* In `Dlmalloc` bins are lists per size (`Bins` shows they may be). Which of several chunks of one size is taken follows
  the code: the newest small one, and the oldest large one, which is the tree
  node; when it goes, its `bk`, the next oldest, takes its place.
* There is one segment. `sys_alloc()` can build more, but only when the new
  region does not continue the old one; in nolibc nothing but the allocator
  calls `sbrk()`, and it is built without `mmap`. `Grow` checks that the region continues
  the segment, and `NoAbort` covers that check, so the claim is not assumed.
  For the same reason "partial failure" (`dlmalloc.i:4141-4161`) and
  `prepend_alloc`, `add_segment` and `release_unused_segments` never run.
* Words that a write leaves inside a chunk are payload and are dropped. A header not
  yet written reads as PINUSE clear.
* `sys_trim()`'s clamp of `extra` at `HALF_MAX_SIZE_T` is left out: the heap is
  smaller than half of the address space.
* `bulk_free()` skips a chunk with a foreign footer; the model fails its check instead.
* `Strtod` computes `rv * 10^e` and its comparisons in numbers where the code
  shifts Bigints, takes out common factors and keeps the sign apart; the number
  of each Bigint is that of the code up to a common factor. The rounding mode is
  to nearest, the only one nolibc sets up.
* `FmtFp` prints a `long double` as a `double` of `P` bits, which it is on the targets
  where both have the same range.
* Text is a sequence of one-letter strings. Upper case letters, which differ
  from lower case only in the letter, are left out, and so are locales.

## Runs

Deadlock is checked in every passing run but `heap_batch` and `bigint`, where
the program really may stop: after an abort at start-up or a refused mapping of
a file, and when the operations of the bound are used up.

| Run | Instance | Shows |
|---|---|---|
| `sbrk` | 64 addresses, guard 6, five heaps (one of a single address, one empty, one below the guard, one up to the end of the space), ten stack depths, every increment from -31 to 31 | `BreakInHeap`, `ExactMove`, `GuardAtMove`, `GiveBack` |
| `heap` | three pages of 8 granules below the stack guard, requests of 1, 3, 5 and 120 granules, at most 4 blocks | tags, tiling, coalescing, lists, usage; system memory only as the last resort; failure changes nothing |
| `heap_tune` | a break that is not page aligned, a stack at two depths, footprint limits of less than a page, three pages and "none", two pads of malloc_trim | footprint and its limit, moves of the break, trimming |
| `heap_batch` | the TLS block, up to two mappings of a page, memalign to 4 granules, a batch of two sizes with and without its own array, bulk_free of up to two blocks in either order | leads, spares, batches, merging; `MappingsHeld`, `MapCallsExact`; the refinement of `AbsHeap` |
| `bins` | four chunks, small sizes 2 and 5 (of up to 7), large ones in four treebins, small and large requests, a dv of 0, 2 or 10 granules | `NoCorruption`, `TriesOrdered`, `EveryChunkFound`, the refinement of `AbsBins`: every search finds the oldest chunk of the least size that fits |
| `bigint` | words of 5 bits, size classes 0 and 1 pooled, a private memory of 14 words, every sequence of five operations on up to three numbers | `PoolExact`, `Canonical`, the refinement of `AbsBigint`: every operation computes the exact number |
| `strtod` | base 6, doubles of 5 bits, 50 000 numerals | the nearest double on every path, where the numeral ends, `errno`, every Bigint given back, and that `strtod()` returns |
| `text` | an int of 6 bits, a long of 5, doubles of 9, limbs of 2 digits, 30 000 calls | `SnprintfExact`, `FpNearlyExact`, `StrtolExact` |
| `usage_drift` | two pages, malloc, realloc and bulk_free | finding 1 |
| `munmap_misaligned` | as `heap_batch`, with addresses that no mapping starts at | finding 2 |
| `strtod_least` | as `strtod` | finding 3 |
| `printf_past_middle` | as `text`, one call | finding 4 |

### Fairness

`Strtod` is the one module that claims liveness. Its assumption, `WF_at(Continue)`,
is that the single thread, inside `strtod()`, goes on as long as there is a
next step; there is nothing to wait for and no scheduler that could stop it.
`Terminates` then says that the correction loop ends. The rest of the library
acts only when it is called, and a call of it is one step, or a loop over the
finite array or format it was given; nothing is claimed about when the program
calls, so no other module states fairness.

### Bounds, and why they are enough

* `SmallLimit` = 5 granules instead of 16, so that sizes 2 to 4 are small and
  the rest large: dv, smallbins and treebins all occur, remainders of 0, 1 and
  2 granules on both sides of the limit too. `TopFoot` is 4 in `heap` (the size
  of the top chunk then meets a request exactly) and 3 in the others; its real
  value, 5, changes no branch.
* `Granularity` = 8 (really 256), and 4 with mappings: a page holds several
  chunks and a heap several pages, so that growing, trimming and refusal all
  happen. The request of 120 granules is in the range where a page-rounded
  request exceeds `HALF_MAX_SIZE_T` of the 256-granule address space.
* `MaxBlocks` (3 to 5): a chunk, a free or used neighbour on either side, and
  one more block to keep another bin in play. `MaxBatch` = 2: merging looks at
  one successor at a time. `MaxMapped` = 2: one mapping stays while the other
  goes.
* `MaxDrift` = 0: bulk_free makes the usage count drift for ever (finding 1),
  which would make the state space infinite; after the first drift no further
  bulk_free is made. Only the counter, which no guard reads, is affected.
* `bins`: `TreeShift` 3 (really 4), four treebins (really 32) in a word of 5
  bits: the bins of half a power of two and the last bin, whose path starts at the top
  bit, occur. Four chunks make a node with two children one of which has a
  child, rings of up to four, and tries in two bins at once. Chunks are
  interchangeable: the code never compares their addresses, so `Symmetry` is sound.
  `ChunkSizes` names the sizes that result from splitting.
* `bigint`: `WordBits` 5 (really 32) is the least word in which 25 = 5^2 fits;
  carries cross two words, `Kmax` = 1 puts numbers of three words beyond the
  pooled classes, and 14 words of private memory run out. `MaxOps` = 5 lets a
  number be made, grown into the next class, given back, and its Bigint taken
  and overwritten by the next. `MaxValue` bounds the operands, `MaxBigints` the
  Bigints of the abstract module.
* `strtod`: base 6 = 2 * 3 keeps what makes base 10 hard, a factor that is no
  power of two; its mantissas, words and tables (`P`, `W`, `DT`, `DblDig`,
  `TenPmax`, `LowTens`, `n_bigtens`, `WordDigits`, `DigLim`, `MinTen`,
  `MaxTen`, `ExactTen`) stand in the relations that the code relies on, which
  `StrtodAssumption` and `Bf96Assumption` state. The inputs are every string
  of up to four of six characters, every number of up to four digits with every
  exponent in range, and for every double the numerals of five to nine digits
  next to the middle between it and the following one, where rounding is
  decided; half of the least double is among those middles.
* `text`: `IntBits` 6 puts `INT_MAX` at 31, so that two short items reach it;
  `CharBits` 4 makes `hh` cut; `NlArgMax` 5 (really 9) leaves room for gaps.
  Formats have up to three items of ten kinds, buffers 0, 1, 4, 31 and 32
  characters; conversions of one integer come with every pair of flags, and
  with widths and precisions given in every way. A long has 5 bits, so that
  numbers of two hexadecimal digits saturate. Doubles of 9 bits with limbs of 2
  digits take several limbs on either side of the point; what the limbs held
  before, `junk`, is one of two values.
* `Requests`, `Alignments`, `Batches`, `TrimPads`, `Limits`, `Lengths`, `Ints`,
  `Numerals`, `Powers`, `Shifts`, `Inputs` and `Calls` are the arguments of the
  program.

Every property of a passing run is broken by a mutant of the code: the
operators whose comment says "A mutant" stand beside the definition they
replace, and are used by no run as it stands.

## Findings

1. `bulk_free()` never subtracts what it frees from `internal_memory_usage`
   (`dlmalloc.i:5136-5176`), while `dlmalloc.i:980-985` documents
   `malloc_memory_usage()` as equal to `uordblks`. Run `usage_drift`.
2. `munmap()` tests `addr & OCAML_SOLO5_PAGESIZE != 0`, which is the lowest bit
   of `addr` (`mmap.c:70`): an even address that is not a multiple of the page
   size, which the comment above refuses, goes to `free()`. Run
   `munmap_misaligned`.
3. A numeral just above half of the least double becomes 0 instead of the least
   double when what makes it larger is in the second word of the product
   (`dtoa.c:4034`). Run `strtod_least`.
4. `fmt_fp()` drops limbs past the precision before it rounds
   (`vfprintf.c:327`), so that a number just above the middle of two decimals
   is printed as the middle is. Run `printf_past_middle`.

Disagreements met while modelling that have no run of their own:

* `%.0f` and `%.0e` of 1.5 print 1, not the even 2: where the last digit kept
  ends a limb, whether it is odd is not seen (`vfprintf.c:355`). `FpNearlyExact` tolerates it, and finding 4, by name
  (`Nearly`), and nothing else.
* An argument that the format names under two types is read under the last of
  them: `%1$d %1$hhd` of 300 prints 44 twice. Undefined in the C standard; no
  call of the run does it.
* `malloc_set_footprint_limit(0)` removes the limit, because the two tests at
  `dlmalloc.i:5412-5415` are not exclusive; line 1032 says that a limit not
  above the footprint stops all growth.
* A width past `INT_MAX` is to be refused (`vfprintf.c:503`), but by a test that
  the overflow in `getint()` has already happened, which is undefined: gcc at
  `-O2` drops the test where it knows `isdigit()` and keeps it with
  `-ffreestanding`. The model allows both (`MayRefuseWidth`), and
  `SnprintfExact` only says that the buffer is not overrun.
* `strtol()` of `0x` and no digit says that nothing was read; the C standard
  reads the `0`. `StrtolExact` is silent there on where the number ends.
* `strtod()` of a hexadecimal numeral that rounds up to infinity leaves `errno`
  alone (`dtoa.c:3063`), and `%a` with a precision prints a digit more than
  asked in some cases. Neither conversion is modelled.

## Proofs

`SbrkProofs` proves, for every address space, guard limit, set of heaps, stack
addresses and increments its assumptions admit, that `BreakInHeap`, `TypeOK`
and `GiveBack` are invariants and that `ExactMove` and `GuardAtMove` hold of
every step. The assumptions: the heap ends before the end of the address space
and is at most half of it (Solo5's loaders), the stack is not within the guard
of address 0 (so that `max` does not wrap), and increments are less than half
of the address space in size (which `sysdeps_solo5.c:125` says dlmalloc
guarantees, and which `BreakMovesByCalls`, below, proves of the model of dlmalloc).

`BreakInHeap` is not inductive alone. An increment close to half of the space,
added to a break high in a heap longer than that, would wrap to an address
between `sbrk_start` and the break, which `sbrk()` accepts. The inductive
invariant `SbrkInv` adds that the end of the heap did not wrap and that the heap is
at most half of the space. Lemma `GrantExact` draws the conclusion once: a
granted break is the exact sum, in the heap, below the stack; the theorems
follow from it.

`StrtolProofs` proves, for a long of every width and every base from 2 to 36,
that the test `strtol()` makes before it takes a digit (`TooLarge`, with
`cutoff` and `cutlim`) refuses exactly the digits that would take the number
out of the range of a long (`TooLargeExact`), and that neither the start
(`BeginIsLong`) nor a turn of the loop (`TurnKeepsLong`) leaves that range: no
operation on `acc` overflows. The only assumption is that `LongMax` is positive;
that `LONG_MIN` is `-LongMax - 1` is in its definition. The argument: `cutoff`
and `cutlim` are the digits of the limit in the base, all but the last and the
last (`UpperSplit`, `LowerSplit`, where the quotient of a negative number is
rounded towards 0), and numbers compare as their digits do (`Lexicographic`).
`NumberOK` is the invariant that carries this from turn to turn. What the
digits of a text of any length add up to is induction over that text, not
proved, and is checked by `StrtolExact`.

### The allocator

The constants are the address space, the heap and the stack's addresses, the
page (`Granularity`), the sizes of header, foot and least chunk, the limit between small and large,
and the program's requests. What the proofs assume of them is in four
assumptions, which hold of the real values:
`ListsAssumption` and `TagsAssumption` order the sizes (`0 < Overhead < MinChunk <
TopFoot < Granularity`, `MinChunk < SmallLimit`); `HeapAssumption` says that the
heap lies in the address space, not at address 0, and is shorter than half of it,
that a page divides the address space (both are powers of two) and is
shorter than half of it, that `MAX_REQUEST` is at least half of it (it is the
space less four least chunks), and that stack addresses and the guard are natural numbers; `ProgramAssumption` gives the types of requests,
alignments, batches and limits. No size of a heap, number of blocks or length of a
batch is bounded by them.

The property that a heap is well formed cannot be split into invariants that
hold one by one. A size read from memory is known to be the distance to the next
chunk only where the tags tile the segment; that a neighbour is free can be
believed only where its status bits, the PINUSE bit after it and the word between
them agree; a free chunk can be unlinked only if it is listed under the size its
head gives; and that `free()` leaves no two free neighbours needs that there were
none before. So the inductive invariant `HeapInv` is one conjunction. Its first
part, `Heap`, is about the record `gm`:

* the domain of each field and the place of the break (`Breaking`), which relate the heap to what `sbrk()` gives;
* either nothing was allocated yet (no top chunk, empty bins), or the heap is
  `Grown`: the tags from the segment's base to the fake chunk tile it, agree with
  one another and are merged, and the top chunk ends the segment (`Segment`); the
  bins and the designated victim list each free chunk but the top once under
  its size (`Sound`); the fake chunk and its foot end at the break; the footprint is
  the size of the segment;
* no check has failed (`ok`).

Its second part, `Holds` and `Pending`, relates memory to the program: the
chunks in use are those of the program's blocks and of what `bulk_free()` has
still to free, and no others, each of the size that was asked for or at most
`MIN_CHUNK_SIZE` more.

The argument that a call keeps it follows the C code, with one lemma per function
and one theorem per public call (`MallocKeepsHeap`, `FreeKeepsHeap`,
`ReallocInPlaceKeepsHeap`, `ReallocKeepsHeap`, `MemalignKeepsHeap`,
`ComallocKeepsHeap`, `BulkFreeStepKeepsHeap`). Inside a call the heap is not
sound: a chunk taken from its bin is not yet marked in use, a remainder split off
is not yet listed. `Sound(m, F)` therefore names the set `F` of chunks that are
listed, which between two calls is the set of all free ones (`Grown`).
The macros of `HeapTags` are shown once to make one chunk of a span or to cut it
in two (`Whole`, `Cut`) and to leave all else as it was (`Rewrote`), which keeps
the tiling whatever lies in the span; the functions
are sequences of these. Every runtime check of the code becomes a goal on the
way, which is why `ChecksPass` (`gm.ok` stays TRUE: no
"Aborted" and no failed `assert`) is proved with the rest.

From `HeapInv` follow, for every value of the constants, all invariants of run
`heap` and its siblings but one: `ChecksPass`, `ChunksTile`, `TagsAgree`,
`NeighboursMerged`, `FreeChunksFound`, `ChunksAreBlocks`, `FootprintCounted`,
`HeapTypes`; and `Implements`, the refinement of `AbsHeap`: that a block
malloc returns is disjoint from every live one follows from the tiling, that
others stay from the theorems per call.

The action properties follow from it too:

* `SizesStay`: no call changes the usable size of a block other than its own.
* `BreakMovesByCalls`: every call moves the break as one call of `sbrk()` from
  `Sbrk`, with an increment it admits, or leaves it. Each lemma on a C function
  therefore ends with `Called`, which says where the break may be afterwards, and
  which composes along a call (`CalledTwice`). A call of `sbrk()` that is refused, or
  whose memory is given back within the same call, leaves no trace.
  `BreakStaysInHeap` follows, with `Sbrk`'s own argument, for the break as the allocator moves it.
* `LimitRespected`: the footprint does not grow past the limit. The invariant
  `LimitKept` says that the limit is what was asked for last, rounded. Proving it
  showed a corner: a limit less than a page below the end of the address space
  rounds to 0, which is "no limit", as 0 itself does. `FootprintLimited` says so.
* `FailuresHarmless`: a call that returns NULL leaves every field but the
  permission to extend contiguously.
* `LastResort`: malloc fails, or goes to the system, only when each free chunk,
  the designated victim and the top chunk are too small. It needs that the
  search of the bins finds a chunk when there is one (`NoneFits`, of the lists of
  `FreeLists`) and that `-nb` wraps to more than any remainder (`WordOfNegative`).
* `TrimLeavesRoom`: what `malloc_trim(pad)` leaves on top.

The free lists are those of `FreeLists`, which the linked bins implement.

### The bins

`BinsProofs` proves, for any number of chunks, of treebins and of bits in a word,
that no check of a link fails (`ChecksPass`), that tries stay ordered
(`TriesStayOrdered`), that every chunk is found from its bin (`ChunksFound`), and
that the links implement the lists of `AbsBins` (`LinksImplementLists`): in
particular that the search of `tmalloc_large()`, which looks at one path and one left
spine of a trie, finds the least size that fits in any of them.

Assumed is what holds of the real values. `TreeBinAssumption`: `SMALL_LIMIT` is
`2^TREEBIN_SHIFT`, and half as many powers of two as there are treebins fit in a word
above it (4 + 16 of 60 bits, in granules). `BinsAssumption`: there are finitely many chunks,
none of them a bin's header, sizes are at least a chunk and fit in a word, and what a large
request leaves of a chunk is a size too if it is a chunk (`ChunkSizes` may be all sizes).

None of the properties is inductive alone. Unlinking a chunk from a ring keeps the
rest a ring only if it was one; a trie stays ordered when an inner node is
replaced only because each node agrees with its descendants in the bits above
its depth, which the links do not store; and `TriesOrdered` says nothing of the depth,
on which the walks' ends depend. The inductive invariant `IInv` therefore says
that there are lists `L`, one per size, and depths `dep` of nodes such that

* the links spell the lists: `fd` and `bk` of a small size through the bin's header,
  of a large size around a ring (`ListsOK`);
* the heads of the lists of large sizes are the nodes of the tries, each under a parent
  one level up, on the side its next bit says, and in agreement with it in the
  bits above, at most as deep as a size has bits (`TrieOf`);
* the bitmaps show which bins are not empty (`MarkedSmall`, `Marked`), chunks that
  are no nodes have neither parent nor children (`Bare`), and the cached index is that of
  the size (`Indexed`).

The argument has four parts. Sizes as bits: the bins are intervals of sizes, and two sizes of
a bin compare as their first different bit (`IndexMonotonic`, `AgreeLess`). Tries:
a node may be added where a walk ends, taken where it has no children, and replaced
by any node below it that has none (`TrieAdd`, `TrieTake`, `TrieReplace`).
Macros: each of insertion and removal keeps `Inv` and changes one list by
one chunk (`InsertKeeps`, `UnlinkKeeps`). Searches: what is left of the
path is smaller, what branches off it to the right is larger, and of those the subtree
that branches off last holds the least (`LargeChoice`, `SmallChoice`). The properties and the
refinement are read off `IInv`; the mapping, which spells lists by following links,
gives back `L` (`SpeltIs`).

The walks down a trie and around a ring are recursive functions of the number of
steps. That such a function exists and equals its definition is
`IterationExists`, and what it does at each step is `UpTo`: a set of numbers that holds 0
and with each number the next one, shown with a least counterexample.

### mmap, munmap and the TLS block

The last part of `HeapProofs` carries `HeapInv` over to the composition. `MapInv` adds that every
mapping is one of the program's blocks and starts at a page, that the TLS block is
a block of `TlsSize` and no mapping once the program runs, and that nothing is
mapped or being freed before. `munmap()` frees only a
block that it was given by `mmap()`, and `HeapWithMappings`, `BlocksWithMappings` and
`MappingsAreHeld` follow, and `MapCallsAreExact`: a call of `mmap()` or
`munmap()` creates or frees at most one block, the one it returns or was given, and
one that fails leaves the heap alone. `SizesStayMapped` and `ImplementsMapped` carry
`UsableSizesKept` and `ImplementsAbsHeap` over; the second assumes that mappings
and the TLS block have sizes among `Requests`, because these are the sizes of
`AbsHeap`'s blocks, as they have in the run. `MmapAssumption` says that a page is at least a chunk,
that the granule has an even number of bytes, and that sizes are natural numbers.

### strtod

`StrtodProofs` proves `EveryBigintReturned`: for every numeral, base, precision
and table, `strtod()` returns with each Bigint it took from the pool given back.
The inductive invariant `Owned` says which of its five variables own one at each
label: none before the loop, `bd0` at the top of a turn of the loop, all five from
the comparison in it on, and none again from the end of the loop on. The numeric part is not touched by it and stays with TLC.

### The pool of Bigints

`BignumsProofs` proves `PoolExact` (`PoolStaysExact`), for every word length, number of
pooled classes, size of the private memory and argument: in whatever order a
caller makes numbers, works on them and gives them back, each Bigint is held by the caller, on the
free list of its own class or cached as a power of 5, and in one of these only; no
operation writes beyond the end of a Bigint; and `free()` is given none that lies in the private memory.
`BigintAssumption` asks for a word in which the least cached power of 5 fits;
`BignumsAssumption` gives the types of the arguments and excludes the empty
numeral, which `strtod()` never passes to `s2b()`.

That nothing is written beyond an end needs that a Bigint's class says how many
words it has, and that it uses no more (`IsBigint`): `mult()` and `lshift()` choose the
class of their result by the words of the operands. That nothing is handed out twice needs that no
free list has an element twice or one of another class (`Lists`), and that the lists, the chain
of powers and the numbers in use are apart (`Apart`). `Owned(p, H)` is all of it of a pool `p` of which
the Bigints `H` are in use, and `PoolInv`, the inductive invariant, is `Owned(pool, held)`. It
has `H` as a parameter because an operation uses more Bigints than
its caller sees: a number that grows has two for a while, and a square of `pow5mult()` is
in use before it is cached. Each C function has a lemma that takes `Owned` from one `H` to
another; those that store a result say that it fits the class that was asked for
(`TopIs`, `RowsAre`, `ClassExists`, and `Pow2Steps` for the function of powers of 2).
The loops of `s2b()`, `mult()` and `pow5mult()` are recursive functions of the turn;
for each of them a lemma shows that there is such a function (`ReadingExists`, `RowsExist`,
`TurnsExist`), and a set of turns that holds the first and with each the
next one holds them all (`UpTo`). The words themselves play no part in it.

### What is only model-checked

* `Terminates`: liveness.
* `UsageIsUordblks`: no invariant of the program. `bulk_free()` breaks it (finding 1),
  and it is checked up to the first such call.
* `Canonical` and the refinement of `AbsBigint` by `Bignums`: what carries and borrows
  add up to is an induction over the words of a number. The
  library's induction theorems take an operator, which the installed provers cannot
  instantiate; the way around of `BinsProofs` and `BignumsProofs`, a least counterexample, needs a lemma per
  carry and the laws of powers of `Base`, and has not been taken that far.
* `RoundedAboveLeast`, `EndptrExact`, `ErrnoExact`, `SnprintfExact`, `FpNearlyExact`,
  `StrtolExact` for the same reason; `FmtFp` and `PrintfSpec` are recursive operators.

## Not modelled, and why

* `openlibm/` (40 000 of the 50 000 lines of implementation): third-party code
  without state, whose properties are error bounds over the reals.
* Byte sizes in the allocator: `pad_request`, `calloc`'s product, `ialloc`'s
  sum, alignments that are no power of two, `mallopt`. Single expressions; the
  overflows among them are hazards without a property.
* Segments other than the first, `prepend_alloc`, `add_segment`: they run only
  if something else calls `sbrk()`, which nothing in nolibc does.
* `gethex()`, `hexnan()`, `dtoa()` and its output modes: hexadecimal numerals
  share nothing with the decimal paths; nothing in nolibc calls `dtoa()`.
* `%a`, `%p`, upper case, `FILE`s other than that of `vsnprintf()`; the reading
  of flags and numbers from the characters of a format (the value of a number
  past `INT_MAX` is modelled).
* String functions: pure, each a loop over its arguments.
* Console, clock, exit, stubs, tables, headers: one hypercall, a constant or an
  abort. Build scripts and patches: no run-time state.
* What `strtod()` does when `malloc` fails: `Balloc()` does not look
  (`dtoa.c:1638`), and writes through NULL; there is no promise to check.

## What is left

1. Proofs about `Bignums`: carries, `Canonical`, the refinement of `AbsBigint`.
2. `gethex()` over `Bigint`, and `Balloc` under a failing `malloc`.
3. Segments under a foreign `sbrk()` caller.
