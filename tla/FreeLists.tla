----------------------------- MODULE FreeLists -----------------------------
(***************************************************************************)
(* What the bins of dlmalloc (src/nolibc/dlmalloc.i) hold: a list of free   *)
(* chunks per size, and which of them malloc takes.  Module Bins shows that *)
(* the linked smallbins and treebins of the code implement these lists.     *)
(*                                                                         *)
(* m is a record of which these fields are used here:                      *)
(*   m.bins[s]       the free chunks of size s, the next to be used first  *)
(*   m.dv, m.dvsize  the designated victim, a free chunk in no bin         *)
(*   m.ok            FALSE once a check of the code has failed             *)
(* Sizes are counted in granules of MALLOC_ALIGNMENT = 16 bytes.           *)
(***************************************************************************)
EXTENDS Integers, Sequences

Seqs == INSTANCE SequencesExt

CONSTANTS
  AddrSpace,    (* 2^64 bytes, in granules                                 *)
  MinChunk,     (* MIN_CHUNK_SIZE: 2 granules                              *)
  SmallLimit    (* MIN_LARGE_SIZE: 16 granules; smaller sizes are "small"  *)

ASSUME ListsAssumption ==
  /\ AddrSpace \in Nat /\ MinChunk \in Nat /\ SmallLimit \in Nat
  /\ 0 < MinChunk /\ MinChunk < SmallLimit /\ SmallLimit < AddrSpace

NULL == 0            (* a null chunk pointer *)

(* size_t arithmetic                                                       *)
Word(n) == n % AddrSpace

(* assert() and the RTCHECKs: a failure aborts the program.                *)
Check(m, cond) == IF cond THEN m ELSE [m EXCEPT !.ok = FALSE]

IsSmall(s) == s < SmallLimit

(* insert_chunk: a small chunk goes to the front of its list, a large one  *)
(* to the back of the ring of the tree node of its size: the node is the   *)
(* oldest and the next to be used, its bk follows it, its fd is the newest.*)
InsertChunk(m, p, s) ==
  [Check(m, s >= MinChunk) EXCEPT
     !.bins[s] = IF IsSmall(s) THEN <<p>> \o @ ELSE Append(@, p)]

(* unlink_chunk: the links of p must lead back to it.                      *)
Places(m, p, s) == {i \in DOMAIN m.bins[s] : m.bins[s][i] = p}

UnlinkChunk(m, p, s) ==
  [Check(m, Places(m, p, s) # {}) EXCEPT
     !.bins[s] = IF Places(m, p, s) = {} THEN @
                 ELSE Seqs!RemoveAt(@, CHOOSE i \in Places(m, p, s) : TRUE)]

(* A mutant: the old designated victim is dropped.                          *)
DropDv(m, p, s) == [Check(m, IsSmall(m.dvsize)) EXCEPT !.dvsize = s, !.dv = p]

(* replace_dv: the old designated victim, if any, goes to a smallbin.      *)
BinDv(m) == IF m.dvsize # 0 THEN InsertChunk(m, m.dv, m.dvsize) ELSE m

ReplaceDv(m, p, s) ==
  [BinDv(Check(m, IsSmall(m.dvsize))) EXCEPT !.dvsize = s, !.dv = p]

(* The nonempty lists of small and of large sizes; the smallest of them.   *)
SmallSizes(m) == {s \in DOMAIN m.bins : m.bins[s] # <<>> /\ IsSmall(s)}
TreeSizes(m) == {s \in DOMAIN m.bins : m.bins[s] # <<>> /\ ~IsSmall(s)}
Least(S) == CHOOSE s \in S : \A t \in S : s <= t

(* replace_dv or insert_chunk: what is left at p of a chunk that was split  *)
(* becomes the designated victim after a small request and is binned after *)
(* a large one.                                                            *)
KeepRest(m, nb, p, s) == IF IsSmall(nb) THEN ReplaceDv(m, p, s) ELSE InsertChunk(m, p, s)

-----------------------------------------------------------------------------
(* The choice of a chunk                                                   *)

(* A mutant: tmalloc_large compares remainders as signed numbers, so that a *)
(* dv that is too small seems the better fit.                               *)
SignedBinnedFit(m, nb) ==
  LET small == {s \in SmallSizes(m) : s >= nb}
      large == {s \in TreeSizes(m) : s >= nb}
  IN  IF IsSmall(nb)
      THEN IF nb \in small THEN nb
           ELSE IF nb <= m.dvsize THEN 0
           ELSE IF small # {} THEN Least(small)
           ELSE IF large # {} THEN Least(large) ELSE 0
      ELSE IF large # {} /\ Least(large) - nb < m.dvsize - nb THEN Least(large) ELSE 0

(* The size of the binned chunk to use for nb granules, 0 for none.  A      *)
(* small request takes an exact fit, then a dv that is large enough, then   *)
(* the smallest small and the smallest large chunk (tmalloc_small); a large *)
(* one takes the best fit, unless dv fits better (tmalloc_large, whose      *)
(* unsigned dvsize - nb is huge when dv is too small).                      *)
BinnedFit(m, nb) ==
  LET small == {s \in SmallSizes(m) : s >= nb}
      large == {s \in TreeSizes(m) : s >= nb}
  IN  IF IsSmall(nb)
      THEN IF nb \in small THEN nb
           ELSE IF nb <= m.dvsize THEN 0
           ELSE IF small # {} THEN Least(small)
           ELSE IF large # {} THEN Least(large) ELSE 0
      ELSE IF large # {} /\ Least(large) - nb < Word(m.dvsize - nb)
           THEN Least(large) ELSE 0

=============================================================================
