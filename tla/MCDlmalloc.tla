----------------------------- MODULE MCDlmalloc -----------------------------
(* Small heaps for TLC.  Pages are 8 granules and TOP_FOOT_SIZE is 3 or 4,   *)
(* so that a heap of a few pages sees bins, splits, growth, trimming and     *)
(* exhaustion; MIN_CHUNK_SIZE and CHUNK_OVERHEAD keep their values.          *)
EXTENDS HeapInvariants

NoNumbers == {}
NoBatches == {}
MCBatches == {<<1, 3>>}
=============================================================================
