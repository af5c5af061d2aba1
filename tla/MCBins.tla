------------------------------- MODULE MCBins -------------------------------
(* Bins for TLC: four treebins (8-11, 12-15, 16-23 and all sizes from 24),   *)
(* with chunks that can be told apart by nothing but their size.             *)
EXTENDS Bins, TLC

Symmetry == Permutations(Chunks)
=============================================================================
