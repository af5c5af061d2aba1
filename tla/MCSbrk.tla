------------------------------- MODULE MCSbrk -------------------------------
(* Sbrk on a 6-bit address space: a heap with room for the stack above it,   *)
(* one smaller than the guard, one of a single address, and one that ends    *)
(* just below the end of the address space.                                  *)
EXTENDS Sbrk

MCLayouts == {<<8, 32>>, <<9, 5>>, <<20, 1>>, <<10, 0>>, <<40, 23>>}
MCStackAddrs == {6, 7, 12, 15, 16, 30, 40, 47, 55, 63}
MCIncrements == -31 .. 31

=============================================================================
