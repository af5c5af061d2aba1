------------------------------- MODULE MCMmap -------------------------------
(* The heap of MCDlmalloc with mappings and a TLS block in it.              *)
EXTENDS Mmap

NoNumbers == {}
NoBatches == {}
MCBatches == {<<1, 3>>}
=============================================================================
