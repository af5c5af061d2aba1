----------------------------- MODULE MCBignums -----------------------------
(* Big integers of five-bit words for TLC: the constants 5, 25 and 10 fit    *)
(* in a word, and one word holds one decimal digit.                          *)
EXTENDS Bignums

MCNumerals == {<<1, 0, 2, 4>>}
=============================================================================
