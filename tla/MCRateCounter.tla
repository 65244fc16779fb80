---------------------------- MODULE MCRateCounter ----------------------------
(* An instance of RateCounter for TLC: a short and a longer window.        *)
EXTENDS RateCounter, TLC

MCWindows == <<1, 3>>

Symmetry == Permutations(Workers)
==============================================================================
