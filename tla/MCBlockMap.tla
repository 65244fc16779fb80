----------------------------- MODULE MCBlockMap -----------------------------
(* Instances of BlockMap for TLC: an address, its reversal, and one that   *)
(* reads the same in both byte orders.                                     *)
EXTENDS BlockMap

MCAddrs == {<<10, 0, 0, 1>>, <<1, 0, 0, 10>>, <<7, 7, 7, 7>>}

(* Addresses whose bytes read the same both ways: byte order plays no part.*)
MCPalindromes == {<<7, 7, 7, 7>>, <<1, 0, 0, 1>>}

MCTTLs == {-3, 0, 2, 15}
=============================================================================
