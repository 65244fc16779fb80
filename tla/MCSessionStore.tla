--------------------------- MODULE MCSessionStore ---------------------------
(* Instances of SessionStore for TLC: two clients of one subnet and an     *)
(* address too short to have one (a client_ip that was never filled in).   *)
EXTENDS SessionStore, TLC

MCIPs == {<<10, 0, 0, 1>>, <<10, 0, 0, 2>>, <<7>>}

(* Calls are interchangeable.                                              *)
RequestSymmetry == Permutations(Requests)
=============================================================================
