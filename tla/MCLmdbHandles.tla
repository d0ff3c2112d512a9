--------------------------- MODULE MCLmdbHandles ---------------------------
(* LmdbHandles for TLC: the userdata are model values, interchangeable      *)
(* within their kind.                                                       *)
EXTENDS LmdbHandles, TLC

Identities == Permutations(Env) \cup Permutations(Tx) \cup Permutations(Iter)
=============================================================================
