--------------------------- MODULE MCLmdbReaders ---------------------------
(* Instance of LmdbReaders for TLC.                                         *)
EXTENDS LmdbReaders, TLC

ProcSymmetry == Permutations(Proc)
=============================================================================
