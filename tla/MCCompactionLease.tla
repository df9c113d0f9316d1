------------------------- MODULE MCCompactionLease -------------------------
(* A small instance of CompactionLease. *)
EXTENDS CompactionLease, TLC

CONSTANTS w1, w2, c1, c2

WorkerSymmetry == Permutations({w1, w2})
=============================================================================
