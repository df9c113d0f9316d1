----------------------------- MODULE MCSessions -----------------------------
(* Small instances of Sessions for TLC.                                    *)
EXTENDS Sessions, TLC

CONSTANTS r1, r2, j1, j2, k1, l1

\* Nothing tells two requests or two tokens apart.
Symmetric == Permutations(Requests) \cup Permutations(Jtis)
=============================================================================
