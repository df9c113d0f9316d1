--------------------------- MODULE MCUsageBilling ---------------------------
(* Small instances of UsageBilling for TLC.                                *)
EXTENDS UsageBilling, TLC

CONSTANTS r1, r2

\* No row, an unlimited allowance, counts and costs.
SmallQuotas ==
  {[kind |-> "none", limit |-> 0], [kind |-> "cost", limit |-> 0], [kind |-> "count", limit |-> 1],
   [kind |-> "cost", limit |-> 2]}

Symmetric == Permutations(Requests)
=============================================================================
