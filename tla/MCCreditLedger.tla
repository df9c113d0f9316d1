--------------------------- MODULE MCCreditLedger ---------------------------
(* A small instance of CreditLedger for TLC.                                *)
EXTENDS CreditLedger, TLC

CONSTANTS u1, u2, k1, k2, g1

\* A setting to lower and to lengthen.
TwoConfigs == {[allowance |-> 2, period |-> 1], [allowance |-> 1, period |-> 2]}

KeyAndUserSymmetry == Permutations(Keys) \cup Permutations(Users)
=============================================================================
