-------------------------- MODULE MCPaymentOrders --------------------------
(* Small instances of PaymentOrders for TLC.                               *)
EXTENDS PaymentOrders, TLC

CONSTANTS r1, r2, r3
=============================================================================
