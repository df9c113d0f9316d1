---------------------------- MODULE OrderPromise ----------------------------
(***************************************************************************)
(* What a payment order promises, whoever calls back how often: it is      *)
(* opened once, what was bought is delivered at most once, from an order   *)
(* that is open or was closed only on this side, and an order that has     *)
(* been delivered or closed never opens again.                             *)
(***************************************************************************)
EXTENDS Naturals

VARIABLES
  state,      \* none, open, parked (closed on this side only), closed, delivered or gone
  delivered   \* how often the entitlement was granted

Init == state = "none" /\ delivered = 0

Open == state = "none" /\ state' = "open" /\ UNCHANGED delivered

Deliver ==
  /\ state \in {"open", "parked"}
  /\ state' = "delivered" /\ delivered' = delivered + 1

Close ==
  /\ state = "open" /\ state' \in {"parked", "closed"}
  /\ UNCHANGED delivered

\* An administrator removes the record of an order that is over.
Forget ==
  /\ state \in {"parked", "closed", "delivered"} /\ state' = "gone"
  /\ UNCHANGED delivered

Next == Open \/ Deliver \/ Close \/ Forget

Spec == Init /\ [][Next]_<<state, delivered>>
=============================================================================
