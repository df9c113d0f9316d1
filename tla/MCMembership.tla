---------------------------- MODULE MCMembership ----------------------------
(* A small instance of Membership. *)
EXTENDS Membership, TLC

CONSTANTS u1, free, pro, max, c1, c2, o1, r1, r2

\* A one-slot code for a finite window and one for credits.
OneSlotEach == [c \in {c1, c2} |->
  IF c = c1 THEN [kind |-> "group", group |-> pro, duration |-> 1, maxUses |-> 1]
  ELSE [kind |-> "credits", group |-> free, duration |-> 0, maxUses |-> 1]]

Symmetry == Permutations({r1, r2})
=============================================================================
