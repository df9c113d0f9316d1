--------------------------- MODULE MCTurnControl ---------------------------
(* Small instances of TurnControl. *)
EXTENDS TurnControl
=============================================================================
