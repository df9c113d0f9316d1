---------------------------- MODULE MCChatTurns ----------------------------
(* Small instances of ChatTurns. *)
EXTENDS ChatTurns, TLC

CONSTANTS t1, t2, t3, u1, u2

TurnSymmetry == Permutations(Turns)
=============================================================================
