------------------------ MODULE MCContextCompaction ------------------------
(* Small instances of ContextCompaction. *)
EXTENDS ContextCompaction

CONSTANT w1
=============================================================================
