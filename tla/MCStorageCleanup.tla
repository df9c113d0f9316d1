-------------------------- MODULE MCStorageCleanup --------------------------
(* A small instance of StorageCleanup for TLC.                             *)
EXTENDS StorageCleanup

CONSTANTS c1, c2, p1, p2, d1, kb
=============================================================================
