---------------------------- MODULE MCSessionQueue ----------------------------
(* TLC instances of SessionQueue: the bounds and the failures are in the .cfg files. *)
EXTENDS SessionQueue
=============================================================================
