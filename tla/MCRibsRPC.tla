------------------------------ MODULE MCRibsRPC -------------------------------
(* Small instances of RibsRPC for TLC. *)
EXTENDS RibsRPC, TLC
===============================================================================
