------------------------------ MODULE MC_Parallel ------------------------------
(* Instantiates Parallel for TLC.                                          *)
EXTENDS Parallel
=============================================================================
