------------------------------- MODULE MC_Jdbc -------------------------------
(* Instantiates Jdbc for TLC with two worker processes.                    *)
EXTENDS Jdbc, TLC

CONSTANTS p1, p2

MCProcs == {p1, p2}
MCSymmetry == Permutations(MCProcs)
=============================================================================
