--------------------------------- MODULE MC_Ejb ---------------------------------
(* Two worker threads of two runs each.                                    *)
EXTENDS Ejb, TLC

CONSTANTS t1, t2

MCThreads == {t1, t2}
MCSymmetry == Permutations(MCThreads)
=============================================================================
