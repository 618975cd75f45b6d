------------------------- MODULE MC_ScriptLifecycle -------------------------
(* Two worker threads of two runs each: enough for one thread's read and  *)
(* write of the global to straddle the other's.                           *)
EXTENDS ScriptLifecycle, TLC

CONSTANTS t1, t2

MCThreads == {t1, t2}

MCSymmetry == Permutations(MCThreads)
=============================================================================
