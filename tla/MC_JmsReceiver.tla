---------------------------- MODULE MC_JmsReceiver ----------------------------
(* Two messages per run over three runs, and a sender whose three runs   *)
(* send exactly the six messages they need, so that every run can         *)
(* complete only if nothing sent or delivered is lost.  With two receiver *)
(* threads the sender's runs send exactly what both need.                 *)
EXTENDS JmsReceiver, TLC

CONSTANTS r1, r2

MCOneReceiver == {r1}

MCTwoReceivers == {r1, r2}

MCSymmetry == Permutations(MCTwoReceivers)
=============================================================================
