------------------------------- MODULE MC_Httpg2 -------------------------------
(* Tests 2 and 10, whose numeric and string orders differ, over two runs. *)
EXTENDS Httpg2

MCTestNumbers == {2, 10}
=============================================================================
