--------------------------- MODULE MC_Outline2Xml ---------------------------
(* Instantiates Outline2Xml for TLC.  One base title A gives the titles   *)
(* "A", "A-1" (equal to the identifier uniqueID derives from a repeated   *)
(* "A") and "" (a heading with no text, whose identifier open() drops).   *)
EXTENDS Outline2Xml

CONSTANT A

MCTitles == {<<A>>, <<A, 1>>, <<>>}
=============================================================================
