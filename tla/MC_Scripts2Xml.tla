---------------------------- MODULE MC_Scripts2Xml ----------------------------
(* Instantiates Scripts2Xml for TLC: every script of up to three newline- *)
(* ended lines, as a Jython and a Clojure file, with one file name.       *)
EXTENDS Scripts2Xml

CONSTANT F

MCScripts == {[id |-> F, suffix |-> x, lines |-> l] :
                x \in {"py", "clj"}, l \in BoundedSeq(LineTypes, 3)}
=============================================================================
