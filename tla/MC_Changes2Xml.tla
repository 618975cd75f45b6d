--------------------------- MODULE MC_Changes2Xml ---------------------------
(* Instantiates Changes2Xml for TLC: two release tags, so that two        *)
(* headings can share a tag or both lack one, and one heading name.       *)
EXTENDS Changes2Xml

CONSTANTS R1, R2, H

MCReleases == {R1, R2}
MCNames == {<<H>>}
=============================================================================
