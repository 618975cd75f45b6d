----------------------------- MODULE Scripts2Xml -----------------------------
(***************************************************************************)
(* src/documentation/etc/scripts2XML.py: scripts2xml(filenames) writes    *)
(* one <script> literal per file into an XMLOutput("scripts").  Script()   *)
(* reads the file, quote()s it (newlines and URLs kept), and takes lines   *)
(* off the front of the text until one is empty after its comment marker  *)
(* is removed; the non-empty ones make the title, the rest of the text is  *)
(* the literal.                                                            *)
(*                                                                         *)
(* A script is abstracted to its name, its suffix and the kinds of its    *)
(* newline-ended lines (text after the last newline can only go to the    *)
(* literal: split("\n", 1) never returns it as a line).  A line is a comment*)
(* with text ("# text" or "; text"), a bare marker ("#"), an empty line or *)
(* code; the title is the sequence of the kinds of the lines it was made   *)
(* from.                                                                   *)
(***************************************************************************)
EXTENDS XMLOutput

CONSTANTS
    Scripts,    \* the scripts a filename can name
    MaxFiles    \* the number of filenames

ASSUME MaxFiles \in Nat

LineTypes == {"comment", "marker", "empty", "code"}

\* What the loop makes of a line: the text after the last comment marker,
\* stripped, or the line itself; "" ends the title.
Piece(kind) == IF kind \in {"marker", "empty"} THEN <<>> ELSE <<kind>>

\* while 1: line, self.text = self.text.split("\n", 1) ...  The unpacking
\* raises ValueError once no newline is left.  Returns the title, or
\* "ValueError".
RECURSIVE TitleLoop(_, _)
TitleLoop(lines, title) ==
    IF lines = <<>> THEN "ValueError"
    ELSE IF Piece(Head(lines)) = <<>> THEN title
    ELSE TitleLoop(Tail(lines), title \o Piece(Head(lines)))

\* Script(filename): the language from the suffix, the title from the loop.
NewScript(sc) ==
    [title    |-> TitleLoop(sc.lines, <<>>),
     language |-> IF sc.suffix = "clj" THEN "clojure" ELSE "jython",
     id       |-> sc.id]

VARIABLES
    xo,         \* output
    files,      \* filenames done
    pc          \* "converting", "printed" or "crashed"

vars == <<xo, files, pc>>

Init ==
    /\ xo = NewOutput([data |-> <<>>, ids |-> {}, failed |-> FALSE], "scripts")
    /\ files = 0
    /\ pc = "converting"

\* Mutation-testing variant: more files converted than were named.
ConvertFileUnbounded(sc) ==
    /\ pc = "converting"
    /\ files' = files + 1
    /\ LET script == NewScript(sc)
       IN  IF script.title = "ValueError"
           THEN pc' = "crashed" /\ UNCHANGED xo
           ELSE /\ xo' = AddLiteral(xo, "script",
                                   [id |-> script.id, title |-> script.title,
                                    language |-> script.language])
                /\ UNCHANGED pc

\* One iteration of the loop of scripts2xml: Script(filename), then
\* addLiteral("script", script.text, id, title, language).  A ValueError
\* of Script() ends the program.
ConvertFile(sc) ==
    /\ pc = "converting"
    /\ files < MaxFiles
    /\ files' = files + 1
    /\ LET script == NewScript(sc)
       IN  IF script.title = "ValueError"
           THEN pc' = "crashed" /\ UNCHANGED xo
           ELSE /\ xo' = AddLiteral(xo, "script",
                                   [id |-> script.id, title |-> script.title,
                                    language |-> script.language])
                /\ UNCHANGED pc

\* return output.result(), printed by the main program.
Finish ==
    /\ pc = "converting"
    /\ xo' = Result(xo)
    /\ pc' = "printed"
    /\ UNCHANGED files

Stopped ==
    /\ pc \in {"printed", "crashed"}
    /\ UNCHANGED vars

Next == (\E sc \in Scripts : ConvertFile(sc)) \/ Finish \/ Stopped

Spec == Init /\ [][Next]_vars

-----------------------------------------------------------------------------
(* Properties                                                              *)

TypeOK ==
    /\ xo.data \in Seq({"scripts", "script"})
    /\ files \in 0..MaxFiles
    /\ pc \in {"converting", "printed", "crashed"}

\* Every script is a literal of its own: a <script> element directly in
\* <scripts>, holding the script's text, with nothing left open between
\* one script and the next.
ValidNesting ==
    WellNested(xo.result, [scripts |-> {"none"}, script |-> {"scripts"}], {"script"})

\* scripts2xml converts every script it is given: Script() returns for
\* each of them, so the document has an element per file.
NoValueError == pc # "crashed"
=============================================================================
