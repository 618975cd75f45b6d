----------------------------- MODULE Changes2Xml -----------------------------
(***************************************************************************)
(* The command line of src/documentation/etc/changes2xml.py: every file   *)
(* named on the command line is converted with one XMLOutput("changes")   *)
(* and the result printed.  Each line is quote()d first; a line that then *)
(* starts with "-" is skipped, a line that starts in column 0 with         *)
(* anything but blank or tab is a release heading, and every other line   *)
(* goes to addLine.                                                        *)
(*                                                                         *)
(* A line is abstracted to its class.  findRelease(line), which asks git   *)
(* for a tag and its date, is a lookup whose answer the model chooses: a   *)
(* release tag (a member of Releases) or None, in which case the section   *)
(* identity is "id" and no date attribute is written.  The date of tag t   *)
(* is represented by t itself.                                             *)
(***************************************************************************)
EXTENDS XMLOutput

CONSTANTS
    Releases,   \* the tags findRelease can return
    Names,      \* the headings, line.strip(), a release section is named by
    MaxLines,   \* the number of lines read over the whole run
    MaxDocs     \* the number of files on the command line

ASSUME MaxLines \in Nat /\ MaxDocs \in Nat \ {0}

VARIABLES
    xo,         \* the XMLOutput of the file being converted, with its stack
    phase,      \* "reading" a file, or "printed" its result
    docs,       \* files opened so far
    lines       \* lines read so far

vars == <<xo, phase, docs, lines>>

\* The identity "id" that openSection gets when findRelease returns None.
NoRelease == <<"id">>

\* findRelease: the (tag, date) pair for a heading, or (None, None).
FindRelease == {[tag |-> <<r>>, date |-> r] : r \in Releases}
                 \cup {[tag |-> NoRelease, date |-> NoAttr]}

Init ==
    /\ xo = NewOutput([data |-> <<>>, ids |-> {}, failed |-> FALSE], "changes")
    /\ phase = "reading"
    /\ docs = 1
    /\ lines = 0

ReadLine ==
    /\ phase = "reading"
    /\ ~xo.failed
    /\ lines < MaxLines
    /\ lines' = lines + 1
    /\ UNCHANGED <<phase, docs>>

\* if line[:1] == "-": continue
DashLine ==
    /\ ReadLine
    /\ UNCHANGED xo

\* Mutation-testing variant: the heading closes <changes> as well.
ReleaseClosesAll(name, rel) ==
    /\ ReadLine
    /\ xo' = OpenSection(CloseToDepth(xo, 0), name, rel.tag, NoAttr, rel.date)

\* Mutation-testing variant: the heading does not close the previous
\* release first.
ReleaseWithoutClose(name, rel) ==
    /\ ReadLine
    /\ xo' = OpenSection(xo, name, rel.tag, NoAttr, rel.date)

\* A line starting in column 0: closeToDepth(1), then a section named by
\* the stripped line, with the release tag (or "id") as identity and the
\* tag's date.
Release(name, rel) ==
    /\ ReadLine
    /\ xo' = OpenSection(CloseToDepth(xo, 1), name, rel.tag, NoAttr, rel.date)

\* An indented, blank or empty line: addLine.
Content(kind) ==
    /\ ReadLine
    /\ xo' = AddLine(xo, kind)

\* The end of the file: return output.result(), which is printed.
EndOfFile ==
    /\ phase = "reading"
    /\ ~xo.failed
    /\ xo' = Result(xo)
    /\ phase' = "printed"
    /\ UNCHANGED <<docs, lines>>

\* Mutation-testing variant: "for f in sys.argv:", the script itself
\* converted as one more file.
NextFileFromArgv0 ==
    /\ phase = "printed"
    /\ docs <= MaxDocs
    /\ xo' = NewOutput(xo, "changes")
    /\ phase' = "reading"
    /\ docs' = docs + 1
    /\ UNCHANGED lines

\* The next file of sys.argv gets a new XMLOutput.
NextFile ==
    /\ phase = "printed"
    /\ docs < MaxDocs
    /\ xo' = NewOutput(xo, "changes")
    /\ phase' = "reading"
    /\ docs' = docs + 1
    /\ UNCHANGED lines

\* The process exits after the last file.
Exit ==
    /\ phase = "printed"
    /\ docs = MaxDocs
    /\ UNCHANGED vars

Next ==
    \/ DashLine
    \/ \E n \in Names, rel \in FindRelease : Release(n, rel)
    \/ \E k \in LineKinds : Content(k)
    \/ EndOfFile
    \/ NextFile
    \/ Exit

Spec == Init /\ [][Next]_vars

-----------------------------------------------------------------------------
(* Properties                                                              *)

TypeOK ==
    /\ xo.data \in Seq({"changes", "section", "p", "ul", "li"})
    /\ xo.force \in BOOLEAN
    /\ xo.failed \in BOOLEAN
    /\ phase \in {"reading", "printed"}
    /\ docs \in 1..MaxDocs
    /\ lines \in 0..MaxLines

\* No ElementStack method reads or pops the empty stack: a changes file of
\* any shape is converted without an IndexError.
NoStackUnderflow == ~xo.failed

\* The element each element may be opened in, and the elements text and
\* <br/> may be written in.
AllowedParent == [changes |-> {"none"}, section |-> {"changes", "section"},
                  p |-> {"changes", "section"}, ul |-> {"changes", "section"},
                  li |-> {"ul"}]

\* The markup is valid for the document type: list items only in lists,
\* paragraphs and lists only in a release or before the first one, and
\* every line of text or <br/> in a paragraph or list item.
ValidNesting == WellNested(xo.result, AllowedParent, {"p", "li"})

\* Releases are not nested: every release section is opened directly
\* inside <changes>, whatever lists and paragraphs the previous release
\* left open (closeToDepth(1) before openSection).
ReleasesAtTopLevel ==
    LET O == OpenElements(xo.result)
    IN  \A i \in 1..Len(O) : O[i].tag = "section" => i = 2

\* Every release section of a document has its own identifier, also when
\* several releases have no tag and share the identity "id".
SectionIdsUnique ==
    LET S == SectionEvents(xo.result)
    IN  \A i, j \in 1..Len(S) : i # j => S[i].attrs.id # S[j].attrs.id
=============================================================================
