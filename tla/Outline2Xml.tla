----------------------------- MODULE Outline2Xml -----------------------------
(***************************************************************************)
(* The command line of src/documentation/etc/outline2xml.py: every file   *)
(* named on the command line is read line by line and converted with one  *)
(* XMLOutput("todo"), whose result is printed before the next file is      *)
(* opened.  A line's text is abstracted to its class; a heading line to    *)
(* its marker count and its title.                                         *)
(***************************************************************************)
EXTENDS XMLOutput

CONSTANTS
    Titles,     \* the titles line[depth:].strip() can yield
    MaxDepth,   \* the largest number of leading '*' on a heading
    MaxLines,   \* the number of lines read over the whole run
    MaxDocs     \* the number of files on the command line

ASSUME MaxDepth \in Nat \ {0} /\ MaxLines \in Nat /\ MaxDocs \in Nat \ {0}

VARIABLES
    xo,         \* the XMLOutput of the file being converted, with its stack
    phase,      \* "reading" a file, or "printed" its result
    docs,       \* files opened so far
    lines,      \* lines read so far
    last        \* the class of the last line read (history, for properties)

vars == <<xo, phase, docs, lines, last>>

Init ==
    /\ xo = NewOutput([data |-> <<>>, ids |-> {}, failed |-> FALSE], "todo")
    /\ phase = "reading"
    /\ docs = 1
    /\ lines = 0
    /\ last = "none"

ReadLine ==
    /\ phase = "reading"
    /\ ~xo.failed
    /\ lines < MaxLines
    /\ lines' = lines + 1
    /\ UNCHANGED <<phase, docs>>

\* if line[:3] == "-*-": continue
ModeLine ==
    /\ ReadLine
    /\ last' = "mode"
    /\ UNCHANGED xo

\* Mutation-testing variant: closes one level too many.
HeadingAboveDepth(depth, title) ==
    /\ ReadLine
    /\ xo' = OpenSection(CloseToDepth(xo, depth - 1), title, title, depth, NoAttr)
    /\ last' = "heading"

\* A line starting with depth '*' characters followed by a title.
Heading(depth, title) ==
    /\ ReadLine
    /\ xo' = OpenSection(CloseToDepth(xo, depth), title, title, depth, NoAttr)
    /\ last' = "heading"

\* Any other line goes to addLine.
Content(kind) ==
    /\ ReadLine
    /\ xo' = AddLine(xo, kind)
    /\ last' = kind

\* End of file: print outline2xml(...) prints output.result().
EndOfFile ==
    /\ phase = "reading"
    /\ ~xo.failed
    /\ xo' = Result(xo)
    /\ phase' = "printed"
    /\ last' = "eof"
    /\ UNCHANGED <<docs, lines>>

\* Mutation-testing variant: "for f in sys.argv:", the script itself
\* converted as one more file.
NextFileFromArgv0 ==
    /\ phase = "printed"
    /\ docs <= MaxDocs
    /\ xo' = NewOutput(xo, "todo")
    /\ phase' = "reading"
    /\ docs' = docs + 1
    /\ last' = "none"
    /\ UNCHANGED lines

\* The next file of sys.argv gets a new XMLOutput.
NextFile ==
    /\ phase = "printed"
    /\ docs < MaxDocs
    /\ xo' = NewOutput(xo, "todo")
    /\ phase' = "reading"
    /\ docs' = docs + 1
    /\ last' = "none"
    /\ UNCHANGED lines

\* The process exits after the last file.
Exit ==
    /\ phase = "printed"
    /\ docs = MaxDocs
    /\ UNCHANGED vars

Next ==
    \/ ModeLine
    \/ \E d \in 1..MaxDepth, t \in Titles : Heading(d, t)
    \/ \E k \in LineKinds : Content(k)
    \/ EndOfFile
    \/ NextFile
    \/ Exit

Spec == Init /\ [][Next]_vars

-----------------------------------------------------------------------------
(* Properties                                                              *)

Tags == {"todo", "section", "p", "ul", "li"}

TypeOK ==
    /\ xo.data \in Seq(Tags)
    /\ xo.force \in BOOLEAN
    /\ xo.failed \in BOOLEAN
    /\ \A i \in 1..Len(xo.result) : xo.result[i].ev \in {"open", "close", "text", "br"}
    /\ phase \in {"reading", "printed"}
    /\ docs \in 1..MaxDocs
    /\ lines \in 0..MaxLines

\* The stack discipline of ElementStack: no method ever reads or pops the
\* empty stack (_data[-1] in ensureOpen/perhapsClose, pop in close), which
\* would abort the conversion with an IndexError.  It holds only because
\* closeToDepth never goes below the top-level element until result().
NoStackUnderflow == ~xo.failed

\* The element each element may be opened in, and the elements text and
\* <br/> may be written in.
AllowedParent == [todo |-> {"none"}, section |-> {"todo", "section"}, p |-> {"todo", "section"},
                  ul |-> {"todo", "section"}, li |-> {"ul"}]
TextContainers == {"p", "li"}

\* The markup written so far is valid for the document type: a list item
\* only in a list, paragraphs and lists only in a section or at top level,
\* a section only in a section or at top level, and every line of text or
\* <br/> inside a paragraph or list item.  Which element a line lands in
\* depends on the pending-paragraph flag, the order in which perhapsClose
\* tries its tags, and closeToDepth leaving a list or paragraph open.
ValidNesting == WellNested(xo.result, AllowedParent, TextContainers)

\* Consecutive list-item lines are items of one list: a list item read
\* straight after another never opens a new <ul>.
NewEvents == SubSeq(xo.result', Len(xo.result) + 1, Len(xo.result'))
ConsecutiveItemsShareList ==
    [][last = "item" /\ last' = "item" =>
         \A i \in 1..Len(NewEvents) : NewEvents[i] # Event("open", "ul", NoAttrs)]_vars

\* Every section of a document has its own identifier (uniqueID, even when
\* a title is literally another title's suffixed identifier).
SectionIdsUnique ==
    LET S == SectionEvents(xo.result)
    IN  \A i, j \in 1..Len(S) :
          i # j /\ S[i].attrs.id # NoAttr => S[i].attrs.id # S[j].attrs.id

\* Section identifiers depend on the document alone: they are those a
\* fresh identifier table gives the document's titles (spec, section 5).
SectionIdsPerDocument ==
    LET S == SectionEvents(xo.result)
        Title(e) == IF e.attrs.name = NoAttr THEN <<>> ELSE e.attrs.name
        Fresh == FreshIds([i \in 1..Len(S) |-> Title(S[i])])
    IN  \A i \in 1..Len(S) :
          S[i].attrs.id = IF Truthy(Fresh[i]) THEN Fresh[i] ELSE NoAttr

\* A heading closes the sections of its own depth or deeper: open
\* sections are nested with strictly increasing depth (spec, section 3).
SectionsNestByDepth ==
    LET S == SelectSeq(OpenElements(xo.result), LAMBDA e : e.tag = "section")
    IN  \A i \in 1..(Len(S) - 1) : S[i].attrs.depth < S[i + 1].attrs.depth

\* A quoted line closes a dangling list item before its <br/> (spec 4.2):
\* no <br/> is written inside a list item.
QuoteClosesListItem ==
    LET Step(acc, e) ==
          CASE e.ev = "open"  -> [acc EXCEPT !.st = Append(@, e.tag)]
            [] e.ev = "close" -> [acc EXCEPT !.st = Front(@)]
            [] e.ev = "br"    -> [acc EXCEPT !.ok = @ /\ Last(acc.st) # "li"]
            [] OTHER -> acc
    IN  FoldLeft(Step, [st |-> <<>>, ok |-> TRUE], xo.result).ok
=============================================================================
