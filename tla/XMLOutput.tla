------------------------------ MODULE XMLOutput ------------------------------
(***************************************************************************)
(* The markup builder of src/documentation/etc/changes2xml.py: the classes *)
(* ElementStack and XMLOutput, shared by changes2xml, outline2xml and      *)
(* scripts2XML.                                                            *)
(*                                                                         *)
(* Every method is a pure operator on the builder's state, a record       *)
(*   data   - ElementStack._data: the open tags, innermost last            *)
(*   result - XMLOutput._result, as the sequence of markup events it       *)
(*            serialises (open, close, text, <br/>); the characters, the   *)
(*            XML header and the trailing spaces are left out              *)
(*   force  - XMLOutput._forceParagraph                                    *)
(*   ids    - the keys of XMLOutput._ids                                   *)
(*   failed - an IndexError (from _data[-1] or _data.pop()) has escaped;   *)
(*            the conversion is then abandoned                             *)
(* Every ElementStack call site appends the returned string to _result at *)
(* once, so a stack operation and the append are one operator here.       *)
(*                                                                         *)
(* Identifiers and titles are sequences: a base name (a model value)      *)
(* followed by the numbers "%s-%d" appended to it, so that the title       *)
(* "a-1" and the suffixed identifier of "a" are the same value, as the     *)
(* strings are.                                                            *)
(***************************************************************************)
EXTENDS Naturals, Sequences, SequencesExt

CONSTANT NoAttr   \* an attribute whose value is None

\* open() writes an attribute only when its value is truthy.
Truthy(v) == v # NoAttr /\ v # <<>>

Attrs(name, id, depth, date) ==
    [name  |-> IF Truthy(name) THEN name ELSE NoAttr,
     id    |-> IF Truthy(id) THEN id ELSE NoAttr,
     depth |-> depth,
     date  |-> date]

NoAttrs == Attrs(NoAttr, NoAttr, NoAttr, NoAttr)

Event(ev, tag, attrs) == [ev |-> ev, tag |-> tag, attrs |-> attrs]

Fail(s) == [s EXCEPT !.failed = TRUE]

\* Appends text (or a <br/>) to _result.
Emit(s, ev, kind) ==
    IF s.failed THEN s
    ELSE [s EXCEPT !.result = Append(@, Event(ev, kind, NoAttrs))]

-----------------------------------------------------------------------------
(* ElementStack                                                            *)

Open(s, tag, attrs) ==
    IF s.failed THEN s
    ELSE [s EXCEPT !.data = Append(@, tag),
                   !.result = Append(@, Event("open", tag, attrs))]

Close(s) ==
    IF s.failed THEN s
    ELSE IF s.data = <<>> THEN Fail(s)
    ELSE [s EXCEPT !.data = Front(@),
                   !.result = Append(@, Event("close", Last(s.data), NoAttrs))]

EnsureOpen(s, tag) ==
    IF s.failed THEN s
    ELSE IF s.data = <<>> THEN Fail(s)
    ELSE IF Last(s.data) # tag THEN Open(s, tag, NoAttrs)
    ELSE s

\* The tags are tried in the order given, each against the stack as the
\* previous one left it.  A Python string passed as tagList is iterated
\* character by character, so the caller passes its characters.
PerhapsClose(s, tagList) ==
    LET Step(acc, t) ==
          IF acc.failed THEN acc
          ELSE IF acc.data = <<>> THEN Fail(acc)
          ELSE IF Last(acc.data) = t THEN Close(acc)
          ELSE acc
    IN  FoldLeft(Step, s, tagList)

Depth(s) == Len(s.data)

-----------------------------------------------------------------------------
(* XMLOutput                                                               *)

\* __init__: the class-level stack and id table are shared by every
\* instance; _forceParagraph and _result start from the class values.
NewOutput(shared, topLevelTag) ==
    Open([data |-> shared.data, result |-> <<>>, force |-> TRUE,
          ids |-> shared.ids, failed |-> shared.failed],
         topLevelTag, NoAttrs)

\* The line classes addLine tells apart, after strip().
LineKinds == {"blank", "item", "quote", "plain"}

\* The pending paragraph opened by the first line after a blank line.
StartParagraph(s) ==
    EnsureOpen(PerhapsClose([s EXCEPT !.force = FALSE], <<"li", "ul", "p">>), "p")

\* Mutation-testing variants of AddItem (not part of the model): one that
\* leaves an open paragraph around the list, one that closes the list.
AddItemListInParagraph(s) ==
    Emit(EnsureOpen(EnsureOpen(PerhapsClose(s, <<"li">>), "ul"), "li"), "text", "item")
AddItemClosesList(s) ==
    Emit(EnsureOpen(EnsureOpen(PerhapsClose(s, <<"li", "ul", "p">>), "ul"), "li"),
         "text", "item")

\* A line starting with "- ".
AddItem(s) ==
    Emit(EnsureOpen(EnsureOpen(PerhapsClose(s, <<"li", "p">>), "ul"), "li"), "text", "item")

\* A line starting with "&gt;".  perhapsClose(("li")) is given the string
\* "li", not a one-element tuple.
AddQuote(s) ==
    Emit(Emit(PerhapsClose(s, <<"l", "i">>), "br", "br"), "text", "quote")

AddLine(s, kind) ==
    IF s.failed THEN s
    ELSE IF kind = "blank" THEN [s EXCEPT !.force = TRUE]
    ELSE LET s1 == IF s.force THEN StartParagraph(s) ELSE s
         IN  CASE kind = "item"  -> AddItem(s1)
               [] kind = "quote" -> AddQuote(s1)
               [] kind = "plain" -> Emit(s1, "text", "plain")

\* Mutation-testing variant: the element is left open.
AddLiteralNoClose(s, element, attrs) == Emit(Open(s, element, attrs), "text", "literal")

\* addLiteral: the element, the text as it is, and the element closed.
AddLiteral(s, element, attrs) == Close(Emit(Open(s, element, attrs), "text", "literal"))

\* range(depth, self._stack.depth()) is evaluated once, so exactly
\* Depth(s) - depth elements are closed, innermost first.
CloseToDepth(s, depth) ==
    IF s.failed \/ Depth(s) <= depth THEN s
    ELSE [s EXCEPT !.data = SubSeq(@, 1, depth),
                   !.result = @ \o [i \in 1..(Depth(s) - depth) |->
                                      Event("close", s.data[Depth(s) + 1 - i],
                                            NoAttrs)]]

IdWithSuffix(x, i) == IF i = 0 THEN x ELSE Append(x, i)

\* Mutation-testing variant: one suffix tried instead of a loop.
UniqueIDOnce(ids, x) == IF x \in ids THEN Append(x, 1) ELSE x

\* uniqueID: the first of x, x-1, x-2, ... not in the table.
UniqueID(ids, x) ==
    LET RECURSIVE Try(_)
        Try(i) == IF IdWithSuffix(x, i) \in ids THEN Try(i + 1)
                  ELSE IdWithSuffix(x, i)
    IN  Try(0)

\* openSection; perhapsClose runs before uniqueID, which records the id.
OpenSection(s, name, identity, depth, date) ==
    LET s1 == PerhapsClose(s, <<"li", "ul", "p">>)
        id == UniqueID(s1.ids, identity)
    IN  IF s1.failed THEN s1
        ELSE [Open([s1 EXCEPT !.ids = @ \cup {id}], "section",
                   Attrs(name, id, depth, date))
              EXCEPT !.force = TRUE]

\* Mutation-testing variant: the top-level element is left open.
ResultKeepsTop(s) == CloseToDepth(s, 1)

\* result(): closeToDepth(0).
Result(s) == CloseToDepth(s, 0)

-----------------------------------------------------------------------------
(* Reading the markup back                                                 *)

\* The open events not yet closed, outermost first, replaying result.
OpenElements(result) ==
    LET Step(st, e) == CASE e.ev = "open"  -> Append(st, e)
                         [] e.ev = "close" -> Front(st)
                         [] OTHER          -> st
    IN  FoldLeft(Step, <<>>, result)

\* Every element of result is opened in an element Parent allows for its
\* tag ("none" at top level), and every text and <br/> is written inside
\* one of Containers.
WellNested(result, Parent, Containers) ==
    LET Step(acc, e) ==
          LET top == IF acc.st = <<>> THEN "none" ELSE Last(acc.st)
          IN  CASE e.ev = "open" ->
                     [st |-> Append(acc.st, e.tag),
                      ok |-> acc.ok /\ top \in Parent[e.tag]]
                [] e.ev = "close" -> [acc EXCEPT !.st = Front(@)]
                [] OTHER -> [acc EXCEPT !.ok = @ /\ top \in Containers]
    IN  FoldLeft(Step, [st |-> <<>>, ok |-> TRUE], result).ok

SectionEvents(result) ==
    SelectSeq(result, LAMBDA e : e.ev = "open" /\ e.tag = "section")

\* The identifiers a fresh table hands out for the given identities.
FreshIds(identities) ==
    LET Step(acc, x) == LET id == UniqueID(acc.ids, x)
                        IN  [ids |-> acc.ids \cup {id}, out |-> Append(acc.out, id)]
    IN  FoldLeft(Step, [ids |-> {}, out |-> <<>>], identities).out
=============================================================================
