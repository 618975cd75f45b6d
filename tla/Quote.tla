-------------------------------- MODULE Quote --------------------------------
(***************************************************************************)
(* quote(line, replaceNewLines, hyperlinks) of                            *)
(* src/documentation/etc/changes2xml.py, applied to every line by          *)
(* changes2xml and outline2xml and to every script by scripts2XML.         *)
(*                                                                         *)
(* A string is a sequence of one-character strings.  str.replace and       *)
(* re.sub are scanners that try the pattern at each position from the left *)
(* and continue after each match, as Python does.  The fixed parts of the *)
(* tracker URLs the rules write are shortened to one character each: "T"  *)
(* for sourceforge.net/tracker/index.php?func=detail, "I" for aid, "G" for *)
(* group_id=18598, "A" and "F" for atid=118598 and atid=368598, "P" and   *)
(* "Q" for sourceforge.net/p/grinder/bugs and .../feature-requests.  Like  *)
(* the text they stand for, they contain no blank, quote, '<' or '&', and  *)
(* no pattern matches inside them.  Every digit is "1".                    *)
(***************************************************************************)
EXTENDS Naturals, Sequences, SequencesExt

Blank == {" ", "\t", "\n"}          \* \s
Digit == {"1"}                      \* \d

HTTP == <<"h", "t", "t", "p", ":", "/", "/">>
AMP  == <<"&", "a", "m", "p", ";">>
LT   == <<"&", "l", "t", ";">>
GT   == <<"&", "g", "t", ";">>
AOpen == <<"<", "a", " ", "h", "r", "e", "f", "=", "\"">>
OpenA(href) == AOpen \o href \o <<"\"", ">">>
CloseA == <<"<", "/", "a", ">">>

\* s[i..] starts with t.
At(s, i, t) == i + Len(t) - 1 <= Len(s) /\ SubSeq(s, i, i + Len(t) - 1) = t

\* The number of characters from s[i] on that are (In) or are not (~In)
\* in the class C.
RECURSIVE RunLen(_, _, _, _)
RunLen(s, i, C, In) ==
    IF i <= Len(s) /\ ((s[i] \in C) = In) THEN 1 + RunLen(s, i + 1, C, In) ELSE 0

\* re.sub and str.replace: MatchLen(s, i) > 0 is the length of the match at
\* i, Repl(s, i) its replacement; the scan resumes after the match.
SubAll(s, MatchLen(_, _), Repl(_, _)) ==
    LET scan[i \in 1..(Len(s) + 1)] ==
          IF i > Len(s) THEN <<>>
          ELSE IF MatchLen(s, i) > 0 THEN Repl(s, i) \o scan[i + MatchLen(s, i)]
          ELSE <<s[i]>> \o scan[i + 1]
    IN  scan[1]

Replace(s, c, r) == SubAll(s, LAMBDA t, i : IF t[i] = c THEN 1 ELSE 0, LAMBDA t, i : r)

\* r"(http://[^\s]*)" -> <a href="\1">\1</a>
UrlLen(s, i) == IF At(s, i, HTTP) THEN Len(HTTP) + RunLen(s, i + Len(HTTP), Blank, FALSE) ELSE 0
UrlLink(s, i) == LET m == SubSeq(s, i, i + UrlLen(s, i) - 1) IN OpenA(m) \o m \o CloseA

\* The two keywords, [Bb]ug and [Rr]equest, with the tracker each links to.
Bug     == [first |-> {"B", "b"}, rest |-> <<"u", "g">>, atid |-> "A", path |-> "P"]
Request == [first |-> {"R", "r"}, rest |-> <<"e", "q", "u", "e", "s", "t">>,
            atid |-> "F", path |-> "Q"]

\* The parts of a match of ([Kk]eyword)\s+(#?\d+) at i: the keyword's
\* length, the blanks, an optional '#' and the digits after it.
Ref(s, i, kw) ==
    LET k  == 1 + Len(kw.rest)
        sp == RunLen(s, i + k, Blank, TRUE)
        h  == IF i + k + sp <= Len(s) /\ s[i + k + sp] = "#" THEN 1 ELSE 0
    IN  [kw |-> s[i] \in kw.first /\ At(s, i + 1, kw.rest), k |-> k, sp |-> sp, h |-> h,
         d |-> RunLen(s, i + k + sp + h, Digit, TRUE),
         d0 |-> RunLen(s, i + k + sp, Digit, TRUE)]

\* ([Kk]eyword)\s+(\d{6,}): greedy, so all the digits.
LongRefLen(s, i, kw) ==
    LET m == Ref(s, i, kw) IN IF m.kw /\ m.sp >= 1 /\ m.d0 >= 6 THEN m.k + m.sp + m.d0 ELSE 0
LongRefLink(s, i, kw) ==
    LET m == Ref(s, i, kw)
        n == SubSeq(s, i + m.k + m.sp, i + LongRefLen(s, i, kw) - 1)
    IN  OpenA(HTTP \o <<"T">> \o AMP \o <<"I", "=">> \o n \o AMP \o <<"G">> \o AMP \o <<kw.atid>>)
          \o SubSeq(s, i, i + m.k - 1) \o <<" ">> \o n \o CloseA

\* Mutation-testing variant: (?!\d) dropped, so a longer number matches
\* in its first five digits.
ShortRefLenNoLookahead(s, i, kw) ==
    LET m == Ref(s, i, kw)
    IN  IF m.kw /\ m.sp >= 1 /\ m.d >= 1
        THEN m.k + m.sp + m.h + (IF m.d > 5 THEN 5 ELSE m.d) ELSE 0

\* ([Kk]eyword)\s+(#?\d{1,5})(?!\d): the digit run after the optional '#'
\* must have 1 to 5 digits; without a digit after it, '#' cannot be
\* skipped, as \d does not match it.
ShortRefLen(s, i, kw) ==
    LET m == Ref(s, i, kw) IN IF m.kw /\ m.sp >= 1 /\ m.d \in 1..5 THEN m.k + m.sp + m.h + m.d ELSE 0
ShortRefLink(s, i, kw) ==
    LET m == Ref(s, i, kw)
        n == SubSeq(s, i + m.k + m.sp, i + ShortRefLen(s, i, kw) - 1)
    IN  OpenA(HTTP \o <<kw.path, "/">> \o n)
          \o SubSeq(s, i, i + m.k - 1) \o <<" ">> \o n \o CloseA

LongRefs(s, kw)  == SubAll(s, LAMBDA t, i : LongRefLen(t, i, kw), LAMBDA t, i : LongRefLink(t, i, kw))
ShortRefs(s, kw) == SubAll(s, LAMBDA t, i : ShortRefLen(t, i, kw), LAMBDA t, i : ShortRefLink(t, i, kw))

\* Mutation-testing variant: '<' escaped before '&'.
EscapeLtFirst(s) == Replace(Replace(Replace(s, "<", LT), "&", AMP), ">", GT)

\* Entity escaping, "&" first.
Escape(s) == Replace(Replace(Replace(s, "&", AMP), "<", LT), ">", GT)

QuoteLine(line, replaceNewLines, hyperlinks) ==
    LET r0 == IF replaceNewLines THEN Replace(line, "\n", <<>>) ELSE line
        r1 == Escape(r0)
        r2 == IF hyperlinks THEN SubAll(r1, UrlLen, UrlLink) ELSE r1
    IN  ShortRefs(ShortRefs(LongRefs(LongRefs(r2, Bug), Request), Bug), Request)

-----------------------------------------------------------------------------
(* Reading the quoted text back as XML content                            *)

\* The character an entity reference at o[i] stands for, or "" if o[i]
\* starts none.
EntityAt(o, i) ==
    CASE At(o, i, AMP) -> <<"&", Len(AMP)>>
      [] At(o, i, LT)  -> <<"<", Len(LT)>>
      [] At(o, i, GT)  -> <<">", Len(GT)>>
      [] OTHER         -> <<"", 0>>

\* An XML reader for what quote() is meant to produce: character data with
\* entity references, and <a href="...">...</a> elements, not nested, whose
\* attribute value holds neither '"' nor '<'.  It returns whether o is
\* such content, its character data and the href values in order.
RECURSIVE Read(_, _, _, _)
Read(o, i, mode, acc) ==
    IF i > Len(o) THEN [acc EXCEPT !.ok = (mode = "text")]
    ELSE LET c == o[i]
             bad == [acc EXCEPT !.ok = FALSE]
         IN  CASE c = "&" ->
                    LET e == EntityAt(o, i)
                    IN  IF e[2] = 0 THEN bad
                        ELSE Read(o, i + e[2], mode,
                                  IF mode = "attr" THEN [acc EXCEPT !.href = Append(@, e[1])]
                                  ELSE [acc EXCEPT !.text = Append(@, e[1])])
               [] mode = "text" /\ At(o, i, AOpen) ->
                    Read(o, i + Len(AOpen), "attr", [acc EXCEPT !.href = <<>>])
               [] mode = "attr" /\ At(o, i, <<"\"", ">">>) ->
                    Read(o, i + 2, "link", [acc EXCEPT !.hrefs = Append(@, acc.href)])
               [] mode = "link" /\ At(o, i, CloseA) -> Read(o, i + Len(CloseA), "text", acc)
               [] c = "<" \/ (mode = "attr" /\ c = "\"") -> bad
               [] mode = "attr" -> Read(o, i + 1, mode, [acc EXCEPT !.href = Append(@, c)])
               [] OTHER -> Read(o, i + 1, mode, [acc EXCEPT !.text = Append(@, c)])

Markup(o) == Read(o, 1, "text", [ok |-> TRUE, text |-> <<>>, href |-> <<>>, hrefs |-> <<>>])

\* Every run of blanks as one blank.
Squeeze(s) == SubAll(s, LAMBDA t, i : RunLen(t, i, Blank, TRUE), LAMBDA t, i : <<" ">>)

-----------------------------------------------------------------------------
(* quote() called on the lines of a file                                   *)

CONSTANTS
    Words,      \* pieces of text, each a sequence of characters
    MaxWords    \* the most pieces a line is made of

\* The lines file.readlines() returns: up to MaxWords pieces and the "\n".
Lines == {FlattenSeq(w) \o <<"\n">> : w \in BoundedSeq(Words, MaxWords)}

VARIABLES
    line,       \* the line read
    quoted,     \* what quote(line) returned
    pc          \* "read" or "quoted"

vars == <<line, quoted, pc>>

Init ==
    /\ line \in Lines
    /\ quoted = <<>>
    /\ pc = "read"

\* Mutation-testing variant: quote(line, replaceNewLines=0).
QuoteCallKeepNewLines ==
    /\ pc = "read"
    /\ quoted' = QuoteLine(line, FALSE, TRUE)
    /\ pc' = "quoted"
    /\ UNCHANGED line

\* line = quote(line) in changes2xml and outline2xml: newlines removed and
\* hyperlinks written.
QuoteCall ==
    /\ pc = "read"
    /\ quoted' = QuoteLine(line, TRUE, TRUE)
    /\ pc' = "quoted"
    /\ UNCHANGED line

\* The converter goes on with the quoted line; nothing more is done to it.
Quoted ==
    /\ pc = "quoted"
    /\ UNCHANGED vars

Next == QuoteCall \/ Quoted

Spec == Init /\ [][Next]_vars
-----------------------------------------------------------------------------
(* Properties                                                              *)

\* The characters of lines and of the markup quote() writes.
Chars == UNION {ToSet(w) : w \in Words} \cup {"\n"}
           \cup ToSet(AOpen \o CloseA \o AMP \o LT \o GT \o HTTP)
           \cup {"T", "I", "G", "A", "F", "P", "Q", "=", "\"", ">"}

\* The quoted line is a line without its newline.
TypeOK ==
    /\ line \in Seq(Chars)
    /\ quoted \in Seq(Chars \ {"\n"})
    /\ pc \in {"read", "quoted"}

\* quote() turns a line into well-formed XML content: '&', '<' and '>' only
\* as entity references, links not nested and their href values free of
\* '<' and '"' (spec 4.2 and 6: escaped text with hyperlink markup).
QuotedIsWellFormed == pc = "quoted" => Markup(quoted).ok

\* The same for a line without a double quote, which quote() leaves as it
\* is and the URL rule takes into the href.  It depends on the order of the
\* steps: entities before the links, the URL rule before the tracker rules
\* (whose links contain "http://"), the long numbers before the short ones,
\* and (?!\d) keeping a short rule out of a long link's text.
WellFormedMarkup == "\"" \notin ToSet(line) => QuotedIsWellFormed

\* Read back as XML, the quoted line has the line's text: every character
\* escaped exactly once (spec 8, round trip), link texts unchanged up to
\* the blanks between keyword and number, which become one.
TextPreserved ==
    pc = "quoted" /\ Markup(quoted).ok =>
        Squeeze(Markup(quoted).text) = Squeeze(SelectSeq(line, LAMBDA c : c # "\n"))

\* A short tracker link points at the issue: its URL ends in the number
\* (spec 8: "Bug 12345" links to the short-form URL for id 12345).
ShortLinksNameIssue ==
    pc = "quoted" =>
        \A k \in 1..Len(Markup(quoted).hrefs) :
            LET h == Markup(quoted).hrefs[k]
            IN  Len(h) > Len(HTTP) + 1 /\ h[Len(HTTP) + 1] \in {"P", "Q"}
                  => ToSet(SubSeq(h, Len(HTTP) + 3, Len(h))) \subseteq Digit

\* A heading's quoted text is safe in open()'s single-quoted name='...'
\* attribute (openSection(line, ...) in changes2xml, openSection(title,
\* ...) in outline2xml): it holds neither an apostrophe nor a '<'.
NameAttributeSafe ==
    pc = "quoted" => {"'", "<"} \cap ToSet(quoted) = {}
=============================================================================
