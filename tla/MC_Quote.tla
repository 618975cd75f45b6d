------------------------------ MODULE MC_Quote ------------------------------
(* Instantiates Quote for TLC.  The pieces a line is made of: the three   *)
(* characters quote() escapes but '>' (escaped as '<' is), an apostrophe  *)
(* and a double quote, a blank, '#', both keywords (one capitalised, one  *)
(* not), a one-digit and a five-digit number (which together make six,    *)
(* the long form) and a URL scheme.                                        *)
EXTENDS Quote

MCWords ==
    { <<"&">>, <<"<">>, <<"'">>, <<"\"">>, <<" ">>, <<"#">>,
      <<"B", "u", "g">>, <<"r", "e", "q", "u", "e", "s", "t">>,
      <<"1">>, <<"1", "1", "1", "1", "1">>, HTTP }
=============================================================================
