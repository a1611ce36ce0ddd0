---------------------------- MODULE HtmlBrowser ----------------------------
(***************************************************************************)
(* What a browser makes of the text of a page: the tokenizer of HTML, as   *)
(* far as the page needs it.  Not part of the program.  Blanks in a row    *)
(* are one, as in the browser; entities in values are not looked at.       *)
(***************************************************************************)
EXTENDS SequencesExt

Blank == {" ", "\n", "indent"}

Decoded(name) ==
  CASE name = "amp"   -> "&"
    [] name = "lt"    -> "<"
    [] name = "gt"    -> ">"
    [] name = "quot"  -> "\""
    [] name = "times" -> "TIMES"
    [] name = "minus" -> "MINUS"
EntityNames == {"amp", "lt", "gt", "quot", "times", "minus"}

\* What is seen: <<"text", c>>, <<"blank">>, <<"open", tag, attrs>>, <<"close", tag>>.
See(seen, event) ==
  IF event = <<"blank">> /\ seen # <<>> /\ Last(seen) = event THEN seen ELSE Append(seen, event)

Char(s, c) == [s EXCEPT !.seen = See(@, IF c \in Blank THEN <<"blank">> ELSE <<"text", c>>)]

\* Of two attributes with one name the second is ignored.
Kept(attrs) ==
  LET First(k) == \A j \in 1 .. k - 1 : attrs[j].name # attrs[k].name
  IN FlattenSeq([k \in DOMAIN attrs |-> IF First(k) THEN <<attrs[k]>> ELSE <<>>])

\* > at the end of an opening tag
Open(s) ==
  [s EXCEPT !.seen = See(@, <<"open", s.tag, Kept(s.attrs)>>),
            !.mode = IF s.tag \in {"script", "style"} THEN "raw" ELSE "data",
            !.attrs = <<>>]

\* The last attribute becomes that one.
WithLast(s, name, value) ==
  [s EXCEPT !.attrs = Append(Front(@), [name |-> name, value |-> value])]

\* The token goes to the name or the value of the last attribute.
ToName(s, c)  == WithLast(s, Append(Last(s.attrs).name, c), Last(s.attrs).value)
ToValue(s, c) == WithLast(s, Last(s.attrs).name, <<Append(Last(s.attrs).value[1], c)>>)
NoText(s)     == WithLast(s, Last(s.attrs).name, <<<<>>>>)

InData(s, c) ==
  CASE c = "<" -> [s EXCEPT !.mode = "tag"]
    [] c = "&" -> [s EXCEPT !.mode = "entity", !.tag = ""]
    [] OTHER   -> Char(s, c)

InEntity(s, c) ==
  LET text == [s EXCEPT !.mode = "data"]
      amp  == IF s.tag = "" THEN Char(text, "&") ELSE Char(Char(text, "&"), s.tag)
  IN IF s.tag = "" /\ c \in EntityNames THEN [s EXCEPT !.tag = c]
     ELSE IF s.tag # "" /\ c = ";" THEN Char(text, Decoded(s.tag))
     ELSE InData(amp, c)

InTag(s, c) ==
  IF c = "/" THEN [s EXCEPT !.mode = "close"] ELSE [s EXCEPT !.mode = "attrs", !.tag = c]

InClose(s, c) ==
  IF c = ">" THEN [s EXCEPT !.mode = "data", !.seen = See(@, <<"close", s.tag>>)]
  ELSE [s EXCEPT !.tag = c]

InAttrs(s, c) ==
  CASE c = ">"       -> Open(s)
    [] c \in Blank   -> s
    [] OTHER         -> [s EXCEPT !.mode = "name",
                                  !.attrs = Append(@, [name |-> <<c>>, value |-> <<>>])]

InName(s, c) ==
  CASE c = ">"       -> Open(s)
    [] c \in Blank   -> [s EXCEPT !.mode = "attrs"]
    [] c = "="       -> [NoText(s) EXCEPT !.mode = "before"]
    [] OTHER         -> ToName(s, c)

\* A value without quotes ends at a blank or with the tag.
InBare(s, c) ==
  CASE c = ">"     -> Open(s)
    [] c \in Blank -> [s EXCEPT !.mode = "attrs"]
    [] OTHER       -> [ToValue(s, c) EXCEPT !.mode = "bare"]

BeforeValue(s, c) == IF c = "\"" THEN [s EXCEPT !.mode = "value"] ELSE InBare(s, c)
InValue(s, c)     == IF c = "\"" THEN [s EXCEPT !.mode = "attrs"] ELSE ToValue(s, c)

\* Text of a script or style sheet; only </ ends it.
InRaw(s, c)   == IF c = "<" THEN [s EXCEPT !.mode = "rawtag"] ELSE Char(s, c)
InRawTag(s, c) ==
  IF c = "/" THEN [s EXCEPT !.mode = "close"]
  ELSE InRaw(Char([s EXCEPT !.mode = "raw"], "<"), c)

Token(s, c) ==
  CASE s.mode = "data"   -> InData(s, c)
    [] s.mode = "entity" -> InEntity(s, c)
    [] s.mode = "tag"    -> InTag(s, c)
    [] s.mode = "close"  -> InClose(s, c)
    [] s.mode = "attrs"  -> InAttrs(s, c)
    [] s.mode = "name"   -> InName(s, c)
    [] s.mode = "before" -> BeforeValue(s, c)
    [] s.mode = "bare"   -> InBare(s, c)
    [] s.mode = "value"  -> InValue(s, c)
    [] s.mode = "raw"    -> InRaw(s, c)
    [] s.mode = "rawtag" -> InRawTag(s, c)

EmptyPage == [mode |-> "data", tag |-> "", attrs |-> <<>>, seen |-> <<>>]

=============================================================================
