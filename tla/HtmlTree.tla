------------------------------ MODULE HtmlTree ------------------------------
(***************************************************************************)
(* The tree a page is made of before it is printed.  A text is a sequence  *)
(* of characters; a word that nothing in the code looks into, such as a    *)
(* keyword or the name of a tag, is one character here.                    *)
(***************************************************************************)
EXTENDS Naturals, Sequences

Str(txt)     == [kind |-> "string", txt |-> txt]
Entity(name) == [kind |-> "entity", name |-> name]
SimpleTag(tag, attrs, style) ==
  [kind |-> "simple", tag |-> tag, attrs |-> attrs, style |-> style, body |-> <<>>]
EmptyTag(tag, attrs)       == [kind |-> "empty", tag |-> tag, attrs |-> attrs]
VerbatimTag(tag, source)   == [kind |-> "verbatim", tag |-> tag, attrs |-> <<>>, source |-> source]

\* An attribute; its Optional value is a sequence of at most one text.
Attr(name, value) == [name |-> name, value |-> <<value>>]
BareAttr(name)    == [name |-> name, value |-> <<>>]

AddChild(t, html) == [t EXCEPT !.body = Append(@, html)]
AddAttr(t, attr)  == [t EXCEPT !.attrs = Append(@, attr)]

\* Mutant of AddClass: always an attribute of its own.
AddClassAgain(t, c) == AddAttr(t, Attr("class", c))

\* The class goes into the first attribute "class", or into a new one.
AddClass(t, c) ==
  LET Has(k) == t.attrs[k].name = "class"
  IN IF \E k \in DOMAIN t.attrs : Has(k)
     THEN LET k == CHOOSE k \in DOMAIN t.attrs : Has(k) /\ \A j \in 1 .. k - 1 : ~Has(j)
              longer == t.attrs[k].value[1] \o <<" ">> \o c
          IN [t EXCEPT !.attrs = [@ EXCEPT ![k] = Attr("class", longer)]]
     ELSE AddAttr(t, Attr("class", c))

-----------------------------------------------------------------------------
(* The trees that are made.  Names of tags and attributes are words.  A    *)
(* source is a script or a style sheet, has a line break, and not the text *)
(* </.  (Two more sources are fixed markup in a div, without a script.)    *)

AnyText  == Seq(STRING)
TagName  == STRING \ {"/", ">", "script", "style"}
AttrName == STRING \ {" ", "\n", "indent", ">"}
AttrList == Seq([name : AttrName, value : {<<>>} \cup [1 .. 1 -> AnyText]])
Unclosed == {txt \in AnyText : \A k \in 1 .. Len(txt) - 1 : txt[k] = "<" => txt[k + 1] # "/"}
Source   == {txt \in Unclosed : \E k \in DOMAIN txt : txt[k] = "\n"}

LeafNode ==
  [kind : {"string"}, txt : AnyText] \cup [kind : {"entity"}, name : {"times", "minus"}]
    \cup [kind : {"empty"}, tag : TagName, attrs : AttrList]
    \cup [kind : {"verbatim"}, tag : {"script", "style"}, attrs : {<<>>}, source : Source]
TagOver(nodes) ==
  [kind : {"simple"}, tag : TagName, attrs : AttrList, style : {"block", "flow"}, body : Seq(nodes)]

\* The trees of at most that height.
TreeOf[height \in Nat] ==
  IF height = 0 THEN {} ELSE LeafNode \cup TagOver(TreeOf[height - 1])

=============================================================================
