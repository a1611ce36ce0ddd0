----------------------------- MODULE HtmlWriter -----------------------------
(***************************************************************************)
(* Html::print: the text of a tree of tags.  The recursion of the _print   *)
(* functions is a stack of the tags that are open.  How many blanks a line *)
(* is indented by is left out, that it is indented is not.                 *)
(***************************************************************************)
EXTENDS HtmlTree, SourceLines

CONSTANTS
  FLOW_STYLE,   \* the greatest unsigned, ~0u
  Unprintable   \* the characters isprint rejects

VARIABLES
  html,    \* the tree
  stack,   \* the tags whose children are being printed, innermost first
  out,     \* the text
  writer   \* "ready", "printing", "done", or "aborted" by the assert of print_str

vars == <<html, stack, out, writer>>

Init ==
  /\ stack = <<>>
  /\ out = <<>>
  /\ writer = "ready"

-----------------------------------------------------------------------------
Indent(lvl) == IF lvl \in {0, FLOW_STYLE} THEN <<>> ELSE <<"indent">>
Nl(lvl)     == IF lvl = FLOW_STYLE THEN <<>> ELSE <<"\n">>

\* unsigned arithmetic
Plus2(lvl) == (lvl + 2) % (FLOW_STYLE + 1)

\* Mutant of IncIndent: flow style is a level like all others.
IncIndentAlways(lvl) == Plus2(lvl)

IncIndent(lvl) == IF lvl = FLOW_STYLE THEN FLOW_STYLE ELSE Plus2(lvl)

\* print_str, for one character
Escape(c) ==
  CASE c = "&"  -> <<"&", "amp", ";">>
    [] c = "<"  -> <<"&", "lt", ";">>
    [] c = ">"  -> <<"&", "gt", ";">>
    [] c = "\"" -> <<"&", "quot", ";">>
    [] OTHER    -> <<c>>

PrintStr(txt) == FlattenSeq([k \in DOMAIN txt |-> Escape(txt[k])])

\* Values are printed as they are.
PrintAttr(attr) ==
  IF attr.value = <<>> THEN <<" ", attr.name>>
  ELSE <<" ", attr.name, "=", "\"">> \o attr.value[1] \o <<"\"">>

PrintOpen(t) ==
  <<"<", t.tag>> \o FlattenSeq([k \in DOMAIN t.attrs |-> PrintAttr(t.attrs[k])]) \o <<">">>
PrintClose(t) == <<"<", "/", t.tag, ">">>

OnLine(lvl, text) == Indent(lvl) \o text \o Nl(lvl)

\* The _print functions of the nodes without children.
PrintString(node, lvl) == IF node.txt = <<>> THEN <<>> ELSE OnLine(lvl, PrintStr(node.txt))
PrintEntity(node, lvl) == OnLine(lvl, <<"&", node.name, ";">>)
PrintEmpty(node, lvl)  == OnLine(lvl, PrintOpen(node))

\* LongStringLiteral{_body}.print(OS, indent_lvl + 2); lvl + 2 is never ~0u.
PrintSource(source, lvl) ==
  LET printed == PrintedLines(LinesOf(source), Indent(Plus2(lvl)))
  IN FlattenSeq([k \in DOMAIN printed |-> printed[k] \o <<"\n">>])

PrintVerbatim(node, lvl) ==
  OnLine(lvl, PrintOpen(node)) \o PrintSource(node.source, lvl) \o OnLine(lvl, PrintClose(node))

Leaf(node, lvl) ==
  CASE node.kind = "string"   -> PrintString(node, lvl)
    [] node.kind = "entity"   -> PrintEntity(node, lvl)
    [] node.kind = "empty"    -> PrintEmpty(node, lvl)
    [] node.kind = "verbatim" -> PrintVerbatim(node, lvl)

-----------------------------------------------------------------------------
Top  == stack[1]
Rest == SubSeq(stack, 2, Len(stack))
Node == Top.tag.body[Top.next]

\* SimpleTag::_print: a tag in flow style and all that is in it.
LevelOf(t, lvl) == IF t.style = "flow" THEN FLOW_STYLE ELSE lvl

\* The opening tag is printed, its children come next.
Enter(t, lvl, below) ==
  LET l == LevelOf(t, lvl)
  IN /\ stack' = <<[tag |-> t, lvl |-> l, next |-> 1]>> \o below
     /\ out' = out \o OnLine(l, PrintOpen(t))
     /\ UNCHANGED html

Bump == <<[Top EXCEPT !.next = @ + 1]>> \o Rest

\* print(OS, lvl)
Start(lvl) ==
  /\ writer = "ready"
  /\ Enter(html, lvl, <<>>)
  /\ writer' = "printing"

AtNode == writer = "printing" /\ stack # <<>> /\ Top.next <= Len(Top.tag.body)

\* Mutant of Refused: there is no assert.
RefusedNever == FALSE

Refused == Node.kind = "string" /\ \E k \in DOMAIN Node.txt : Node.txt[k] \in Unprintable

PrintTag ==
  /\ AtNode
  /\ Node.kind = "simple"
  /\ Enter(Node, IncIndent(Top.lvl), Bump)
  /\ UNCHANGED writer

PrintLeaf ==
  /\ AtNode
  /\ Node.kind # "simple"
  /\ ~Refused
  /\ out' = out \o Leaf(Node, IncIndent(Top.lvl))
  /\ stack' = Bump
  /\ UNCHANGED <<html, writer>>

\* print_str meets a character that is not printable: assert(isprint(c)).
AssertFails ==
  /\ AtNode
  /\ Refused
  /\ writer' = "aborted"
  /\ UNCHANGED <<html, stack, out>>

CloseTag ==
  /\ writer = "printing"
  /\ stack # <<>>
  /\ Top.next > Len(Top.tag.body)
  /\ out' = out \o OnLine(Top.lvl, PrintClose(Top.tag))
  /\ stack' = Rest
  /\ writer' = IF Rest = <<>> THEN "done" ELSE "printing"
  /\ UNCHANGED html

Next == PrintTag \/ PrintLeaf \/ AssertFails \/ CloseTag

=============================================================================
