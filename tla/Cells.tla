------------------------------- MODULE Cells -------------------------------
(***************************************************************************)
(* From LLVM to the eye: the renderers make a tree of a row, the tree is   *)
(* printed as a part of the page, and a browser shows the text.  A job of  *)
(* kind "tree" is any other tree, given to the writer as it is.            *)
(***************************************************************************)
EXTENDS HtmlBrowser, HtmlTree, IrValues, SourceLines

CONSTANTS
  Jobs,                             \* the rows to make, and the trees to print
  MdOperands, StackMax,             \* of CellRenderer
  FLOW_STYLE, Unprintable           \* of HtmlWriter

\* <html>, <body>, a function, its code, the table and the block are around a row.
RowLevel == 12

\* The stack is full long before a column is as great as ~0u.
ASSUME StackAssumption ==
  /\ StackMax \in Nat \ {0}
  /\ FLOW_STYLE \in Nat /\ RowLevel + 2 * (StackMax + 2) < FLOW_STYLE

\* The words the renderers and the printer put into a page are strings.
OwnWords ==
  {"<", ">", "/", "&", ";", "=", "\"", " ", "\n", "indent", "amp", "lt", "gt", "quot", "times",
   "minus", "TIMES", "MINUS", "script", "style", "div", "span", "a", "br", "tr", "td", "th", "title",
   "href", "class", "id", "colspan", "3", "#", "instruction", "loop-1-even", ", ", "(", ")", "{", "}",
   "(trunc", "(sext", "(zext", " to ", "sizeof(", "alignof(", "offsetof(", " + ", " * ", " smax ",
   " umax ", "/u", " ,+, ", "nuw", "nsw", "nw", "null", " -> "}
ASSUME WordsAssumption == OwnWords \subseteq STRING

\* One tag is in another for each call that is made from another.
Height == StackMax + 2

IsTreeJob(j) == j.kind = "tree" /\ j.tree \in TreeOf[Height] /\ j.tree.kind = "simple"
Instruction ==
  [kind : {"instruction"}, id : AnyText, name : AnyText, type : AnyText, opcode : STRING,
   operands : Seq(AnyValue), scev : Seq(ScevOf[StackMax]),
   metadata : Seq([kind : STRING, node : DOMAIN MdOperands])]
BlockList == [kind : {"blocks"}, label : AnyText, blocks : Seq(AnyValue)]

ASSUME JobsAssumption ==
  \A j \in Jobs : IsTreeJob(j) \/ j \in Instruction \cup BlockList
ASSUME MetadataAssumption ==
  \A n \in DOMAIN MdOperands : MdOperands[n] \in Seq(MetadataOver(DOMAIN MdOperands))

VARIABLES
  job, frames, html, renderer,  \* of CellRenderer
  stack, out, writer,           \* of HtmlWriter
  browser, pos                  \* what a browser has made of the text up to pos

vars == <<job, frames, html, renderer, stack, out, writer, browser, pos>>

R == INSTANCE CellRenderer
W == INSTANCE HtmlWriter

Init ==
  /\ job \in Jobs
  /\ html = IF job.kind = "tree" THEN job.tree ELSE R!Div("block")
  /\ R!Init
  /\ W!Init
  /\ browser = EmptyPage
  /\ pos = 0

Render == R!Next /\ UNCHANGED <<stack, out, writer, browser, pos>>
WriteRow ==
  /\ UNCHANGED <<job, frames, renderer, browser, pos>>
  /\ \/ (renderer = "done" \/ job.kind = "tree") /\ W!Start(RowLevel)
     \/ W!Next

\* The page is opened in a browser.
Browse ==
  /\ writer = "done"
  /\ pos < Len(out)
  /\ browser' = Token(browser, out[pos + 1])
  /\ pos' = pos + 1
  /\ UNCHANGED <<job, frames, html, renderer, stack, out, writer>>

Next == Render \/ WriteRow \/ Browse

Spec     == Init /\ [][Next]_vars
\* One thread, and nothing to wait for.
FairSpec == Spec /\ WF_vars(Next)

Shown == writer = "done" /\ pos = Len(out)

-----------------------------------------------------------------------------
(* What a tree should look like.                                           *)

ShownAttrs(node) ==
  Kept([k \in DOMAIN node.attrs |->
          [name |-> <<node.attrs[k].name>>, value |-> node.attrs[k].value]])
Opening(node) == <<"open", node.tag, ShownAttrs(node)>>

\* All nodes of a tree.
Nodes(node) ==
  LET level[k \in 0 .. Height - 1] ==
        IF k = 0 THEN {node}
        ELSE UNION {ToSet(n.body) : n \in {n \in level[k - 1] : n.kind = "simple"}}
  IN UNION {level[k] : k \in 0 .. Height - 1}

Body(node)         == IF node.kind = "simple" THEN node.body ELSE <<>>
InFlow(node, flow) == flow \/ (node.kind = "simple" /\ node.style = "flow")

Chars(txt) ==
  [k \in DOMAIN txt |-> IF txt[k] \in Blank THEN <<"blank">> ELSE <<"text", txt[k]>>]

\* Between blanks, if not inside a tag in flow style.
Line(part, flow) == IF flow THEN part ELSE <<<<"blank">>>> \o part \o <<<<"blank">>>>

\* A source is seen line by line, each on a line of its own: all lines that are
\* not empty, but for the first, if there is another one, and for what follows
\* the last line break.
SourceLook(source) ==
  LET ls == LinesOf(source)
      IsSeen(k) == ls[k] # <<>> /\ (k = 1 => \A j \in DOMAIN ls : j # 1 => ls[j] = <<>>)
  IN <<<<"blank">>>>
       \o FlattenSeq([k \in DOMAIN ls |-> IF IsSeen(k) THEN Line(Chars(ls[k]), FALSE) ELSE <<>>])

\* A node shows its parts in order.
NodeLook(node, flow, parts) ==
  LET open  == Line(<<Opening(node)>>, flow)
      close == Line(<<<<"close", node.tag>>>>, flow)
  IN CASE node.kind = "string"   -> IF node.txt = <<>> THEN <<>> ELSE Line(Chars(node.txt), flow)
       [] node.kind = "entity"   -> Line(<<<<"text", Decoded(node.name)>>>>, flow)
       [] node.kind = "empty"    -> open
       [] node.kind = "verbatim" -> open \o SourceLook(node.source) \o close
       [] node.kind = "simple"   -> open \o FlattenSeq(parts) \o close

\* The looks of all nodes, inside a tag in flow style or not.
Looks(node) ==
  LET look[n \in Nodes(node)] ==
        [f \in BOOLEAN |->
           LET inner == InFlow(n, f)
           IN NodeLook(n, inner, [k \in DOMAIN Body(n) |-> look[Body(n)[k]][inner]])]
  IN look
Look(node, flow) == Looks(node)[node][flow]

\* Blanks in a row are one.
Collapsed(seen) ==
  FlattenSeq([k \in DOMAIN seen |->
    IF k # 1 /\ seen[k] = <<"blank">> /\ seen[k - 1] = <<"blank">> THEN <<>> ELSE <<seen[k]>>])
Trim(seen) ==
  LET ToLast == IF Last(seen) = <<"blank">> THEN Front(seen) ELSE seen
  IN IF Head(ToLast) = <<"blank">> THEN Tail(ToLast) ELSE ToLast

\* The values of the attributes of a tree.
Values(node) ==
  UNION {UNION {ToSet(a.value) : a \in ToSet(n.attrs)} :
           n \in {n \in Nodes(node) : n.kind \notin {"string", "entity"}}}

Plain(value)    == ToSet(value) \cap {"\"", "&"} = {}
Harmless(value) ==
  \A j, k \in DOMAIN value : j < k /\ value[j] = "\"" => value[k] \notin {">", "="}
NoAttrs(seen) ==
  [k \in DOMAIN seen |-> IF seen[k][1] = "open" THEN <<"open", seen[k][2]>> ELSE seen[k]]

\* The page shows the tree: every element is opened and closed where it should
\* be, every text is seen as it was put in, whatever characters it has, and a
\* blank can be seen just where the style of the tags around puts one, however
\* deep they are nested.  A script or style sheet is seen as it is, character by
\* character, but for the blanks around its lines and the ends LongStringLiteral
\* drops.  Attributes, which are printed as they are, are read back too if there
\* is no quote in any value; a quote leaves the rest of the page alone as long as
\* neither > nor = comes after it.
PageReadsBack ==
  Shown =>
    LET seen == Trim(browser.seen)
        look == Trim(Collapsed(Look(html, FALSE)))
    IN /\ (\A v \in Values(html) : Plain(v)) => seen = look
       /\ (\A v \in Values(html) : Harmless(v)) => NoAttrs(seen) = NoAttrs(look)

=============================================================================
