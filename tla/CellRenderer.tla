---------------------------- MODULE CellRenderer ----------------------------
(***************************************************************************)
(* One row of the table of a basic block: what each attribute renderer     *)
(* makes of an instruction, or the row of the predecessors or successors.  *)
(* The recursive calls (visit of a SCEV, render of metadata) are a stack   *)
(* of the tags in the making, each with what is still to be added to it.   *)
(***************************************************************************)
EXTENDS HtmlTree, SequencesExt

CONSTANTS
  MdOperands,  \* the operands of each metadata node
  StackMax     \* how deep the calls can be nested

VARIABLES
  job,       \* the row that is made
  frames,    \* the tags in the making, innermost first
  html,      \* the row, when it is complete
  renderer   \* "ready", "rendering", "done" or "overflow"

vars == <<job, frames, html, renderer>>

Init ==
  /\ frames = <<>>
  /\ renderer = "ready"

-----------------------------------------------------------------------------
(* What is to be added to a tag.                                           *)

Add(node)         == <<"add", node>>
Text(txt)         == Add(Str(txt))
Nest(tag, items)  == <<"nest", tag, items>>
Visit(scev)       == <<"visit", scev>>
Render(md)        == <<"render", md>>

Div(style) == SimpleTag("div", <<>>, style)
Br         == Add(EmptyTag("br", <<>>))

\* makeLink, makeString: the type is the text of the mouse-over.
Ref(v) ==
  LET title == Attr("title", v.type)
      tag   == IF v.id = <<>> THEN SimpleTag("span", <<title>>, "block")
               ELSE SimpleTag("a", <<Attr("href", <<"#">> \o v.id), title>>, "block")
  IN Add(AddChild(tag, Str(v.text)))

\* for (auto pred : ...) wrapper->add(sep.str(), ref(pred)): a Separator is
\* empty the first time.
SepStr(k) == IF k = 1 THEN <<>> ELSE <<", ">>
RefList(values) ==
  FlattenSeq([k \in DOMAIN values |-> <<Text(SepStr(k)), Ref(values[k])>>])

-----------------------------------------------------------------------------
(* ScevRenderer::Visitor: what a visit emits, with the visits it makes.    *)

Args(e, sep) ==
  FlattenSeq([k \in DOMAIN e.args |->
     (IF k = 1 THEN <<>> ELSE <<Text(sep)>>) \o <<Visit(e.args[k])>>])

Flag(e, flag, txt) == IF flag \in e.flags THEN <<Text(txt)>> ELSE <<>>

\* The type of the operand is printed twice.
Cast(e, word) ==
  <<Text(<<word, " ">> \o e.args[1].type \o <<" ">>), Visit(e.args[1]),
    Text(<<" to ">> \o e.args[1].type \o <<")">>)>>

\* Mutant of NAry: no parentheses.
NAryBare(e, op) == Args(e, op)

NAry(e, op) == <<Text(<<"(">>)>> \o Args(e, op) \o <<Text(<<")">>)>>

\* The same word for both flags.
NAryFlags(e) == Flag(e, "nuw", <<"<", "nuw", ">">>) \o Flag(e, "nsw", <<"<", "nuw", ">">>)

AddRec(e) ==
  <<Text(<<"{">>)>> \o Args(e, <<" ,+, ">>) \o <<Text(<<"}", "<">>)>>
    \o Flag(e, "nuw", <<"nuw", ">", "<">>) \o Flag(e, "nsw", <<"nsw", ">", "<">>)
    \o (IF e.flags = {"nw"} THEN <<Text(<<"nw", ">", "<">>)>> ELSE <<>>)
    \o <<Ref(e.value), Text(<<">">>)>>

Visited(e) ==
  CASE e.op = "value" -> <<Ref(e.value)>>
    [] e.op = "trunc" -> Cast(e, "(trunc")
    [] e.op = "sext"  -> Cast(e, "(sext")
    [] e.op = "zext"  -> Cast(e, "(zext")
    [] e.op = "add"   -> NAry(e, <<" + ">>) \o NAryFlags(e)
    [] e.op = "mul"   -> NAry(e, <<" * ">>) \o NAryFlags(e)
    [] e.op = "smax"  -> NAry(e, <<" smax ">>)
    [] e.op = "umax"  -> NAry(e, <<" umax ">>)
    [] e.op = "udiv"  -> <<Text(<<"(">>)>> \o Args(e, <<"/u">>) \o <<Text(<<")">>)>>
    [] e.op = "addrec"   -> AddRec(e)
    [] e.op = "sizeof"   -> <<Text(<<"sizeof(">> \o e.value.type \o <<")">>)>>
    [] e.op = "alignof"  -> <<Text(<<"alignof(">> \o e.value.type \o <<")">>)>>
    [] e.op = "offsetof" ->
         <<Text(<<"offsetof(">> \o e.type \o <<", ">>), Ref(e.value), Text(<<")">>)>>

-----------------------------------------------------------------------------
(* MetadataRenderer: render.  No node is remembered.                       *)

Rendered(md) ==
  CASE md[1] = "null"   -> Text(<<"null">>)
    [] md[1] = "value"  -> Ref(md[2])
    [] md[1] = "string" -> Text(md[2])
    [] md[1] = "node"   ->
         Nest(SimpleTag("span", <<>>, "flow"),
              <<Text(<<"{">>)>>
                \o [k \in DOMAIN MdOperands[md[2]] |-> Render(MdOperands[md[2]][k])]
                \o <<Text(<<"}">>)>>)

Attached(mds) ==
  FlattenSeq([k \in DOMAIN mds |->
     (IF k = 1 THEN <<>> ELSE <<Br>>)
       \o <<Text(<<mds[k].kind, " -> ">>), Render(<<"node", mds[k].node>>)>>])

-----------------------------------------------------------------------------
(* The rows.                                                               *)

IsVoid(i) == i.type = <<"void">>

\* An instruction without a value has no name, and its row no id.
NameCell(i)   == Text(IF IsVoid(i) THEN <<>> ELSE i.name)
TypeCell(i)   == Text(i.type)
OpcodeCell(i) == Text(<<i.opcode>>)

\* <<>> when there is no SCEV for the type or no loop around the block
ScevCell(i) ==
  IF i.scev = <<>> THEN Nest(Div("block"), <<>>)
  ELSE Nest(Div("flow"), <<Visit(i.scev[1])>>)

OperandsCell(i) ==
  Nest(Div("block"), FlattenSeq([k \in DOMAIN i.operands |-> <<Ref(i.operands[k]), Br>>]))

MetadataCell(i) == Nest(Div("block"), Attached(i.metadata))

Td(item) == Nest(SimpleTag("td", <<>>, "block"), <<item>>)

\* emitInstruction
InstructionRow(i) ==
  LET row == AddClass(SimpleTag("tr", <<>>, "block"), <<"instruction">>)
  IN Nest(IF IsVoid(i) THEN row ELSE AddAttr(row, Attr("id", i.id)),
          <<Td(NameCell(i)), Td(TypeCell(i)), Td(OpcodeCell(i)),
            Td(OperandsCell(i)), Td(ScevCell(i)), Td(MetadataCell(i))>>)

\* the second and the third row of emitBasicBlock
BlocksRow(label, blocks) ==
  Nest(SimpleTag("tr", <<>>, "block"),
       <<Nest(SimpleTag("th", <<Attr("colspan", <<"3">>)>>, "block"), <<Text(label)>>),
         Nest(SimpleTag("td", <<Attr("colspan", <<"3">>)>>, "block"),
              <<Nest(Div("flow"), RefList(blocks))>>)>>)

Row == IF job.kind = "instruction" THEN InstructionRow(job) ELSE BlocksRow(job.label, job.blocks)

-----------------------------------------------------------------------------
Frame(item) == [tag |-> item[2], todo |-> item[3]]
Top   == frames[1]
Below == Tail(frames)
Item  == Head(Top.todo)
Then(items) == [Top EXCEPT !.todo = items \o Tail(@)]

Start ==
  /\ renderer = "ready"
  /\ job.kind # "tree"
  /\ frames' = <<Frame(Row)>>
  /\ renderer' = "rendering"
  /\ UNCHANGED <<job, html>>

AtItem(what) ==
  renderer = "rendering" /\ Top.todo # <<>> /\ Item[1] = what

AddNode ==
  /\ AtItem("add")
  /\ frames' = <<[Then(<<>>) EXCEPT !.tag = AddChild(@, Item[2])]>> \o Below
  /\ UNCHANGED <<job, html, renderer>>

VisitScev ==
  /\ AtItem("visit")
  /\ frames' = <<Then(Visited(Item[2]))>> \o Below
  /\ UNCHANGED <<job, html, renderer>>

RenderMetadata ==
  /\ AtItem("render")
  /\ frames' = <<Then(<<Rendered(Item[2])>>)>> \o Below
  /\ UNCHANGED <<job, html, renderer>>

\* Another tag is begun.
Enter ==
  /\ AtItem("nest")
  /\ Len(frames) < StackMax
  /\ frames' = <<Frame(Item), Then(<<>>)>> \o Below
  /\ UNCHANGED <<job, html, renderer>>

\* The stack of the program is full: render called itself too often.
Overflow ==
  /\ AtItem("nest")
  /\ Len(frames) = StackMax
  /\ renderer' = "overflow"
  /\ UNCHANGED <<job, frames, html>>

\* A tag is complete and becomes a child of the one it was begun in.
Leave ==
  /\ renderer = "rendering"
  /\ Top.todo = <<>>
  /\ Len(frames) > 1
  /\ frames' = <<[Below[1] EXCEPT !.tag = AddChild(@, Top.tag)]>> \o Tail(Below)
  /\ UNCHANGED <<job, html, renderer>>

\* The row is complete; LoopDepthStyler gives it another class.
Finish ==
  /\ renderer = "rendering"
  /\ Top.todo = <<>>
  /\ Len(frames) = 1
  /\ html' = AddClass(Top.tag, <<"loop-1-even">>)
  /\ frames' = <<>>
  /\ renderer' = "done"
  /\ UNCHANGED job

Next ==
  \/ Start \/ AddNode \/ VisitScev \/ RenderMetadata
  \/ Enter \/ Overflow \/ Leave \/ Finish

=============================================================================
