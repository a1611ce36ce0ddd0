---------------------------- MODULE HtmlPrinter ----------------------------
(***************************************************************************)
(* HtmlPrinter::run: one page for one LLVM module.  The renderers are      *)
(* registered, head and control bar are built, then every function that    *)
(* has a body is analysed and rendered: header, arguments, and for each    *)
(* basic block a table of instructions with one column per attribute.      *)
(*                                                                         *)
(* An id is the value it stands for: ValueNameMangler gives different      *)
(* values different ids.  Names it fails on are left out, its llvm_unreach-*)
(* able for operands that are no values with an id is not.  The document   *)
(* is the list of the elements with an id and of the rows of the tables,   *)
(* in the order they are printed.                                          *)
(***************************************************************************)
EXTENDS Integers, Sequences, FiniteSets, SequencesExt

CONSTANTS
  Modules,      \* the modules to print
  Name,         \* names of arguments, blocks, results and global variables
  MAX_DEPTH,    \* LoopDepthStyler::MAX_DEPTH()
  maxLoopDepth  \* Style::maxLoopDepth()

\* Values.  The j-th function of the module is Fn(j), its locals are Local(j, n).
Fn(j)       == <<"fn", j>>
Local(j, n) == <<"local", j, n>>
Variable(n) == <<"variable", n>>   \* a global variable or alias
Constant    == <<"constant">>
Metadata    == <<"metadata">>      \* or inline assembly: no id can be made
Cycle       == <<"cycle">>         \* metadata that comes back to itself
Value ==
  {Constant, Metadata, Cycle} \cup ({"fn"} \X Nat) \cup ({"variable"} \X Name)
    \cup ({"local"} \X Nat \X Name)

NoValue == <<>>
Void    == "void"   \* in place of the name of an instruction without result

\* An instruction has the values its cells would refer to, a block the depth of
\* the loops around it.  A function without blocks is a declaration.
Instruction == [name : Name \cup {Void}, operands : Seq(Value),
                scev : Seq(Value), metadata : Seq(Value)]
BasicBlock  == [name : Name, depth : Nat, succs : Seq(Nat \ {0}), insts : Seq(Instruction)]
Function    == [args : Seq(Name), blocks : Seq(BasicBlock)]

ASSUME ModulesAssumption == Modules \subseteq Seq(Function)

\* What the instructions of the j-th function of m can refer to: the values of
\* the function itself, and what is global.
LocalNames(f) ==
  LET insts == UNION {ToSet(b.insts) : b \in ToSet(f.blocks)}
  IN ToSet(f.args) \cup {b.name : b \in ToSet(f.blocks)}
       \cup ({i.name : i \in insts} \ {Void})
InScope(m, j) ==
  {Constant, Metadata, Cycle} \cup {Variable(n) : n \in Name}
    \cup {Fn(k) : k \in DOMAIN m} \cup {Local(j, n) : n \in LocalNames(m[j])}

\* LLVM's reader makes no other module: it resolves the operands and the targets
\* of a branch within the function, and the functions within the module.
ASSUME ScopeAssumption ==
  \A m \in Modules : \A j \in DOMAIN m : \A b \in ToSet(m[j].blocks) :
     /\ ToSet(b.succs) \subseteq DOMAIN m[j].blocks
     /\ \A i \in ToSet(b.insts) :
          ToSet(i.operands) \cup ToSet(i.scev) \cup ToSet(i.metadata) \subseteq InScope(m, j)

\* Both are 7.
ASSUME DepthAssumption ==
  MAX_DEPTH \in Nat /\ maxLoopDepth \in Nat /\ MAX_DEPTH <= maxLoopDepth

VARIABLES
  mod,        \* the module
  pc,         \* what run does next
  renderers,  \* _renderers
  css,        \* the loop depths the style sheet has rules for
  flags,      \* the css ids of the check boxes of the control bar
  body,       \* the classes of <body>
  analyses,   \* for which function each analysis was computed
  attrs,      \* _attrs, by their column headers
  stylers,    \* _basic_block_stylers
  next,       \* index of the renderer a loop over _renderers comes to
  fn,         \* index of the function in hand
  blk,        \* index of the block in hand
  inst,       \* index of the instruction in hand
  row,        \* the cells of its row so far
  tbody,      \* the rows of the block so far
  page,       \* the elements of the document
  links       \* the values the links of the document lead to

position == <<fn, blk, inst, row, tbody>>
vectors  == <<attrs, stylers, next>>
setup    == <<renderers, css, flags, body>>
vars == <<mod, pc, setup, analyses, vectors, position, page, links>>

None == 0
Init ==
  /\ mod \in Modules
  /\ pc = "register"
  /\ renderers = <<>>
  /\ css = {}
  /\ flags = <<>>
  /\ body = {}
  /\ analyses = [dom |-> None, loops |-> {}, assumptions |-> None, scev |-> None]
  /\ attrs = <<>>
  /\ stylers = <<>>
  /\ next = 1
  /\ fn = 1
  /\ blk = 1
  /\ inst = 1
  /\ row = <<>>
  /\ tbody = <<>>
  /\ page = <<>>
  /\ links = {}

-----------------------------------------------------------------------------
(* Before the functions.                                                   *)

Registered ==
  <<"NameRenderer", "TypeRenderer", "OpcodeRenderer", "OperandsRenderer",
    "ScevRenderer", "MetadataRenderer", "LoopDepthStyler", "HideCodeStyler">>

RegisterRenderers ==
  /\ pc = "register"
  /\ renderers' = Registered
  /\ pc' = "head"
  /\ UNCHANGED <<mod, css, flags, body, analyses, vectors, position, page, links>>

\* addCss: LoopDepthStyler has a pair of rules for each depth.
AddCss(r) == IF r = "LoopDepthStyler" THEN 0 .. maxLoopDepth ELSE {}

RenderHead ==
  /\ pc = "head"
  /\ css' = UNION {AddCss(renderers[k]) : k \in DOMAIN renderers}
  /\ pc' = "controls"
  /\ UNCHANGED <<mod, renderers, flags, body, analyses, vectors, position, page, links>>

\* addControlCheckboxes; all of them are checked at first.
Checkboxes(r) ==
  CASE r = "LoopDepthStyler" -> <<"loop-depth-color">>
    [] r = "HideCodeStyler"  -> <<"display-args", "display-code", "display-loops">>
    [] OTHER                 -> <<>>

RenderControls ==
  /\ pc = "controls"
  /\ flags' = FlattenSeq([k \in DOMAIN renderers |-> Checkboxes(renderers[k])])
  /\ body' = ToSet(flags')
  /\ pc' = "functions"
  /\ UNCHANGED <<mod, renderers, css, analyses, vectors, position, page, links>>

-----------------------------------------------------------------------------
(* One function.                                                           *)

F == mod[fn]
B == F.blocks[blk]
I == B.insts[inst]

\* Mutant of SkipDeclaration: the loop does not move on.
StayAtDeclaration ==
  /\ pc = "functions"
  /\ fn <= Len(mod)
  /\ F.blocks = <<>>
  /\ UNCHANGED vars

\* if (fn.empty()) continue;
SkipDeclaration ==
  /\ pc = "functions"
  /\ fn <= Len(mod)
  /\ F.blocks = <<>>
  /\ fn' = fn + 1
  /\ UNCHANGED <<mod, pc, setup, analyses, vectors, blk, inst, row, tbody, page, links>>

\* Mutants of Recalculate: the old SCEVs are kept, _attrs is not cleared.
RecalculateKeepingScev ==
  /\ pc = "functions"
  /\ fn <= Len(mod)
  /\ F.blocks # <<>>
  /\ analyses' = [dom |-> fn, loops |-> analyses.loops \cup {fn}, assumptions |-> fn,
                  scev |-> IF analyses.scev = None THEN fn ELSE analyses.scev]
  /\ attrs' = <<>>
  /\ next' = 1
  /\ pc' = "renderers"
  /\ UNCHANGED <<mod, setup, stylers, position, page, links>>
RecalculateKeepingAttrs ==
  /\ pc = "functions"
  /\ fn <= Len(mod)
  /\ F.blocks # <<>>
  /\ analyses' = [dom |-> fn, loops |-> analyses.loops \cup {fn},
                  assumptions |-> fn, scev |-> fn]
  /\ next' = 1
  /\ pc' = "renderers"
  /\ UNCHANGED <<mod, setup, attrs, stylers, position, page, links>>

\* analyses.recalculate(fn), where _loops keeps the loops of earlier functions,
\* and _attrs.clear().
Recalculate ==
  /\ pc = "functions"
  /\ fn <= Len(mod)
  /\ F.blocks # <<>>
  /\ analyses' = [dom |-> fn, loops |-> analyses.loops \cup {fn},
                  assumptions |-> fn, scev |-> fn]
  /\ attrs' = <<>>
  /\ next' = 1
  /\ pc' = "renderers"
  /\ UNCHANGED <<mod, setup, stylers, position, page, links>>

\* createRenderers: the header of the column a renderer adds.
Columns(r) ==
  CASE r = "NameRenderer"     -> <<"Name">>
    [] r = "TypeRenderer"     -> <<"Type">>
    [] r = "OpcodeRenderer"   -> <<"Opcode">>
    [] r = "OperandsRenderer" -> <<"Operands">>
    [] r = "ScevRenderer"     -> <<"SCEV">>
    [] r = "MetadataRenderer" -> <<"Metadata">>
    [] OTHER                  -> <<>>

CreateRenderers ==
  /\ pc = "renderers"
  /\ next <= Len(renderers)
  /\ attrs' = attrs \o Columns(renderers[next])
  /\ next' = next + 1
  /\ UNCHANGED <<mod, pc, setup, analyses, stylers, position, page, links>>

\* Mutant of ClearStylers: it does not.
KeepStylers ==
  /\ pc = "renderers"
  /\ next > Len(renderers)
  /\ next' = 1
  /\ pc' = "stylers"
  /\ UNCHANGED <<mod, setup, analyses, attrs, stylers, position, page, links>>

\* _basic_block_stylers.clear()
ClearStylers ==
  /\ pc = "renderers"
  /\ next > Len(renderers)
  /\ stylers' = <<>>
  /\ next' = 1
  /\ pc' = "stylers"
  /\ UNCHANGED <<mod, setup, analyses, attrs, position, page, links>>

\* createBasicBlockStylers
Stylers(r) == IF r = "LoopDepthStyler" THEN <<r>> ELSE <<>>

CreateStylers ==
  /\ pc = "stylers"
  /\ next <= Len(renderers)
  /\ stylers' = stylers \o Stylers(renderers[next])
  /\ next' = next + 1
  /\ UNCHANGED <<mod, pc, setup, analyses, attrs, position, page, links>>

\* An element with an id, a row of a table or both.
Element(kind, id, cells) ==
  [fn |-> fn, blk |-> blk, kind |-> kind, id |-> id, cells |-> cells, classes |-> <<>>]

Code(j) == <<"code", j>>   \* getId(fn) + "-code"

\* The header, the div for the code and the table of arguments.
EmitHeader ==
  /\ pc = "stylers"
  /\ next > Len(renderers)
  /\ page' = page \o <<Element("function", Fn(fn), <<>>), Element("code", Code(fn), <<>>)>>
                  \o [k \in DOMAIN F.args |-> Element("arg", Local(fn, F.args[k]), <<>>)]
  /\ blk' = 1
  /\ pc' = "block"
  /\ UNCHANGED <<mod, setup, analyses, vectors, fn, inst, row, tbody, links>>

-----------------------------------------------------------------------------
(* One basic block.                                                        *)

BlockId(k) == Local(fn, F.blocks[k].name)
Successors == {BlockId(s) : s \in ToSet(B.succs)}
Predecessors ==
  {BlockId(k) : k \in {k \in DOMAIN F.blocks : blk \in ToSet(F.blocks[k].succs)}}

\* Three rows about the block, then the legend with the column headers.
EmitBlockHead ==
  /\ pc = "block"
  /\ blk <= Len(F.blocks)
  /\ tbody' = <<Element("name", NoValue, <<>>), Element("preds", NoValue, <<>>),
                Element("succs", NoValue, <<>>), Element("legend", NoValue, attrs)>>
  /\ links' = links \cup Predecessors \cup Successors
  /\ inst' = 1
  /\ row' = <<>>
  /\ pc' = "instruction"
  /\ UNCHANGED <<mod, setup, analyses, vectors, fn, blk, page>>

InLoop    == fn \in analyses.loops /\ B.depth > 0
LoopDepth == IF InLoop THEN B.depth ELSE 0

\* The values an attribute renderer calls ref with.
OperandRefs  == ToSet(I.operands)
ScevRefs     == IF InLoop THEN ToSet(I.scev) ELSE {}
MetadataRefs == ToSet(I.metadata)

References(attr) ==
  CASE attr = "Operands" -> OperandRefs
    [] attr = "SCEV"     -> ScevRefs
    [] attr = "Metadata" -> MetadataRefs
    [] OTHER             -> {}

\* There is no id for the value; the recursion over metadata does not end.
Fatal == {Metadata, Cycle}

\* Mutant of IsLink: declarations are links too.
IsLinkEvenDeclarations(v) == v # Constant

\* ref: declarations and other constants are plain text.
IsLink(v) == v # Constant /\ \A j \in DOMAIN mod : v = Fn(j) => mod[j].blocks # <<>>

AtInstruction == pc = "instruction" /\ inst <= Len(B.insts)
Attr          == attrs[Len(row) + 1]

\* One attribute renderer renders one cell; it stands for what is in it.
RenderCell ==
  /\ AtInstruction
  /\ Len(row) < Len(attrs)
  /\ References(Attr) \cap Fatal = {}
  /\ row' = Append(row, Attr)
  /\ links' = links \cup {v \in References(Attr) : IsLink(v)}
  /\ UNCHANGED <<mod, pc, setup, analyses, vectors, fn, blk, inst, tbody, page>>

\* getId reaches its llvm_unreachable, or the renderer of metadata recurses
\* until the stack is full.
RenderCellAborts ==
  /\ AtInstruction
  /\ Len(row) < Len(attrs)
  /\ References(Attr) \cap Fatal # {}
  /\ pc' = "aborted"
  /\ UNCHANGED <<mod, setup, analyses, vectors, position, page, links>>

\* Mutant of EmitInstruction: an id for every instruction.
EmitInstructionWithId ==
  /\ AtInstruction
  /\ Len(row) = Len(attrs)
  /\ tbody' = Append(tbody, Element("instruction", Local(fn, I.name), row))
  /\ inst' = inst + 1
  /\ row' = <<>>
  /\ UNCHANGED <<mod, pc, setup, analyses, vectors, fn, blk, page, links>>

\* The row is complete.  An instruction without a result has no id.
EmitInstruction ==
  /\ AtInstruction
  /\ Len(row) = Len(attrs)
  /\ LET id == IF I.name = Void THEN NoValue ELSE Local(fn, I.name)
     IN tbody' = Append(tbody, Element("instruction", id, row))
  /\ inst' = inst + 1
  /\ row' = <<>>
  /\ UNCHANGED <<mod, pc, setup, analyses, vectors, fn, blk, page, links>>

\* LoopDepthStyler: every child of the block gets the class of the depth and of
\* its parity.
Capped(d) == IF d < MAX_DEPTH THEN d ELSE MAX_DEPTH
LoopClass(k) == [depth |-> Capped(LoopDepth), even |-> k % 2 = 1]
Styled(rows) ==
  [k \in DOMAIN rows |->
     [rows[k] EXCEPT !.classes = [s \in DOMAIN stylers |-> LoopClass(k)]]]

\* The last child is a <tbody> with a row in it.  The stylers come, the block is
\* added to the table, and an empty row after it.
EndBlock ==
  /\ pc = "instruction"
  /\ inst > Len(B.insts)
  /\ page' = page \o <<Element("block", BlockId(blk), <<>>)>>
       \o Styled(Append(tbody, Element("end", NoValue, <<>>)))
       \o <<Element("border", NoValue, <<>>), Element("gap", NoValue, <<>>)>>
  /\ blk' = blk + 1
  /\ pc' = "block"
  /\ UNCHANGED <<mod, setup, analyses, vectors, fn, inst, row, tbody, links>>

\* Mutant of EndFunction: the next function is skipped.
EndTwoFunctions ==
  /\ pc = "block"
  /\ blk > Len(F.blocks)
  /\ fn' = fn + 2
  /\ pc' = "functions"
  /\ UNCHANGED <<mod, setup, analyses, vectors, blk, inst, row, tbody, page, links>>

EndFunction ==
  /\ pc = "block"
  /\ blk > Len(F.blocks)
  /\ fn' = fn + 1
  /\ pc' = "functions"
  /\ UNCHANGED <<mod, setup, analyses, vectors, blk, inst, row, tbody, page, links>>

\* The scripts are added: the document is complete.
PrintPage ==
  /\ pc = "functions"
  /\ fn > Len(mod)
  /\ pc' = "done"
  /\ UNCHANGED <<mod, setup, analyses, vectors, position, page, links>>

Next ==
  \/ RegisterRenderers \/ RenderHead \/ RenderControls
  \/ SkipDeclaration \/ Recalculate
  \/ CreateRenderers \/ ClearStylers \/ CreateStylers \/ EmitHeader
  \/ EmitBlockHead \/ RenderCell \/ RenderCellAborts \/ EmitInstruction \/ EndBlock
  \/ EndFunction \/ PrintPage

Spec == Init /\ [][Next]_vars

-----------------------------------------------------------------------------
TypeOK ==
  /\ mod \in Modules
  /\ pc \in {"register", "head", "controls", "functions", "renderers", "stylers",
            "block", "instruction", "done", "aborted"}
  /\ css \subseteq 0 .. maxLoopDepth
  /\ body = ToSet(flags)
  /\ fn \in 1 .. Len(mod) + 1
  /\ pc \in {"renderers", "stylers", "block", "instruction", "aborted"}
       => fn <= Len(mod) /\ F.blocks # <<>>
  /\ pc = "block" => blk \in 1 .. Len(F.blocks) + 1
  /\ pc \in {"instruction", "aborted"} => /\ blk \in 1 .. Len(F.blocks)
                                        /\ inst \in 1 .. Len(B.insts) + 1
                                        /\ Len(row) \in 0 .. Len(attrs)

\* The comment at Analyses::_function: "the function these analyses are valid
\* for".  While a function is rendered every analysis the renderers and
\* stylers read was made for it, none for the function before.
AnalysesMatch ==
  pc \in {"renderers", "stylers", "block", "instruction"} =>
     /\ analyses.dom = fn
     /\ fn \in analyses.loops
     /\ analyses.assumptions = fn
     /\ analyses.scev = fn

AllColumns == <<"Name", "Type", "Opcode", "Operands", "SCEV", "Metadata">>

\* The legend of every block, of the last function as of the first, has each
\* column once, and every instruction has one cell under each of them.
RowsFillTheLegend ==
  \A k \in DOMAIN page :
     page[k].kind \in {"legend", "instruction"} =>
        page[k].cells = AllColumns

\* The elements that are a <tr>.  The style sheet has rules for no other.
BlockRows == {"name", "preds", "succs", "legend", "instruction"}
OtherRows == {"border", "gap"}

\* Every row about a block or its instructions has exactly one color: that of
\* the depth of the block, as far as the style sheet has rules for it, and not
\* its neighbour's shade.  The rows that keep the blocks apart have none.
RowsAreStriped ==
  \A k \in DOMAIN page :
     LET e == page[k]
     IN /\ e.kind \in BlockRows =>
             /\ Len(e.classes) = 1
             /\ e.classes[1].depth = Capped(mod[e.fn].blocks[e.blk].depth)
             /\ e.classes[1].depth \in css
             /\ k > 1 /\ page[k - 1].kind \in BlockRows
                  => e.classes[1].even # page[k - 1].classes[1].even
        /\ e.kind \in OtherRows => e.classes = <<>>

-----------------------------------------------------------------------------
(* The ids the page of a module should have, from the module itself.       *)

\* The id of an element, or none; the ids of some elements in their order.
IdOf(e)  == IF e.id = NoValue THEN <<>> ELSE <<e.id>>
IdsOf(s) == FlattenSeq([k \in DOMAIN s |-> IdOf(s[k])])

ResultId(j, i) == IF i.name = Void THEN <<>> ELSE <<Local(j, i.name)>>
BlockIds(j, b) ==
  <<Local(j, b.name)>> \o FlattenSeq([k \in DOMAIN b.insts |-> ResultId(j, b.insts[k])])

HeaderIds(j) ==
  <<Fn(j), Code(j)>> \o [k \in DOMAIN mod[j].args |-> Local(j, mod[j].args[k])]
FunctionIds(j) ==
  IF mod[j].blocks = <<>> THEN <<>>
  ELSE HeaderIds(j)
       \o FlattenSeq([k \in DOMAIN mod[j].blocks |-> BlockIds(j, mod[j].blocks[k])])
ModuleIds == FlattenSeq([j \in DOMAIN mod |-> FunctionIds(j)])

\* A finished page has an element for each defined function, its arguments,
\* blocks and results, each exactly once and in the order of the module, and
\* none for a declaration.
PageMatchesModule ==
  pc = "done" => IdsOf(page) = ModuleIds

\* Every link of a finished page leads to an element of it: operands, blocks,
\* called functions, values in SCEVs and metadata.  (Not to global variables:
\* they are linked to and have no element.)
LinksResolve ==
  pc = "done" => \A v \in links : v[1] # "variable" => \E k \in DOMAIN page : page[k].id = v

=============================================================================
