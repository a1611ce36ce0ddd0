------------------------- MODULE HtmlPrinterProofs -------------------------
(***************************************************************************)
(* Proofs about the printer and main for modules of any size: what is kept *)
(* from one function to the next never shows in the rows of a later one,   *)
(* the page is that of the module, and no half page stays in its file.     *)
(***************************************************************************)
EXTENDS Program, SequenceLemmas, TLAPS

-----------------------------------------------------------------------------
(* The inductive invariant.                                                *)

Column    == {"Name", "Type", "Opcode", "Operands", "SCEV", "Metadata"}
ClassType == [depth : Nat, even : BOOLEAN]
Kind      == BlockRows \cup OtherRows \cup {"end", "function", "code", "arg", "block"}
IdType    == Value \cup {NoValue} \cup ({"code"} \X Nat)
PageElement == [fn : Nat, blk : Nat, kind : Kind, id : IdType,
                cells : Seq(Column), classes : Seq(ClassType)]

\* Of each row of a table: the columns are complete.
Filled(e) == e.kind \in {"legend", "instruction"} => e.cells = AllColumns

\* The children of a block as they wait in tbody, and the document.
RowOfBlock(e) ==
  /\ e \in PageElement /\ Filled(e)
  /\ e.kind \in BlockRows \cup {"end"}
  /\ e.fn = fn /\ e.blk = blk
Page == page \in Seq(PageElement) /\ \A k \in DOMAIN page : Filled(page[k])
Tbody ==
  pc = "instruction" => tbody \in Seq(PageElement) /\ \A k \in DOMAIN tbody : RowOfBlock(tbody[k])
Row ==
  pc \in {"instruction", "aborted"} =>
     row \in Seq(Column) /\ \A k \in DOMAIN row : row[k] = AllColumns[k]

\* What the first n renderers add to _attrs and to _basic_block_stylers.
AttrsOf(n)   == SubSeq(AllColumns, 1, IF n < 6 THEN n ELSE 6)
StylersOf(n) == IF n < 7 THEN <<>> ELSE <<"LoopDepthStyler">>

Setup ==
  /\ blk \in Nat
  /\ pc # "register" => renderers = Registered
  /\ pc \notin {"register", "head"} => css = 0 .. maxLoopDepth
Vectors ==
  /\ pc = "renderers" => next \in 1 .. 9 /\ attrs = AttrsOf(next - 1)
  /\ pc = "stylers" => next \in 1 .. 9 /\ stylers = StylersOf(next - 1)
  /\ pc \in {"stylers", "block", "instruction", "aborted"} => attrs = AllColumns
  /\ pc \in {"block", "instruction"} => stylers = <<"LoopDepthStyler">>

IInv ==
  /\ TypeOK
  /\ Setup
  /\ Vectors
  /\ AnalysesMatch
  /\ Row
  /\ Tbody
  /\ Page
  /\ RowsAreStriped

-----------------------------------------------------------------------------
(* The constants of the code.                                              *)

\* The eight renderers in the order of their registration.
LEMMA RegisteredIs ==
  /\ Len(Registered) = 8 /\ DOMAIN Registered = 1 .. 8
  /\ Registered[1] = "NameRenderer" /\ Registered[2] = "TypeRenderer"
  /\ Registered[3] = "OpcodeRenderer" /\ Registered[4] = "OperandsRenderer"
  /\ Registered[5] = "ScevRenderer" /\ Registered[6] = "MetadataRenderer"
  /\ Registered[7] = "LoopDepthStyler" /\ Registered[8] = "HideCodeStyler"
BY DEF Registered

\* The columns each renderer adds.
LEMMA ColumnsAre ==
  /\ Columns("NameRenderer") = <<"Name">>
  /\ Columns("TypeRenderer") = <<"Type">>
  /\ Columns("OpcodeRenderer") = <<"Opcode">>
  /\ Columns("OperandsRenderer") = <<"Operands">>
  /\ Columns("ScevRenderer") = <<"SCEV">>
  /\ Columns("MetadataRenderer") = <<"Metadata">>
  /\ Columns("LoopDepthStyler") = <<>>
  /\ Columns("HideCodeStyler") = <<>>
BY Zenon DEF Columns

\* Six elements are a sequence.
LEMMA SixTuples ==
  ASSUME NEW S
  PROVE  \A a, b, c, d, e, f \in S : <<a, b, c, d, e, f>> \in Seq(S)
OBVIOUS

\* The six columns in their order.
LEMMA AllColumnsAre ==
  /\ AllColumns \in Seq(Column) /\ Len(AllColumns) = 6
  /\ AllColumns[1] = "Name" /\ AllColumns[2] = "Type" /\ AllColumns[3] = "Opcode"
  /\ AllColumns[4] = "Operands" /\ AllColumns[5] = "SCEV" /\ AllColumns[6] = "Metadata"
<1>1. AllColumns \in Seq(Column)
  <2>1. /\ "Name" \in Column /\ "Type" \in Column /\ "Opcode" \in Column
        /\ "Operands" \in Column /\ "SCEV" \in Column /\ "Metadata" \in Column
    BY DEF Column
  <2> QED BY <2>1, SixTuples, Zenon DEF AllColumns
<1>2. Len(AllColumns) = 6
  BY DEF AllColumns
<1>3. /\ AllColumns[1] = "Name" /\ AllColumns[2] = "Type" /\ AllColumns[3] = "Opcode"
      /\ AllColumns[4] = "Operands" /\ AllColumns[5] = "SCEV" /\ AllColumns[6] = "Metadata"
  BY DEF AllColumns
<1> QED BY <1>1, <1>2, <1>3

\* The columns of the renderers visited so far.
LEMMA AttrsGrow ==
  /\ AttrsOf(0) = <<>>
  /\ AttrsOf(8) = AllColumns
  /\ \A n \in 0 .. 7 : AttrsOf(n + 1) = AttrsOf(n) \o Columns(Registered[n + 1])
<1>1. AttrsOf(0) = <<>>
  BY AllColumnsAre DEF AttrsOf
<1>2. AttrsOf(8) = AllColumns
  BY AllColumnsAre DEF AttrsOf
<1>3. ASSUME NEW n \in 0 .. 5
      PROVE  AttrsOf(n + 1) = AttrsOf(n) \o Columns(Registered[n + 1])
  <2>1. Columns(Registered[n + 1]) = <<AllColumns[n + 1]>>
    BY RegisteredIs, ColumnsAre, AllColumnsAre
  <2> QED BY <2>1, AllColumnsAre DEF AttrsOf
<1>4. ASSUME NEW n \in {6, 7}
      PROVE  AttrsOf(n + 1) = AttrsOf(n) \o Columns(Registered[n + 1])
  <2>1. Columns(Registered[n + 1]) = <<>>
    BY RegisteredIs, ColumnsAre
  <2> QED BY <2>1, AllColumnsAre DEF AttrsOf
<1>5. \A n \in 0 .. 7 : n \in 0 .. 5 \/ n \in {6, 7}
  OBVIOUS
<1> QED BY <1>1, <1>2, <1>3, <1>4, <1>5

\* The stylers of the renderers visited so far.
LEMMA StylersGrow ==
  /\ StylersOf(0) = <<>>
  /\ StylersOf(8) = <<"LoopDepthStyler">>
  /\ \A n \in 0 .. 7 : StylersOf(n + 1) = StylersOf(n) \o Stylers(Registered[n + 1])
<1>1. ASSUME NEW n \in 0 .. 5 PROVE Stylers(Registered[n + 1]) = <<>>
  BY RegisteredIs DEF Stylers
<1>2. Stylers(Registered[7]) = <<"LoopDepthStyler">> /\ Stylers(Registered[8]) = <<>>
  BY RegisteredIs DEF Stylers
<1> QED BY <1>1, <1>2 DEF StylersOf

\* Only LoopDepthStyler adds style rules.
LEMMA CssOfAll ==
  UNION {AddCss(Registered[k]) : k \in DOMAIN Registered} = 0 .. maxLoopDepth
<1>1. AddCss(Registered[7]) = 0 .. maxLoopDepth /\ 7 \in DOMAIN Registered
  BY RegisteredIs DEF AddCss
<1>2. \A k \in DOMAIN Registered : k # 7 => AddCss(Registered[k]) = {}
  BY RegisteredIs DEF AddCss
<1> QED BY <1>1, <1>2, Zenon

-----------------------------------------------------------------------------
(* What most steps leave alone.                                            *)

\* A step that leaves the page alone keeps what is said of it.
LEMMA DocumentStays ==
  ASSUME IInv, UNCHANGED <<mod, page>>, css \subseteq css'
  PROVE  Page' /\ RowsAreStriped'
<1>1. Page'
  BY DEF IInv, Page
<1>2. RowsAreStriped'
  BY DEF IInv, RowsAreStriped, Capped
<1> QED BY <1>1, <1>2

\* A step that leaves the table in hand alone keeps what is said of it.
LEMMA RowsStay ==
  ASSUME IInv, UNCHANGED <<fn, blk, row, tbody>>,
         pc' = "instruction" => pc = "instruction",
         pc' = "aborted" => pc \in {"instruction", "aborted"}
  PROVE  Row' /\ Tbody'
<1>1. Row'
  BY DEF IInv, Row
<1>2. Tbody'
  BY DEF IInv, Tbody, RowOfBlock
<1> QED BY <1>1, <1>2

\* The module.
LEMMA ModuleTypes ==
  ASSUME mod \in Modules
  PROVE  /\ mod \in Seq(Function)
         /\ \A j \in DOMAIN mod :
              /\ mod[j].args \in Seq(Name)
              /\ mod[j].blocks \in Seq(BasicBlock)
              /\ \A b \in DOMAIN mod[j].blocks :
                   /\ mod[j].blocks[b].name \in Name
                   /\ mod[j].blocks[b].depth \in Nat
                   /\ mod[j].blocks[b].insts \in Seq(Instruction)
                   /\ \A i \in DOMAIN mod[j].blocks[b].insts :
                        mod[j].blocks[b].insts[i].name \in Name \cup {Void}
<1>1. mod \in Seq(Function)
  BY ModulesAssumption DEF ModulesAssumption
<1>2. ASSUME NEW j \in DOMAIN mod
      PROVE  mod[j].args \in Seq(Name) /\ mod[j].blocks \in Seq(BasicBlock)
  <2>1. mod[j] \in Function
    BY <1>1, <1>2
  <2> QED BY <2>1 DEF Function
<1>3. ASSUME NEW j \in DOMAIN mod, NEW b \in DOMAIN mod[j].blocks
      PROVE  /\ mod[j].blocks[b].name \in Name
             /\ mod[j].blocks[b].depth \in Nat
             /\ mod[j].blocks[b].insts \in Seq(Instruction)
  <2>1. mod[j].blocks[b] \in BasicBlock
    BY <1>2, <1>3
  <2> QED BY <2>1 DEF BasicBlock
<1>4. ASSUME NEW j \in DOMAIN mod, NEW b \in DOMAIN mod[j].blocks,
             NEW i \in DOMAIN mod[j].blocks[b].insts
      PROVE  mod[j].blocks[b].insts[i].name \in Name \cup {Void}
  <2>1. mod[j].blocks[b].insts[i] \in Instruction
    BY <1>3, <1>4
  <2> QED BY <2>1 DEF Instruction
<1> QED BY <1>1, <1>2, <1>3, <1>4

-----------------------------------------------------------------------------
(* Before the functions.                                                   *)

\* Nothing is printed and nothing is registered.
LEMMA IInvInit == Init => IInv
<1> SUFFICES ASSUME Init PROVE IInv
  OBVIOUS
<1>1. TypeOK
  <2>1. ToSet(flags) = {}
    BY DEF Init, ToSet
  <2>2. Len(mod) \in Nat
    BY ModulesAssumption DEF Init, ModulesAssumption
  <2> QED BY <2>1, <2>2 DEF Init, TypeOK
<1>2. Setup /\ Vectors /\ AnalysesMatch /\ Row /\ Tbody
  BY DEF Init, Setup, Vectors, AnalysesMatch, Row, Tbody
<1>3. Page /\ RowsAreStriped
  BY DEF Init, Page, RowsAreStriped
<1> QED BY <1>1, <1>2, <1>3 DEF IInv

\* All renderers are registered at once.
LEMMA RegisterRenderersKeeps == IInv /\ RegisterRenderers => IInv'
<1> SUFFICES ASSUME IInv, RegisterRenderers PROVE IInv'
  OBVIOUS
<1> USE DEF RegisterRenderers, position, vectors
<1>1. TypeOK'
  BY DEF IInv, TypeOK
<1>2. Setup' /\ Vectors' /\ AnalysesMatch'
  BY DEF IInv, Setup, Vectors, AnalysesMatch
<1>3. Row' /\ Tbody' /\ Page' /\ RowsAreStriped'
  BY RowsStay, DocumentStays
<1> QED BY <1>1, <1>2, <1>3 DEF IInv

\* A renderer adds its style rules.
LEMMA RenderHeadKeeps == IInv /\ RenderHead => IInv'
<1> SUFFICES ASSUME IInv, RenderHead PROVE IInv'
  OBVIOUS
<1> USE DEF RenderHead, position, vectors
<1>1. css' = 0 .. maxLoopDepth
  BY CssOfAll DEF IInv, Setup
<1>2. TypeOK'
  BY <1>1 DEF IInv, TypeOK
<1>3. Setup' /\ Vectors' /\ AnalysesMatch'
  BY <1>1 DEF IInv, Setup, Vectors, AnalysesMatch
<1>4. Row' /\ Tbody' /\ Page' /\ RowsAreStriped'
  BY <1>1, RowsStay, DocumentStays DEF IInv, TypeOK
<1> QED BY <1>2, <1>3, <1>4 DEF IInv

\* A renderer adds its check boxes.
LEMMA RenderControlsKeeps == IInv /\ RenderControls => IInv'
<1> SUFFICES ASSUME IInv, RenderControls PROVE IInv'
  OBVIOUS
<1> USE DEF RenderControls, position, vectors
<1>1. TypeOK'
  <2>1. body' = ToSet(flags)'
    BY DEF ToSet
  <2> QED BY <2>1 DEF IInv, TypeOK
<1>2. Setup' /\ Vectors' /\ AnalysesMatch'
  BY DEF IInv, Setup, Vectors, AnalysesMatch
<1>3. Row' /\ Tbody' /\ Page' /\ RowsAreStriped'
  BY RowsStay, DocumentStays
<1> QED BY <1>1, <1>2, <1>3 DEF IInv

-----------------------------------------------------------------------------
(* One function.                                                           *)

\* A declaration leaves no trace.
LEMMA SkipDeclarationKeeps == IInv /\ SkipDeclaration => IInv'
<1> SUFFICES ASSUME IInv, SkipDeclaration PROVE IInv'
  OBVIOUS
<1> USE DEF SkipDeclaration, setup, vectors
<1>1. Len(mod) \in Nat
  BY ModuleTypes DEF IInv, TypeOK
<1>2. TypeOK'
  BY <1>1 DEF IInv, TypeOK
<1>3. Setup' /\ Vectors' /\ AnalysesMatch'
  BY DEF IInv, Setup, Vectors, AnalysesMatch
<1>4. Row' /\ Tbody'
  BY DEF Row, Tbody
<1>5. Page' /\ RowsAreStriped'
  BY DocumentStays
<1> QED BY <1>2, <1>3, <1>4, <1>5 DEF IInv

\* The analyses become those of the function in hand.
LEMMA RecalculateKeeps == IInv /\ Recalculate => IInv'
<1> SUFFICES ASSUME IInv, Recalculate PROVE IInv'
  OBVIOUS
<1> USE DEF Recalculate, setup, position
<1>1. TypeOK'
  <2>1. F' = F
    BY DEF F
  <2> QED BY <2>1 DEF IInv, TypeOK
<1>2. Vectors'
  BY AttrsGrow DEF Vectors
<1>3. Setup' /\ AnalysesMatch'
  BY DEF IInv, Setup, AnalysesMatch
<1>4. Row' /\ Tbody' /\ Page' /\ RowsAreStriped'
  BY RowsStay, DocumentStays
<1> QED BY <1>1, <1>2, <1>3, <1>4 DEF IInv

\* A renderer adds its columns, starting from none.
LEMMA CreateRenderersKeeps == IInv /\ CreateRenderers => IInv'
<1> SUFFICES ASSUME IInv, CreateRenderers PROVE IInv'
  OBVIOUS
<1> USE DEF CreateRenderers, setup, position
<1>1. TypeOK'
  <2>1. F' = F
    BY DEF F
  <2> QED BY <2>1 DEF IInv, TypeOK
<1>2. Vectors'
  <2>1. renderers = Registered /\ next \in 1 .. 9 /\ attrs = AttrsOf(next - 1)
    BY DEF IInv, Setup, Vectors
  <2>2. next <= 8
    BY <2>1, RegisteredIs
  <2>3. PICK n \in 0 .. 7 : next = n + 1
    <3>1. next - 1 \in 0 .. 7 /\ next = (next - 1) + 1
      BY <2>1, <2>2
    <3> QED BY <3>1
  <2>4. attrs = AttrsOf(n) /\ next' - 1 = n + 1 /\ next' \in 1 .. 9
    BY <2>1, <2>3
  <2>5. attrs' = AttrsOf(next' - 1)
    BY <2>1, <2>3, <2>4, AttrsGrow
  <2> QED BY <2>4, <2>5 DEF Vectors
<1>3. Setup' /\ AnalysesMatch'
  BY DEF IInv, Setup, AnalysesMatch
<1>4. Row' /\ Tbody' /\ Page' /\ RowsAreStriped'
  BY RowsStay, DocumentStays
<1> QED BY <1>1, <1>2, <1>3, <1>4 DEF IInv

\* The stylers of the function before are removed.
LEMMA ClearStylersKeeps == IInv /\ ClearStylers => IInv'
<1> SUFFICES ASSUME IInv, ClearStylers PROVE IInv'
  OBVIOUS
<1> USE DEF ClearStylers, setup, position
<1>1. TypeOK'
  <2>1. F' = F
    BY DEF F
  <2> QED BY <2>1 DEF IInv, TypeOK
<1>2. Vectors'
  <2>1. renderers = Registered /\ next \in 1 .. 9 /\ attrs = AttrsOf(next - 1)
    BY DEF IInv, Setup, Vectors
  <2>2. next - 1 = 8
    BY <2>1, RegisteredIs
  <2>3. attrs = AllColumns
    BY <2>1, <2>2, AttrsGrow
  <2> QED BY <2>3, StylersGrow DEF Vectors
<1>3. Setup' /\ AnalysesMatch'
  BY DEF IInv, Setup, AnalysesMatch
<1>4. Row' /\ Tbody' /\ Page' /\ RowsAreStriped'
  BY RowsStay, DocumentStays
<1> QED BY <1>1, <1>2, <1>3, <1>4 DEF IInv

\* A renderer adds its stylers.
LEMMA CreateStylersKeeps == IInv /\ CreateStylers => IInv'
<1> SUFFICES ASSUME IInv, CreateStylers PROVE IInv'
  OBVIOUS
<1> USE DEF CreateStylers, setup, position
<1>1. TypeOK'
  <2>1. F' = F
    BY DEF F
  <2> QED BY <2>1 DEF IInv, TypeOK
<1>2. Vectors'
  <2>1. renderers = Registered /\ next \in 1 .. 9 /\ stylers = StylersOf(next - 1)
    BY DEF IInv, Setup, Vectors
  <2>2. next <= 8
    BY <2>1, RegisteredIs
  <2>3. PICK n \in 0 .. 7 : next = n + 1
    <3>1. next - 1 \in 0 .. 7 /\ next = (next - 1) + 1
      BY <2>1, <2>2
    <3> QED BY <3>1
  <2>4. stylers = StylersOf(n) /\ next' - 1 = n + 1 /\ next' \in 1 .. 9
    BY <2>1, <2>3
  <2>5. stylers' = StylersOf(next' - 1)
    BY <2>1, <2>3, <2>4, StylersGrow
  <2> QED BY <2>4, <2>5 DEF IInv, Vectors
<1>3. Setup' /\ AnalysesMatch'
  BY DEF IInv, Setup, AnalysesMatch
<1>4. Row' /\ Tbody' /\ Page' /\ RowsAreStriped'
  BY RowsStay, DocumentStays
<1> QED BY <1>1, <1>2, <1>3, <1>4 DEF IInv

\* The last block of the function is printed.
LEMMA EndFunctionKeeps == IInv /\ EndFunction => IInv'
<1> SUFFICES ASSUME IInv, EndFunction PROVE IInv'
  OBVIOUS
<1> USE DEF EndFunction, setup, vectors
<1>1. Len(mod) \in Nat
  BY ModuleTypes DEF IInv, TypeOK
<1>2. TypeOK'
  BY <1>1 DEF IInv, TypeOK
<1>3. Setup' /\ Vectors' /\ AnalysesMatch'
  BY DEF IInv, Setup, Vectors, AnalysesMatch
<1>4. Row' /\ Tbody'
  BY DEF Row, Tbody
<1>5. Page' /\ RowsAreStriped'
  BY DocumentStays
<1> QED BY <1>2, <1>3, <1>4, <1>5 DEF IInv

\* After the last function the page is complete.
LEMMA PrintPageKeeps == IInv /\ PrintPage => IInv'
<1> SUFFICES ASSUME IInv, PrintPage PROVE IInv'
  OBVIOUS
<1> USE DEF PrintPage, setup, vectors, position
<1>1. TypeOK'
  BY DEF IInv, TypeOK
<1>2. Setup' /\ Vectors' /\ AnalysesMatch'
  BY DEF IInv, Setup, Vectors, AnalysesMatch
<1>3. Row' /\ Tbody' /\ Page' /\ RowsAreStriped'
  BY RowsStay, DocumentStays
<1> QED BY <1>1, <1>2, <1>3 DEF IInv

-----------------------------------------------------------------------------
(* The document grows.                                                     *)

\* What the color of one element must be, and of two that are neighbours.
Colored(e) ==
  /\ e.kind \in BlockRows =>
       /\ Len(e.classes) = 1
       /\ e.classes[1].depth = Capped(mod[e.fn].blocks[e.blk].depth)
       /\ e.classes[1].depth \in css
  /\ e.kind \in OtherRows => e.classes = <<>>
Differ(e, d) ==
  e.kind \in BlockRows /\ d.kind \in BlockRows => d.classes[1].even # e.classes[1].even

Stripes(s) ==
  \A k \in DOMAIN s : Colored(s[k]) /\ (k > 1 => Differ(s[k - 1], s[k]))

\* That is what the property says of the page.
LEMMA StripesOfPage == RowsAreStriped <=> Stripes(page)
BY DEF RowsAreStriped, Stripes, Colored, Differ

\* Stripes stay stripes when others follow them, if the two that meet differ.
LEMMA StripesJoin ==
  ASSUME NEW s \in Seq(PageElement), NEW t \in Seq(PageElement), Stripes(s), Stripes(t),
         Len(s) > 0 /\ Len(t) > 0 => Differ(s[Len(s)], t[1])
  PROVE  Stripes(s \o t)
<1>1. /\ s \o t \in Seq(PageElement)
      /\ Len(s) \in Nat /\ Len(t) \in Nat /\ Len(s \o t) = Len(s) + Len(t)
      /\ DOMAIN s = 1 .. Len(s) /\ DOMAIN t = 1 .. Len(t)
      /\ DOMAIN (s \o t) = 1 .. Len(s) + Len(t)
      /\ \A k \in 1 .. Len(s) : (s \o t)[k] = s[k]
      /\ \A k \in 1 .. Len(s) + Len(t) : k > Len(s) => (s \o t)[k] = t[k - Len(s)]
  OBVIOUS
<1> SUFFICES ASSUME NEW k \in 1 .. Len(s) + Len(t)
             PROVE  /\ Colored((s \o t)[k])
                    /\ k > 1 => Differ((s \o t)[k - 1], (s \o t)[k])
  BY <1>1, Zenon DEF Stripes
<1>2. CASE k \in 1 .. Len(s)
  <2>1. (s \o t)[k] = s[k] /\ (k > 1 => (s \o t)[k - 1] = s[k - 1])
    BY <1>1, <1>2
  <2> QED BY <1>1, <1>2, <2>1 DEF Stripes
<1>3. CASE k > Len(s) + 1
  <2>1. /\ k - Len(s) \in 1 .. Len(t) /\ k - Len(s) > 1
        /\ (s \o t)[k] = t[k - Len(s)] /\ (s \o t)[k - 1] = t[(k - Len(s)) - 1]
    BY <1>1, <1>3
  <2> QED BY <1>1, <2>1 DEF Stripes
<1>4. CASE k = Len(s) + 1
  <2>1. /\ 1 \in 1 .. Len(t) /\ (s \o t)[k] = t[1]
        /\ k > 1 => Len(s) > 0 /\ (s \o t)[k - 1] = s[Len(s)]
    BY <1>1, <1>4
  <2> QED BY <1>1, <2>1 DEF Stripes
<1> QED BY <1>1, <1>2, <1>3, <1>4

\* New elements that start with one that is no row have no neighbour among the
\* rows that are there.
LEMMA DocumentGrows ==
  ASSUME IInv, UNCHANGED <<mod, css>>,
         NEW new \in Seq(PageElement), page' = page \o new,
         \A k \in DOMAIN new : Filled(new[k]),
         Stripes(new), Len(new) > 0, new[1].kind \notin BlockRows
  PROVE  Page' /\ RowsAreStriped'
<1>1. /\ page \in Seq(PageElement) /\ \A k \in DOMAIN page : Filled(page[k])
      /\ Stripes(page)
  BY StripesOfPage DEF IInv, Page
<1>2. Page'
  <2>1. page' \in Seq(PageElement)
    BY <1>1
  <2>2. ASSUME NEW k \in DOMAIN page'
        PROVE  Filled(page'[k])
    <3>1. \/ k \in DOMAIN page /\ page'[k] = page[k]
          \/ k - Len(page) \in DOMAIN new /\ page'[k] = new[k - Len(page)]
      BY <1>1, <2>2
    <3> QED BY <1>1, <3>1
  <2> QED BY <2>1, <2>2 DEF Page, Filled
<1>3. Stripes(page \o new)
  BY <1>1, StripesJoin DEF Differ
<1>4. RowsAreStriped'
  <2>1. Stripes(page')
    BY <1>3
  <2> QED BY <2>1 DEF RowsAreStriped, Stripes, Colored, Differ, Capped
<1> QED BY <1>2, <1>4

\* An element of the page has what it is made of.
LEMMA ElementType ==
  ASSUME fn \in Nat, blk \in Nat, NEW kind \in Kind, NEW id \in IdType,
         NEW cells \in Seq(Column)
  PROVE  /\ Element(kind, id, cells) \in PageElement
         /\ Element(kind, id, cells).kind = kind
         /\ Element(kind, id, cells).cells = cells
         /\ Element(kind, id, cells).fn = fn
         /\ Element(kind, id, cells).blk = blk
BY DEF Element, PageElement

\* The ids of functions, code and locals.
LEMMA IdTypes ==
  /\ NoValue \in IdType
  /\ \A j \in Nat : Fn(j) \in IdType /\ Code(j) \in IdType
  /\ \A j \in Nat : \A n \in Name : Local(j, n) \in IdType
BY DEF IdType, Value, Fn, Code, Local

\* The header of a function has no rows.
LEMMA EmitHeaderKeeps == IInv /\ EmitHeader => IInv'
<1> SUFFICES ASSUME IInv, EmitHeader PROVE IInv'
  OBVIOUS
<1> USE DEF EmitHeader, setup, vectors
<1>1. /\ fn \in Nat /\ blk \in Nat /\ fn \in DOMAIN mod
      /\ F.args \in Seq(Name) /\ F.blocks \in Seq(BasicBlock)
  BY ModuleTypes DEF IInv, TypeOK, F, Setup
<1>2. TypeOK'
  <2>1. F' = F
    BY DEF F
  <2> QED BY <1>1, <2>1 DEF IInv, TypeOK
<1>3. Vectors'
  <2>1. renderers = Registered /\ next \in 1 .. 9 /\ stylers = StylersOf(next - 1)
    BY DEF IInv, Setup, Vectors
  <2>2. next - 1 = 8
    BY <2>1, RegisteredIs
  <2>3. stylers = <<"LoopDepthStyler">>
    BY <2>1, <2>2, StylersGrow
  <2> QED BY <2>3 DEF IInv, Vectors
<1>4. Setup' /\ AnalysesMatch' /\ Row' /\ Tbody'
  BY DEF IInv, Setup, AnalysesMatch, Row, Tbody
<1>5. Page' /\ RowsAreStriped'
  <2> DEFINE args == [k \in DOMAIN F.args |-> Element("arg", Local(fn, F.args[k]), <<>>)]
             new  == <<Element("function", Fn(fn), <<>>), Element("code", Code(fn), <<>>)>>
                       \o args
  <2>1. /\ {"function", "code", "arg"} \subseteq Kind /\ <<>> \in Seq(Column)
        /\ {"function", "code", "arg"} \cap (BlockRows \cup OtherRows) = {}
    BY DEF Kind, BlockRows, OtherRows
  <2>2. args \in Seq(PageElement) /\ \A k \in DOMAIN args : args[k].kind = "arg"
    <3>1. DOMAIN F.args = 1 .. Len(F.args) /\ Len(F.args) \in Nat
      BY <1>1
    <3>2. ASSUME NEW k \in DOMAIN F.args
          PROVE  args[k] \in PageElement /\ args[k].kind = "arg"
      <4>1. Local(fn, F.args[k]) \in IdType /\ "arg" \in Kind
        BY <1>1, <2>1, <3>2, IdTypes
      <4>2. /\ Element("arg", Local(fn, F.args[k]), <<>>) \in PageElement
            /\ Element("arg", Local(fn, F.args[k]), <<>>).kind = "arg"
        BY <1>1, <2>1, <4>1 DEF Element, PageElement
      <4> QED BY <3>2, <4>2
    <3>3. args \in [1 .. Len(F.args) -> PageElement]
      BY <3>1, <3>2
    <3>4. DOMAIN args = DOMAIN F.args
      OBVIOUS
    <3> HIDE DEF args
    <3>5. args \in Seq(PageElement)
      BY <3>1, <3>3, FunctionIsSeq
    <3>6. \A k \in DOMAIN args : args[k].kind = "arg"
      BY <3>2, <3>4
    <3> QED BY <3>5, <3>6
  <2>3. /\ Element("function", Fn(fn), <<>>) \in PageElement
        /\ Element("function", Fn(fn), <<>>).kind = "function"
        /\ Element("code", Code(fn), <<>>) \in PageElement
        /\ Element("code", Code(fn), <<>>).kind = "code"
    <3>1. Fn(fn) \in IdType /\ Code(fn) \in IdType
      BY <1>1, IdTypes
    <3> QED BY <1>1, <2>1, <3>1 DEF Element, PageElement
  <2> HIDE DEF args
  <2>4. /\ new \in Seq(PageElement) /\ Len(new) > 0
        /\ new[1] = Element("function", Fn(fn), <<>>)
        /\ \A k \in DOMAIN new : new[k].kind \in {"function", "code", "arg"}
    BY <2>2, <2>3
  <2>5. page' = page \o new
    BY <2>2, <2>3 DEF args, IInv, Page
  <2> HIDE DEF new
  <2>6. Stripes(new) /\ \A k \in DOMAIN new : Filled(new[k])
    BY <2>1, <2>4 DEF Stripes, Colored, Differ, Filled
  <2> QED BY <2>1, <2>3, <2>4, <2>5, <2>6, DocumentGrows
<1> QED BY <1>2, <1>3, <1>4, <1>5 DEF IInv

-----------------------------------------------------------------------------
(* One basic block.                                                        *)

\* The function and the block in hand.
LEMMA InHand ==
  ASSUME IInv, pc \in {"block", "instruction"}
  PROVE  /\ fn \in Nat /\ blk \in Nat
         /\ fn \in DOMAIN mod
         /\ F.blocks \in Seq(BasicBlock)
         /\ blk \in DOMAIN F.blocks =>
              /\ B.name \in Name
              /\ B.depth \in Nat
              /\ B.insts \in Seq(Instruction)
              /\ \A i \in DOMAIN B.insts : B.insts[i].name \in Name \cup {Void}
BY ModuleTypes DEF IInv, TypeOK, F, B, Setup

\* The first rows of a block, and the legend.
LEMMA EmitBlockHeadKeeps == IInv /\ EmitBlockHead => IInv'
<1> SUFFICES ASSUME IInv, EmitBlockHead PROVE IInv'
  OBVIOUS
<1> USE DEF EmitBlockHead, setup, vectors
<1>1. /\ fn \in Nat /\ blk \in Nat
      /\ blk \in DOMAIN F.blocks
      /\ B.insts \in Seq(Instruction)
  BY InHand DEF IInv, TypeOK
<1>2. attrs = AllColumns
  BY DEF IInv, Vectors
<1>3. TypeOK'
  <2>1. F' = F /\ B' = B
    BY DEF F, B
  <2>2. blk \in 1 .. Len(F.blocks) /\ inst' \in 1 .. Len(B.insts) + 1
    BY <1>1 DEF IInv, TypeOK
  <2>3. Len(row') \in 0 .. Len(attrs)
    BY <1>2, AllColumnsAre
  <2> QED BY <2>1, <2>2, <2>3 DEF IInv, TypeOK
<1>4. Setup' /\ Vectors' /\ AnalysesMatch' /\ Row'
  BY EmptySeq DEF IInv, Setup, Vectors, AnalysesMatch, Row
<1>5. Tbody'
  <2>1. /\ BlockRows \subseteq Kind /\ {"name", "preds", "succs", "legend"} \subseteq BlockRows
        /\ <<>> \in Seq(Column) /\ attrs \in Seq(Column)
    BY <1>2, AllColumnsAre DEF Kind, BlockRows
  <2>2. ASSUME NEW kind \in {"name", "preds", "succs"}
        PROVE  RowOfBlock(Element(kind, NoValue, <<>>))
    <3>1. kind \in Kind /\ kind \in BlockRows
      BY <2>1
    <3> QED BY <1>1, <2>1, <2>2, <3>1, IdTypes DEF RowOfBlock, Element, PageElement, Filled
  <2>3. RowOfBlock(Element("legend", NoValue, attrs))
    BY <1>1, <1>2, <2>1, IdTypes DEF RowOfBlock, Element, PageElement, Filled
  <2>4. /\ tbody' \in Seq(PageElement)
        /\ \A k \in DOMAIN tbody' : RowOfBlock(tbody'[k])
    <3>1. tbody' = <<Element("name", NoValue, <<>>), Element("preds", NoValue, <<>>),
                     Element("succs", NoValue, <<>>), Element("legend", NoValue, attrs)>>
      OBVIOUS
    <3> QED BY <2>2, <2>3, <3>1 DEF RowOfBlock
  <2> QED BY <2>4 DEF Tbody, RowOfBlock
<1>6. Page' /\ RowsAreStriped'
  BY DocumentStays
<1> QED BY <1>3, <1>4, <1>5, <1>6 DEF IInv

\* A renderer fills the next cell of the row.
LEMMA RenderCellKeeps == IInv /\ RenderCell => IInv'
<1> SUFFICES ASSUME IInv, RenderCell PROVE IInv'
  OBVIOUS
<1> USE DEF RenderCell, AtInstruction, setup, vectors
<1>1. attrs = AllColumns /\ row \in Seq(Column) /\ Len(row) + 1 \in 1 .. 6
  BY AllColumnsAre DEF IInv, Vectors, Row
<1>2. row' = Append(row, AllColumns[Len(row) + 1]) /\ AllColumns[Len(row) + 1] \in Column
  <2>1. row' = Append(row, AllColumns[Len(row) + 1])
    BY <1>1 DEF Attr
  <2> QED BY <1>1, <2>1, AllColumnsAre, ElementOfSeq
<1>3. Row' /\ Len(row') \in 0 .. 6
  BY <1>1, <1>2 DEF IInv, Row
<1>4. TypeOK'
  <2>1. F' = F /\ B' = B
    BY DEF F, B
  <2> QED BY <1>1, <1>3, <2>1, AllColumnsAre DEF IInv, TypeOK
<1>5. Setup' /\ Vectors' /\ AnalysesMatch' /\ Tbody'
  BY DEF IInv, Setup, Vectors, AnalysesMatch, Tbody, RowOfBlock
<1>6. Page' /\ RowsAreStriped'
  BY DocumentStays
<1> QED BY <1>3, <1>4, <1>5, <1>6 DEF IInv

\* A cell that cannot be rendered ends the run.
LEMMA RenderCellAbortsKeeps == IInv /\ RenderCellAborts => IInv'
<1> SUFFICES ASSUME IInv, RenderCellAborts PROVE IInv'
  OBVIOUS
<1> USE DEF RenderCellAborts, AtInstruction, setup, vectors, position
<1>1. TypeOK'
  <2>1. F' = F /\ B' = B
    BY DEF F, B
  <2> QED BY <2>1 DEF IInv, TypeOK
<1>2. Setup' /\ Vectors' /\ AnalysesMatch'
  BY DEF IInv, Setup, Vectors, AnalysesMatch
<1>3. Row' /\ Tbody' /\ Page' /\ RowsAreStriped'
  BY RowsStay, DocumentStays
<1> QED BY <1>1, <1>2, <1>3 DEF IInv

\* A complete row joins those of its block.
LEMMA EmitInstructionKeeps == IInv /\ EmitInstruction => IInv'
<1> SUFFICES ASSUME IInv, EmitInstruction PROVE IInv'
  OBVIOUS
<1> USE DEF EmitInstruction, AtInstruction, setup, vectors
<1>1. /\ fn \in Nat /\ blk \in Nat
      /\ blk \in DOMAIN F.blocks
      /\ B.insts \in Seq(Instruction)
      /\ inst \in DOMAIN B.insts
      /\ I.name \in Name \cup {Void}
  <2>1. fn \in Nat /\ blk \in Nat
    BY InHand
  <2>2. blk \in DOMAIN F.blocks
    BY InHand DEF IInv, TypeOK
  <2>3. /\ B.insts \in Seq(Instruction)
        /\ \A j \in DOMAIN B.insts : B.insts[j].name \in Name \cup {Void}
    BY <2>2, InHand
  <2>4. inst \in DOMAIN B.insts
    BY <2>3 DEF IInv, TypeOK
  <2> QED BY <2>1, <2>2, <2>3, <2>4 DEF I
<1>2. row = AllColumns /\ row \in Seq(Column)
  <2>1. row \in Seq(Column) /\ \A k \in DOMAIN row : row[k] = AllColumns[k]
    BY DEF IInv, Row
  <2>2. Len(row) = 6
    BY AllColumnsAre DEF IInv, Vectors
  <2>3. \A k \in 1 .. 6 : row[k] = AllColumns[k]
    BY <2>1, <2>2
  <2> QED BY <2>1, <2>2, <2>3, AllColumnsAre, SeqEqual
<1>3. TypeOK'
  <2>1. F' = F /\ B' = B
    BY DEF F, B
  <2>2. inst' \in 1 .. Len(B.insts) + 1
    BY <1>1
  <2>3. Len(row') \in 0 .. Len(attrs)
    BY AllColumnsAre DEF IInv, Vectors
  <2> QED BY <1>1, <2>1, <2>2, <2>3 DEF IInv, TypeOK
<1>4. Setup' /\ Vectors' /\ AnalysesMatch' /\ Row'
  BY EmptySeq DEF IInv, Setup, Vectors, AnalysesMatch, Row
<1>5. Tbody'
  <2>1. PICK id \in IdType : tbody' = Append(tbody, Element("instruction", id, row))
    BY <1>1, IdTypes
  <2>2. RowOfBlock(Element("instruction", id, row))
    BY <1>1, <1>2 DEF RowOfBlock, Element, PageElement, Filled, Kind, BlockRows
  <2>3. /\ tbody \in Seq(PageElement)
        /\ \A k \in DOMAIN tbody : RowOfBlock(tbody[k])
    BY DEF IInv, Tbody
  <2>4. /\ tbody' \in Seq(PageElement)
        /\ \A k \in DOMAIN tbody' : RowOfBlock(tbody'[k])
    BY <2>1, <2>2, <2>3 DEF RowOfBlock
  <2> QED BY <2>4 DEF Tbody, RowOfBlock
<1>6. Page' /\ RowsAreStriped'
  BY DocumentStays
<1> QED BY <1>3, <1>4, <1>5, <1>6 DEF IInv

\* What the one styler there is does to the rows of the block in hand.
LEMMA StyledRows ==
  ASSUME IInv, pc = "instruction", NEW rows \in Seq(PageElement),
         \A k \in DOMAIN rows : RowOfBlock(rows[k])
  PROVE  /\ Styled(rows) \in Seq(PageElement)
         /\ Len(Styled(rows)) = Len(rows)
         /\ Stripes(Styled(rows))
         /\ \A k \in DOMAIN Styled(rows) : Filled(Styled(rows)[k])
<1>1. /\ fn \in Nat /\ blk \in Nat
      /\ blk \in DOMAIN F.blocks
      /\ B.depth \in Nat
  BY InHand DEF IInv, TypeOK
<1>2. LoopDepth = B.depth
  BY <1>1 DEF LoopDepth, InLoop, IInv, AnalysesMatch
<1>3. Capped(B.depth) \in Nat /\ Capped(B.depth) \in css
  BY <1>1, DepthAssumption DEF Capped, DepthAssumption, IInv, Setup
<1> DEFINE classes(k) == [s \in DOMAIN stylers |-> LoopClass(k)]
<1>4. ASSUME NEW k \in Nat
      PROVE  /\ classes(k) \in Seq(ClassType) /\ Len(classes(k)) = 1
             /\ classes(k)[1].depth = Capped(B.depth)
             /\ classes(k)[1].even = (k % 2 = 1)
  <2>1. LoopClass(k) \in ClassType
    BY <1>2, <1>3 DEF LoopClass, ClassType
  <2>2. DOMAIN stylers = 1 .. 1
    BY DEF IInv, Vectors
  <2>3. classes(k) \in [1 .. 1 -> ClassType] /\ classes(k)[1] = LoopClass(k)
    BY <2>1, <2>2
  <2>4. classes(k) \in Seq(ClassType) /\ Len(classes(k)) = 1
    BY <2>3, FunctionIsSeq
  <2> QED BY <1>2, <2>3, <2>4 DEF LoopClass
<1> HIDE DEF classes
<1>5. /\ DOMAIN Styled(rows) = DOMAIN rows
      /\ \A k \in DOMAIN rows : Styled(rows)[k] = [rows[k] EXCEPT !.classes = classes(k)]
  BY DEF Styled, classes
<1>6. ASSUME NEW k \in DOMAIN rows
      PROVE  /\ Styled(rows)[k] \in PageElement
             /\ Styled(rows)[k].kind = rows[k].kind
             /\ Styled(rows)[k].cells = rows[k].cells
             /\ Styled(rows)[k].fn = fn
             /\ Styled(rows)[k].blk = blk
             /\ Styled(rows)[k].classes = classes(k)
  <2>1. rows[k] \in PageElement /\ rows[k].fn = fn /\ rows[k].blk = blk
    BY <1>6 DEF RowOfBlock
  <2>2. k \in Nat
    BY <1>6
  <2> QED BY <1>4, <1>5, <1>6, <2>1, <2>2 DEF PageElement
<1>7. Styled(rows) \in Seq(PageElement) /\ Len(Styled(rows)) = Len(rows)
  <2>1. DOMAIN rows = 1 .. Len(rows) /\ Len(rows) \in Nat
    BY LenProperties
  <2>2. Styled(rows) \in [1 .. Len(rows) -> PageElement]
    BY <1>5, <1>6, <2>1 DEF Styled
  <2>3. Styled(rows) \in Seq(PageElement)
    BY <2>1, <2>2, FunctionIsSeq
  <2> QED BY <1>5, <2>1, <2>3, LenProperties
<1>8. \A k \in DOMAIN Styled(rows) : Filled(Styled(rows)[k])
  BY <1>5, <1>6 DEF RowOfBlock, Filled
<1>9. Stripes(Styled(rows))
  <2> SUFFICES ASSUME NEW k \in DOMAIN rows
               PROVE  /\ Len(classes(k)) = 1
                      /\ classes(k)[1].depth = Capped(mod[fn].blocks[blk].depth)
                      /\ classes(k)[1].depth \in css
                      /\ k > 1 => classes(k)[1].even # classes(k - 1)[1].even
    <3>1. \A k \in DOMAIN rows : k > 1 => k - 1 \in DOMAIN rows
      OBVIOUS
    <3>2. \A k \in DOMAIN rows : rows[k].kind \notin OtherRows
      BY DEF RowOfBlock, BlockRows, OtherRows
    <3>3. \A k \in DOMAIN rows : Colored(Styled(rows)[k])
      BY <1>6, <3>2 DEF Colored
    <3>4. \A k \in DOMAIN rows : k > 1 => Differ(Styled(rows)[k - 1], Styled(rows)[k])
      BY <1>6, <3>1 DEF Differ
    <3> QED BY <1>5, <3>3, <3>4 DEF Stripes
  <2>1. k \in Nat /\ k > 1 => k - 1 \in Nat
    OBVIOUS
  <2>2. k > 1 => classes(k)[1].even # classes(k - 1)[1].even
    <3>1. k > 1 => k - 1 \in Nat /\ ((k - 1) % 2 = 1) # (k % 2 = 1)
      BY <2>1
    <3>2. /\ classes(k)[1].even = (k % 2 = 1)
          /\ k - 1 \in Nat => classes(k - 1)[1].even = ((k - 1) % 2 = 1)
      BY <1>4, <2>1
    <3> QED BY <3>1, <3>2, Zenon
  <2> QED BY <1>3, <1>4, <2>1, <2>2 DEF B, F
<1> QED BY <1>7, <1>8, <1>9

\* The rows of a block get their classes and join the page.
LEMMA EndBlockKeeps == IInv /\ EndBlock => IInv'
<1> SUFFICES ASSUME IInv, EndBlock PROVE IInv'
  OBVIOUS
<1> USE DEF EndBlock, setup, vectors
<1>1. /\ fn \in Nat /\ blk \in Nat
      /\ blk \in DOMAIN F.blocks
      /\ F.blocks \in Seq(BasicBlock)
      /\ B.name \in Name
  BY InHand DEF IInv, TypeOK
<1>2. TypeOK'
  <2>1. F' = F
    BY DEF F
  <2>2. blk' \in 1 .. Len(F.blocks) + 1
    BY <1>1
  <2> QED BY <2>1, <2>2 DEF IInv, TypeOK
<1>3. Setup' /\ Vectors' /\ AnalysesMatch' /\ Row' /\ Tbody'
  BY DEF IInv, Setup, Vectors, AnalysesMatch, Row, Tbody
<1>4. Page' /\ RowsAreStriped'
  <2> DEFINE end   == Element("end", NoValue, <<>>)
             rows  == Append(tbody, end)
             head  == <<Element("block", BlockId(blk), <<>>)>>
             space == <<Element("border", NoValue, <<>>), Element("gap", NoValue, <<>>)>>
  <2>1. RowOfBlock(end)
    BY <1>1, IdTypes DEF RowOfBlock, Element, PageElement, Filled, Kind
  <2>2. rows \in Seq(PageElement) /\ \A k \in DOMAIN rows : RowOfBlock(rows[k])
    <3>1. tbody \in Seq(PageElement) /\ \A k \in DOMAIN tbody : RowOfBlock(tbody[k])
      BY DEF IInv, Tbody
    <3>2. end \in PageElement
      BY <2>1 DEF RowOfBlock
    <3> HIDE DEF end
    <3> QED BY <2>1, <3>1, <3>2
  <2>3. /\ head \in Seq(PageElement) /\ Len(head) = 1
        /\ head[1].kind \notin BlockRows /\ head[1].kind \notin OtherRows
        /\ Filled(head[1])
    <3>1. BlockId(blk) \in IdType
      BY <1>1, IdTypes DEF BlockId, B
    <3> QED BY <1>1, <3>1 DEF Element, PageElement, Kind, BlockRows, OtherRows, Filled
  <2>4. /\ space \in Seq(PageElement) /\ Len(space) = 2
        /\ \A k \in 1 .. 2 : /\ space[k].kind \notin BlockRows
                             /\ space[k].classes = <<>>
                             /\ Filled(space[k])
    BY <1>1, IdTypes DEF Element, PageElement, Kind, BlockRows, OtherRows, Filled
  <2>5. Stripes(head) /\ Stripes(space)
    BY <2>3, <2>4 DEF Stripes, Colored, Differ
  <2> HIDE DEF rows, head, space
  <2>6. /\ Styled(rows) \in Seq(PageElement)
        /\ Stripes(Styled(rows))
        /\ \A k \in DOMAIN Styled(rows) : Filled(Styled(rows)[k])
    BY <2>2, StyledRows
  <2>7. page' = page \o head \o Styled(rows) \o space
    BY DEF rows, head, space
  <2> HIDE DEF EndBlock
  <2> DEFINE block == head \o Styled(rows)
             new   == block \o space
  <2>8. /\ block \in Seq(PageElement) /\ Len(block) > 0 /\ block[1] = head[1]
        /\ \A k \in DOMAIN block : Filled(block[k])
    <3>1. \A k \in DOMAIN block :
             \/ k \in DOMAIN head /\ block[k] = head[k]
             \/ k - Len(head) \in DOMAIN Styled(rows) /\ block[k] = Styled(rows)[k - Len(head)]
      <4>1. head \in Seq(PageElement) /\ Styled(rows) \in Seq(PageElement)
        BY <2>3, <2>6
      <4> QED BY <4>1, ElementOfConcat, Zenon
    <3>2. block \in Seq(PageElement) /\ Len(block) > 0 /\ block[1] = head[1]
      <4>1. head \in Seq(PageElement) /\ Len(head) = 1 /\ Styled(rows) \in Seq(PageElement)
        BY <2>3, <2>6
      <4>2. block \in Seq(PageElement) /\ Len(block) = 1 + Len(Styled(rows))
        BY <4>1, ConcatProperties
      <4>3. \A k \in 1 .. 1 : block[k] = head[k]
        BY <4>1, ConcatAt
      <4>4. Len(Styled(rows)) \in Nat
        BY <4>1
      <4> QED BY <4>2, <4>3, <4>4
    <3> HIDE DEF block
    <3> QED BY <2>3, <2>6, <3>1, <3>2
  <2>9. Stripes(block)
    <3>1. Differ(head[Len(head)], Styled(rows)[1])
      BY <2>3 DEF Differ
    <3> QED BY <2>3, <2>5, <2>6, <3>1, StripesJoin
  <2> HIDE DEF block
  <2>10. /\ new \in Seq(PageElement) /\ Len(new) > 0 /\ new[1] = head[1]
         /\ \A k \in DOMAIN new : Filled(new[k])
    <3>1. \A k \in DOMAIN new :
             \/ k \in DOMAIN block /\ new[k] = block[k]
             \/ k - Len(block) \in DOMAIN space /\ new[k] = space[k - Len(block)]
      BY <2>4, <2>8, ElementOfConcat
    <3>2. new \in Seq(PageElement) /\ Len(new) > 0 /\ new[1] = head[1]
      BY <2>4, <2>8
    <3>3. DOMAIN space = 1 .. 2
      BY <2>4
    <3> HIDE DEF new
    <3>4. \A k \in DOMAIN new : Filled(new[k])
      BY <2>4, <2>8, <3>1, <3>3, Zenon
    <3> QED BY <3>2, <3>4
  <2>11. Stripes(new)
    <3>1. Differ(block[Len(block)], space[1])
      BY <2>4 DEF Differ
    <3> QED BY <2>4, <2>5, <2>8, <2>9, <3>1, StripesJoin
  <2>12. page' = page \o new
    <3>1. page \in Seq(PageElement)
      BY DEF IInv, Page
    <3>2. ConcatAssociates(PageElement)
      BY Associative
    <3>3. (page \o head) \o Styled(rows) = page \o block
      BY <2>3, <2>6, <3>1, <3>2, Zenon DEF ConcatAssociates, block
    <3>4. (page \o block) \o space = page \o new
      BY <2>4, <2>8, <3>1, <3>2, Zenon DEF ConcatAssociates
    <3> QED BY <2>7, <3>3, <3>4, Zenon
  <2>13. UNCHANGED <<mod, css>>
    BY DEF EndBlock, setup
  <2>14. new[1].kind \notin BlockRows
    BY <2>3, <2>10
  <2> HIDE DEF new
  <2> QED BY <2>10, <2>11, <2>12, <2>13, <2>14, DocumentGrows
<1> QED BY <1>2, <1>3, <1>4 DEF IInv

-----------------------------------------------------------------------------
(* The ids of some elements.                                               *)

IdSeqs(s) == [k \in DOMAIN s |-> IdOf(s[k])]

\* An element has one id or none.
LEMMA IdOfType ==
  ASSUME NEW e \in PageElement
  PROVE  IdOf(e) \in Seq(IdType)
<1>1. e.id \in IdType
  BY DEF PageElement
<1> QED BY <1>1 DEF IdOf

\* The ids of elements, one sequence each.
LEMMA IdSeqsType ==
  ASSUME NEW s \in Seq(PageElement)
  PROVE  /\ IdSeqs(s) \in Seq(Seq(IdType))
         /\ Len(IdSeqs(s)) = Len(s)
         /\ \A k \in 1 .. Len(s) : IdSeqs(s)[k] = IdOf(s[k])
<1>1. DOMAIN s = 1 .. Len(s) /\ Len(s) \in Nat
  BY LenProperties
<1>2. \A k \in 1 .. Len(s) : IdOf(s[k]) \in Seq(IdType)
  BY IdOfType, ElementOfSeq
<1>3. IdSeqs(s) \in [1 .. Len(s) -> Seq(IdType)]
  BY <1>1, <1>2 DEF IdSeqs
<1>4. \A k \in 1 .. Len(s) : IdSeqs(s)[k] = IdOf(s[k])
  BY <1>1 DEF IdSeqs
<1> QED BY <1>1, <1>3, <1>4, FunctionIsSeq

\* The ids of elements are put together in order.
LEMMA IdsOfIs ==
  ASSUME NEW s \in Seq(PageElement)
  PROVE  IdsOf(s) = FlattenSeq(IdSeqs(s)) /\ IdsOf(s) \in Seq(IdType)
BY IdSeqsType, FlattenType DEF IdsOf, IdSeqs

\* The ids of more elements come after those that are there.
LEMMA IdsOfConcat ==
  ASSUME NEW s \in Seq(PageElement), NEW t \in Seq(PageElement)
  PROVE  IdsOf(s \o t) = IdsOf(s) \o IdsOf(t)
<1>1. s \o t \in Seq(PageElement) /\ Len(s \o t) = Len(s) + Len(t)
  BY ConcatProperties
<1>2. /\ IdSeqs(s) \in Seq(Seq(IdType)) /\ Len(IdSeqs(s)) = Len(s)
      /\ IdSeqs(t) \in Seq(Seq(IdType)) /\ Len(IdSeqs(t)) = Len(t)
      /\ IdSeqs(s \o t) \in Seq(Seq(IdType)) /\ Len(IdSeqs(s \o t)) = Len(s) + Len(t)
  BY <1>1, IdSeqsType
<1>3. ASSUME NEW k \in 1 .. Len(s) + Len(t)
      PROVE  IdSeqs(s \o t)[k] = (IdSeqs(s) \o IdSeqs(t))[k]
  <2>1. IdSeqs(s \o t)[k] = IdOf((s \o t)[k])
    BY <1>1, IdSeqsType
  <2>2. CASE k <= Len(s)
    <3>1. (s \o t)[k] = s[k] /\ k \in 1 .. Len(s)
      BY <2>2
    <3>2. (IdSeqs(s) \o IdSeqs(t))[k] = IdSeqs(s)[k]
      BY <1>2, <2>2
    <3> QED BY <2>1, <3>1, <3>2, IdSeqsType
  <2>3. CASE k > Len(s)
    <3>1. (s \o t)[k] = t[k - Len(s)] /\ k - Len(s) \in 1 .. Len(t)
      BY <2>3
    <3>2. k \in Len(s) + 1 .. Len(s) + Len(t) /\ Len(s) \in Nat
      BY <2>3
    <3>3. (IdSeqs(s) \o IdSeqs(t))[k] = IdSeqs(t)[k - Len(s)]
      <4> DEFINE a == IdSeqs(s)
                 b == IdSeqs(t)
      <4>1. /\ a \in Seq(Seq(IdType)) /\ Len(a) = Len(s)
            /\ b \in Seq(Seq(IdType)) /\ Len(b) = Len(t)
        BY <1>2
      <4> HIDE DEF a, b
      <4>2. (a \o b)[k] = b[k - Len(s)]
        BY <3>2, <4>1
      <4> QED BY <4>2 DEF a, b
    <3>4. IdSeqs(t)[k - Len(s)] = IdOf(t[k - Len(s)])
      BY <3>1, IdSeqsType
    <3> QED BY <2>1, <3>1, <3>3, <3>4, Zenon
  <2>4. k <= Len(s) \/ k > Len(s)
    OBVIOUS
  <2> QED BY <2>2, <2>3, <2>4, Zenon
<1>4. IdSeqs(s \o t) = IdSeqs(s) \o IdSeqs(t)
  <2>1. /\ IdSeqs(s) \o IdSeqs(t) \in Seq(Seq(IdType))
        /\ Len(IdSeqs(s) \o IdSeqs(t)) = Len(s) + Len(t)
    BY <1>2, ConcatProperties
  <2> QED BY <1>2, <1>3, <2>1, SeqEqual
<1>5. FlattenSeq(IdSeqs(s) \o IdSeqs(t)) = FlattenSeq(IdSeqs(s)) \o FlattenSeq(IdSeqs(t))
  BY <1>2, FlattenConcat
<1> QED BY <1>1, <1>4, <1>5, IdsOfIs

\* The ids of one element.
LEMMA IdsOfOne ==
  ASSUME NEW e \in PageElement
  PROVE  IdsOf(<<e>>) = IdOf(e)
<1>1. <<e>> \in Seq(PageElement)
  OBVIOUS
<1> DEFINE s == <<e>>
<1>4. Len(s) = 1 /\ s[1] = e /\ s \in Seq(PageElement)
  OBVIOUS
<1> HIDE DEF s
<1>5. /\ IdSeqs(s) \in Seq(Seq(IdType)) /\ Len(IdSeqs(s)) = 1
      /\ IdSeqs(s)[1] = IdOf(e)
  BY <1>4, IdSeqsType
<1>2. /\ IdSeqs(<<e>>) \in Seq(Seq(IdType)) /\ Len(IdSeqs(<<e>>)) = 1
      /\ IdSeqs(<<e>>)[1] = IdOf(e)
  BY <1>5 DEF s
<1>3. IdSeqs(<<e>>) = <<IdOf(e)>>
  BY <1>2
<1> QED BY <1>1, <1>3, IdOfType, IdsOfIs, FlattenOne

\* Only the ids count.
LEMMA IdsOfSame ==
  ASSUME NEW s \in Seq(PageElement), NEW t \in Seq(PageElement), Len(s) = Len(t),
         \A k \in 1 .. Len(s) : s[k].id = t[k].id
  PROVE  IdsOf(s) = IdsOf(t)
<1>1. \A k \in 1 .. Len(s) : IdOf(s[k]) = IdOf(t[k])
  BY DEF IdOf
<1>2. DOMAIN s = 1 .. Len(s) /\ DOMAIN t = 1 .. Len(s)
  BY LenProperties
<1>3. IdSeqs(s) = IdSeqs(t)
  BY <1>1, <1>2 DEF IdSeqs
<1> QED BY <1>3, IdsOfIs

\* Elements without an id.
LEMMA IdsOfNone ==
  ASSUME NEW s \in Seq(PageElement), \A k \in 1 .. Len(s) : s[k].id = NoValue
  PROVE  IdsOf(s) = <<>>
<1>1. \A k \in 1 .. Len(s) : IdSeqs(s)[k] = <<>>
  BY IdSeqsType DEF IdOf
<1>2. ASSUME NEW v
      PROVE  v \notin Range(IdsOf(s))
  <2>1. v \in Range(IdsOf(s)) => \E k \in 1 .. Len(s) : v \in Range(IdSeqs(s)[k])
    BY IdsOfIs, IdSeqsType, FlattenRange
  <2>2. v \notin Range(<<>>)
    BY DEF Range
  <2> QED BY <1>1, <2>1, <2>2
<1>3. IdsOf(s) \in Seq(IdType)
  BY IdsOfIs
<1>4. Len(IdsOf(s)) = 0
  <2>1. \A k \in DOMAIN IdsOf(s) : IdsOf(s)[k] \in Range(IdsOf(s))
    BY DEF Range
  <2> HIDE DEF Range
  <2>2. DOMAIN IdsOf(s) = {}
    BY <1>2, <2>1
  <2> QED BY <1>3, <2>2, LenProperties
<1> QED BY <1>3, <1>4

-----------------------------------------------------------------------------
(* The ids of the module.                                                  *)

\* The ids of a module, piece by piece, are ids.
LEMMA ModuleIdTypes ==
  ASSUME mod \in Modules, NEW j \in DOMAIN mod
  PROVE  /\ HeaderIds(j) \in Seq(IdType)
         /\ FunctionIds(j) \in Seq(IdType)
         /\ \A b \in DOMAIN mod[j].blocks :
              /\ BlockIds(j, mod[j].blocks[b]) \in Seq(IdType)
              /\ \A i \in DOMAIN mod[j].blocks[b].insts :
                   ResultId(j, mod[j].blocks[b].insts[i]) \in Seq(IdType)
<1>1. /\ j \in Nat
      /\ mod[j].args \in Seq(Name) /\ mod[j].blocks \in Seq(BasicBlock)
  BY ModuleTypes
<1>2. HeaderIds(j) \in Seq(IdType)
  <2> DEFINE f == [k \in DOMAIN mod[j].args |-> Local(j, mod[j].args[k])]
  <2>1. DOMAIN mod[j].args = 1 .. Len(mod[j].args) /\ Len(mod[j].args) \in Nat
    BY <1>1
  <2>2. \A k \in DOMAIN mod[j].args : Local(j, mod[j].args[k]) \in IdType
    BY <1>1, IdTypes
  <2>3. f \in [1 .. Len(mod[j].args) -> IdType]
    BY <2>1, <2>2
  <2> HIDE DEF f
  <2>4. f \in Seq(IdType)
    BY <2>1, <2>3, FunctionIsSeq
  <2>5. <<Fn(j), Code(j)>> \in Seq(IdType)
    <3>1. Fn(j) \in IdType /\ Code(j) \in IdType
      BY <1>1, IdTypes
    <3> QED BY <3>1
  <2>6. <<Fn(j), Code(j)>> \o f \in Seq(IdType)
    BY <2>4, <2>5, ConcatProperties
  <2> QED BY <2>6 DEF HeaderIds, f
<1>3. ASSUME NEW b \in DOMAIN mod[j].blocks, NEW i \in DOMAIN mod[j].blocks[b].insts
      PROVE  ResultId(j, mod[j].blocks[b].insts[i]) \in Seq(IdType)
  <2>1. mod[j].blocks[b].insts[i].name \in Name \cup {Void}
    BY ModuleTypes
  <2> DEFINE n == mod[j].blocks[b].insts[i].name
  <2>2. n # Void => Local(j, n) \in IdType
    BY <1>1, <2>1, IdTypes
  <2> HIDE DEF n
  <2>3. (IF n = Void THEN <<>> ELSE <<Local(j, n)>>) \in Seq(IdType)
    BY <2>2
  <2> QED BY <2>3 DEF ResultId, n
<1>4. ASSUME NEW b \in DOMAIN mod[j].blocks
      PROVE  BlockIds(j, mod[j].blocks[b]) \in Seq(IdType)
  <2> DEFINE insts == mod[j].blocks[b].insts
             f == [k \in DOMAIN insts |-> ResultId(j, insts[k])]
  <2>1. insts \in Seq(Instruction) /\ mod[j].blocks[b].name \in Name
    BY ModuleTypes
  <2>2. \A k \in DOMAIN insts : ResultId(j, insts[k]) \in Seq(IdType)
    BY <1>3
  <2>3. Local(j, mod[j].blocks[b].name) \in IdType
    BY <1>1, <2>1, IdTypes
  <2> HIDE DEF insts
  <2>4. DOMAIN insts = 1 .. Len(insts) /\ Len(insts) \in Nat
    BY <2>1
  <2>5. f \in [1 .. Len(insts) -> Seq(IdType)]
    BY <2>2, <2>4
  <2> HIDE DEF f
  <2>6. FlattenSeq(f) \in Seq(IdType)
    BY <2>4, <2>5, FunctionIsSeq, FlattenType
  <2>7. <<Local(j, mod[j].blocks[b].name)>> \o FlattenSeq(f) \in Seq(IdType)
    BY <2>3, <2>6
  <2> QED BY <2>7 DEF BlockIds, f, insts
<1>5. FunctionIds(j) \in Seq(IdType)
  <2> DEFINE blocks == mod[j].blocks
             f == [k \in DOMAIN blocks |-> BlockIds(j, blocks[k])]
  <2>1. \A k \in DOMAIN blocks : BlockIds(j, blocks[k]) \in Seq(IdType)
    BY <1>4
  <2>2. DOMAIN blocks = 1 .. Len(blocks) /\ Len(blocks) \in Nat
    BY <1>1
  <2> HIDE DEF blocks
  <2>3. f \in [1 .. Len(blocks) -> Seq(IdType)]
    BY <2>1, <2>2
  <2> HIDE DEF f
  <2>4. FlattenSeq(f) \in Seq(IdType)
    BY <2>2, <2>3, FunctionIsSeq, FlattenType
  <2>5. HeaderIds(j) \o FlattenSeq(f) \in Seq(IdType)
    BY <1>2, <2>4, ConcatProperties
  <2> QED BY <2>5 DEF FunctionIds, f, blocks
<1> QED BY <1>2, <1>3, <1>4, <1>5

\* The ids of the first n functions of the module, of the first n blocks of the
\* function in hand, of the first n instructions of the block in hand.
FirstFunctions(n) == FlattenSeq([j \in 1 .. n |-> FunctionIds(j)])
FirstBlocks(n)    == FlattenSeq([k \in 1 .. n |-> BlockIds(fn, F.blocks[k])])
FirstResults(n)   == FlattenSeq([k \in 1 .. n |-> ResultId(fn, B.insts[k])])

\* The ids of the first functions, one function more at a time.
LEMMA FunctionsGrow ==
  ASSUME mod \in Modules
  PROVE  /\ FirstFunctions(0) = <<>>
         /\ FirstFunctions(Len(mod)) = ModuleIds
         /\ \A n \in 0 .. Len(mod) : FirstFunctions(n) \in Seq(IdType)
         /\ \A n \in DOMAIN mod :
              FirstFunctions(n) = FirstFunctions(n - 1) \o FunctionIds(n)
<1>1. mod \in Seq(Function) /\ DOMAIN mod = 1 .. Len(mod) /\ Len(mod) \in Nat
  BY ModuleTypes
<1>2. \A j \in 1 .. Len(mod) : FunctionIds(j) \in Seq(IdType)
  BY <1>1, ModuleIdTypes
<1>3. ASSUME NEW n \in 0 .. Len(mod)
      PROVE  /\ [j \in 1 .. n |-> FunctionIds(j)] \in [1 .. n -> Seq(IdType)]
             /\ FirstFunctions(n) \in Seq(IdType)
  <2> DEFINE f == [j \in 1 .. n |-> FunctionIds(j)]
  <2>1. n \in Nat /\ \A j \in 1 .. n : j \in 1 .. Len(mod)
    BY <1>1
  <2>2. f \in [1 .. n -> Seq(IdType)]
    BY <1>2, <2>1
  <2> HIDE DEF f
  <2>3. FlattenSeq(f) \in Seq(IdType)
    BY <2>1, <2>2, FunctionIsSeq, FlattenType
  <2> QED BY <2>2, <2>3 DEF f, FirstFunctions
<1>4. FirstFunctions(0) = <<>>
  <2>1. 0 \in 0 .. Len(mod)
    BY <1>1
  <2> QED BY <1>3, <2>1, FlattenNone DEF FirstFunctions
<1>5. FirstFunctions(Len(mod)) = ModuleIds
  BY <1>1 DEF FirstFunctions, ModuleIds
<1>6. ASSUME NEW n \in DOMAIN mod
      PROVE  FirstFunctions(n) = FirstFunctions(n - 1) \o FunctionIds(n)
  <2> DEFINE f == [j \in 1 .. n |-> FunctionIds(j)]
  <2>1. n - 1 \in Nat /\ n = (n - 1) + 1 /\ n \in 0 .. Len(mod)
    BY <1>1
  <2>2. f \in [1 .. (n - 1) + 1 -> Seq(IdType)]
    BY <1>3, <2>1
  <2>3. /\ f[(n - 1) + 1] = FunctionIds(n)
        /\ [k \in 1 .. n - 1 |-> f[k]] = [j \in 1 .. n - 1 |-> FunctionIds(j)]
    BY <2>1
  <2> HIDE DEF f
  <2>4. FlattenSeq(f) = FlattenSeq([k \in 1 .. n - 1 |-> f[k]]) \o f[(n - 1) + 1]
    BY <2>1, <2>2, FlattenGrows
  <2>5. FlattenSeq(f) = FlattenSeq([j \in 1 .. n - 1 |-> FunctionIds(j)]) \o FunctionIds(n)
    BY <2>3, <2>4, Zenon
  <2> QED BY <2>5 DEF f, FirstFunctions
<1> QED BY <1>3, <1>4, <1>5, <1>6

\* The ids of the first blocks of the function in hand.
LEMMA BlocksGrow ==
  ASSUME mod \in Modules, fn \in DOMAIN mod
  PROVE  /\ FirstBlocks(0) = <<>>
         /\ F.blocks # <<>> =>
              FunctionIds(fn) = HeaderIds(fn) \o FirstBlocks(Len(F.blocks))
         /\ \A n \in 0 .. Len(F.blocks) : FirstBlocks(n) \in Seq(IdType)
         /\ \A n \in DOMAIN F.blocks :
              FirstBlocks(n) = FirstBlocks(n - 1) \o BlockIds(fn, F.blocks[n])
<1>1. /\ F.blocks \in Seq(BasicBlock)
      /\ DOMAIN F.blocks = 1 .. Len(F.blocks) /\ Len(F.blocks) \in Nat
  BY ModuleTypes DEF F
<1>2. \A j \in 1 .. Len(F.blocks) : BlockIds(fn, F.blocks[j]) \in Seq(IdType)
  BY <1>1, ModuleIdTypes DEF F
<1>3. ASSUME NEW n \in 0 .. Len(F.blocks)
      PROVE  /\ [j \in 1 .. n |-> BlockIds(fn, F.blocks[j])] \in [1 .. n -> Seq(IdType)]
             /\ FirstBlocks(n) \in Seq(IdType)
  <2> DEFINE f == [j \in 1 .. n |-> BlockIds(fn, F.blocks[j])]
  <2>1. n \in Nat /\ \A j \in 1 .. n : j \in 1 .. Len(F.blocks)
    BY <1>1
  <2>2. f \in [1 .. n -> Seq(IdType)]
    BY <1>2, <2>1
  <2> HIDE DEF f
  <2>3. FlattenSeq(f) \in Seq(IdType)
    BY <2>1, <2>2, FunctionIsSeq, FlattenType
  <2> QED BY <2>2, <2>3 DEF f, FirstBlocks
<1>4. FirstBlocks(0) = <<>>
  <2>1. 0 \in 0 .. Len(F.blocks)
    BY <1>1
  <2> QED BY <1>3, <2>1, FlattenNone DEF FirstBlocks
<1>5. F.blocks # <<>> => FunctionIds(fn) = HeaderIds(fn) \o FirstBlocks(Len(F.blocks))
  BY <1>1 DEF FirstBlocks, FunctionIds, F
<1>6. ASSUME NEW n \in DOMAIN F.blocks
      PROVE  FirstBlocks(n) = FirstBlocks(n - 1) \o BlockIds(fn, F.blocks[n])
  <2> DEFINE f == [j \in 1 .. n |-> BlockIds(fn, F.blocks[j])]
  <2>1. n - 1 \in Nat /\ n = (n - 1) + 1 /\ n \in 0 .. Len(F.blocks)
    BY <1>1
  <2>2. f \in [1 .. (n - 1) + 1 -> Seq(IdType)]
    BY <1>3, <2>1
  <2>3. /\ f[(n - 1) + 1] = BlockIds(fn, F.blocks[n])
        /\ [k \in 1 .. n - 1 |-> f[k]] = [j \in 1 .. n - 1 |-> BlockIds(fn, F.blocks[j])]
    BY <2>1
  <2> HIDE DEF f
  <2>4. FlattenSeq(f) = FlattenSeq([k \in 1 .. n - 1 |-> f[k]]) \o f[(n - 1) + 1]
    BY <2>1, <2>2, FlattenGrows
  <2>5. FlattenSeq(f) = FlattenSeq([j \in 1 .. n - 1 |-> BlockIds(fn, F.blocks[j])])
                          \o BlockIds(fn, F.blocks[n])
    BY <2>3, <2>4, Zenon
  <2> QED BY <2>5 DEF f, FirstBlocks
<1> QED BY <1>3, <1>4, <1>5, <1>6

\* The ids of the first instructions of the block in hand.
LEMMA ResultsGrow ==
  ASSUME mod \in Modules, fn \in DOMAIN mod, blk \in DOMAIN F.blocks
  PROVE  /\ FirstResults(0) = <<>>
         /\ BlockIds(fn, B) = <<BlockId(blk)>> \o FirstResults(Len(B.insts))
         /\ \A n \in 0 .. Len(B.insts) : FirstResults(n) \in Seq(IdType)
         /\ \A n \in DOMAIN B.insts :
              FirstResults(n) = FirstResults(n - 1) \o ResultId(fn, B.insts[n])
<1>1. /\ B.insts \in Seq(Instruction)
      /\ DOMAIN B.insts = 1 .. Len(B.insts) /\ Len(B.insts) \in Nat
  BY ModuleTypes DEF F, B
<1>2. \A j \in 1 .. Len(B.insts) : ResultId(fn, B.insts[j]) \in Seq(IdType)
  BY <1>1, ModuleIdTypes DEF F, B
<1>3. ASSUME NEW n \in 0 .. Len(B.insts)
      PROVE  /\ [j \in 1 .. n |-> ResultId(fn, B.insts[j])] \in [1 .. n -> Seq(IdType)]
             /\ FirstResults(n) \in Seq(IdType)
  <2> DEFINE f == [j \in 1 .. n |-> ResultId(fn, B.insts[j])]
  <2>1. n \in Nat /\ \A j \in 1 .. n : j \in 1 .. Len(B.insts)
    BY <1>1
  <2>2. f \in [1 .. n -> Seq(IdType)]
    BY <1>2, <2>1
  <2> HIDE DEF f
  <2>3. FlattenSeq(f) \in Seq(IdType)
    BY <2>1, <2>2, FunctionIsSeq, FlattenType
  <2> QED BY <2>2, <2>3 DEF f, FirstResults
<1>4. FirstResults(0) = <<>>
  <2>1. 0 \in 0 .. Len(B.insts)
    BY <1>1
  <2> QED BY <1>3, <2>1, FlattenNone DEF FirstResults
<1>5. BlockIds(fn, B) = <<BlockId(blk)>> \o FirstResults(Len(B.insts))
  BY <1>1 DEF FirstResults, BlockIds, BlockId, B
<1>6. ASSUME NEW n \in DOMAIN B.insts
      PROVE  FirstResults(n) = FirstResults(n - 1) \o ResultId(fn, B.insts[n])
  <2> DEFINE f == [j \in 1 .. n |-> ResultId(fn, B.insts[j])]
  <2>1. n - 1 \in Nat /\ n = (n - 1) + 1 /\ n \in 0 .. Len(B.insts)
    BY <1>1
  <2>2. f \in [1 .. (n - 1) + 1 -> Seq(IdType)]
    BY <1>3, <2>1
  <2>3. /\ f[(n - 1) + 1] = ResultId(fn, B.insts[n])
        /\ [k \in 1 .. n - 1 |-> f[k]] = [j \in 1 .. n - 1 |-> ResultId(fn, B.insts[j])]
    BY <2>1
  <2> HIDE DEF f
  <2>4. FlattenSeq(f) = FlattenSeq([k \in 1 .. n - 1 |-> f[k]]) \o f[(n - 1) + 1]
    BY <2>1, <2>2, FlattenGrows
  <2>5. FlattenSeq(f) = FlattenSeq([j \in 1 .. n - 1 |-> ResultId(fn, B.insts[j])])
                          \o ResultId(fn, B.insts[n])
    BY <2>3, <2>4, Zenon
  <2> QED BY <2>5 DEF f, FirstResults
<1> QED BY <1>3, <1>4, <1>5, <1>6

-----------------------------------------------------------------------------
(* The ids are printed in the order of the module.                         *)

AtFunction == pc \in {"register", "head", "controls", "functions", "renderers", "stylers"}
IdsInOrder ==
  /\ AtFunction => IdsOf(page) = FirstFunctions(fn - 1)
  /\ pc \in {"block", "instruction"}
       => IdsOf(page) = FirstFunctions(fn - 1) \o (HeaderIds(fn) \o FirstBlocks(blk - 1))
  /\ pc = "instruction" => IdsOf(tbody) = FirstResults(inst - 1)
  /\ pc = "done" => IdsOf(page) = ModuleIds

\* The ids of a module only depend on the module.
LEMMA ModuleStays ==
  ASSUME mod' = mod
  PROVE  /\ ModuleIds' = ModuleIds
         /\ \A n : FirstFunctions(n)' = FirstFunctions(n)
         /\ \A j : HeaderIds(j)' = HeaderIds(j)
BY DEF ModuleIds, FirstFunctions, FunctionIds, HeaderIds

\* Those of the first blocks only on the function in hand.
LEMMA FunctionStays ==
  ASSUME mod' = mod, fn' = fn
  PROVE  /\ \A n : FirstBlocks(n)' = FirstBlocks(n)
         /\ F' = F
BY DEF FirstBlocks, F

\* Those of the first instructions only on the block in hand.
LEMMA BlockStays ==
  ASSUME mod' = mod, fn' = fn, blk' = blk
  PROVE  /\ \A n : FirstResults(n)' = FirstResults(n)
         /\ B' = B
BY DEF FirstResults, B, F

\* Between functions, a step that prints nothing keeps the order.
LEMMA StillAtFunction ==
  ASSUME IdsInOrder, AtFunction, AtFunction', UNCHANGED <<mod, fn, page>>
  PROVE  IdsInOrder'
<1>1. IdsOf(page)' = IdsOf(page)
  BY DEF IdsOf
<1>2. FirstFunctions(fn - 1)' = FirstFunctions(fn - 1)
  BY ModuleStays DEF FirstFunctions
<1> QED BY <1>1, <1>2 DEF IdsInOrder, AtFunction

\* An empty page has the ids of no functions.
LEMMA OrderInit == Init => IdsInOrder
<1> SUFFICES ASSUME Init PROVE IdsInOrder
  OBVIOUS
<1>1. IdsOf(<<>>) = <<>>
  <2> DEFINE s == <<>>
  <2>1. s \in Seq(PageElement) /\ Len(s) = 0
    OBVIOUS
  <2> HIDE DEF s
  <2>2. \A k \in 1 .. Len(s) : s[k].id = NoValue
    BY <2>1
  <2>3. IdsOf(s) = <<>>
    BY <2>1, <2>2, IdsOfNone
  <2> QED BY <2>3 DEF s
<1>2. FirstFunctions(0) = <<>>
  BY FunctionsGrow DEF Init
<1>3. fn - 1 = 0 /\ page = <<>> /\ pc = "register"
  BY DEF Init
<1> QED BY <1>1, <1>2, <1>3 DEF IdsInOrder, AtFunction

\* A declaration has no ids.
LEMMA SkipDeclarationInOrder == IInv /\ IdsInOrder /\ SkipDeclaration => IdsInOrder'
<1> SUFFICES ASSUME IInv, IdsInOrder, SkipDeclaration PROVE IdsInOrder'
  OBVIOUS
<1>1. /\ mod' = mod /\ page' = page /\ fn' = fn + 1 /\ pc = "functions" /\ pc' = pc
      /\ F.blocks = <<>> /\ fn \in DOMAIN mod /\ mod \in Modules
  BY ModuleTypes DEF SkipDeclaration, IInv, TypeOK
<1>2. FunctionIds(fn) = <<>>
  BY <1>1 DEF FunctionIds, F
<1>3. /\ FirstFunctions(fn - 1) \in Seq(IdType)
      /\ FirstFunctions(fn) = FirstFunctions(fn - 1) \o FunctionIds(fn)
  <2>1. fn - 1 \in 0 .. Len(mod)
    BY <1>1, ModuleTypes
  <2> QED BY <1>1, <2>1, FunctionsGrow
<1>4. FirstFunctions(fn) = FirstFunctions(fn - 1)
  <2>1. FirstFunctions(fn - 1) \o <<>> = FirstFunctions(fn - 1)
    BY <1>3
  <2> QED BY <1>2, <1>3, <2>1
<1>5. FirstFunctions(fn - 1)' = FirstFunctions(fn)
  <2>1. fn' - 1 = fn
    BY <1>1, ModuleTypes
  <2> QED BY <1>1, <2>1, ModuleStays DEF FirstFunctions
<1>6. IdsOf(page)' = IdsOf(page)
  BY <1>1 DEF IdsOf
<1> QED BY <1>1, <1>4, <1>5, <1>6 DEF IdsInOrder, AtFunction

\* A header adds the ids of the function and its arguments.
LEMMA EmitHeaderInOrder == IInv /\ IInv' /\ IdsInOrder /\ EmitHeader => IdsInOrder'
<1> SUFFICES ASSUME IInv, IInv', IdsInOrder, EmitHeader PROVE IdsInOrder'
  OBVIOUS
<1> DEFINE args == [k \in DOMAIN F.args |-> Element("arg", Local(fn, F.args[k]), <<>>)]
           ids  == [k \in DOMAIN F.args |-> Local(fn, F.args[k])]
           head == <<Element("function", Fn(fn), <<>>), Element("code", Code(fn), <<>>)>>
<1>1. /\ mod' = mod /\ fn' = fn /\ blk' = 1 /\ pc = "stylers" /\ pc' = "block"
      /\ page' = page \o head \o args
      /\ fn \in DOMAIN mod /\ mod \in Modules /\ fn \in Nat /\ blk \in Nat
      /\ F.args \in Seq(Name)
  BY ModuleTypes DEF EmitHeader, IInv, TypeOK, Setup, F
<1>2. page \in Seq(PageElement)
  BY DEF IInv, Page
<1>3. <<>> \in Seq(Column) /\ {"function", "code", "arg"} \subseteq Kind
  BY DEF Kind
<1>4. /\ head \in Seq(PageElement)
      /\ IdsOf(head) = <<Fn(fn), Code(fn)>>
  <2> DEFINE e == Element("function", Fn(fn), <<>>)
             c == Element("code", Code(fn), <<>>)
  <2>1. e \in PageElement /\ c \in PageElement
    BY <1>1, <1>3, IdTypes, ElementType
  <2>2. e.id = Fn(fn) /\ c.id = Code(fn) /\ Fn(fn) # NoValue /\ Code(fn) # NoValue
    BY DEF Element, Fn, Code, NoValue
  <2> HIDE DEF e, c
  <2>3. IdsOf(<<e>>) = <<Fn(fn)>> /\ IdsOf(<<c>>) = <<Code(fn)>>
    BY <2>1, <2>2, IdsOfOne DEF IdOf
  <2>4. <<e>> \in Seq(PageElement) /\ <<c>> \in Seq(PageElement) /\ <<e>> \o <<c>> = <<e, c>>
    BY <2>1, Pair
  <2>5. IdsOf(<<e>> \o <<c>>) = <<Fn(fn)>> \o <<Code(fn)>>
    BY <2>3, <2>4, IdsOfConcat
  <2>6. <<Fn(fn)>> \o <<Code(fn)>> = <<Fn(fn), Code(fn)>>
    <3>1. Fn(fn) \in IdType /\ Code(fn) \in IdType
      BY <1>1, IdTypes
    <3> QED BY <3>1, Pair
  <2>7. <<e, c>> \in Seq(PageElement) /\ IdsOf(<<e, c>>) = <<Fn(fn), Code(fn)>>
    <3>1. <<e, c>> \in Seq(PageElement)
      BY <2>1
    <3> QED BY <2>4, <2>5, <2>6, <3>1, Zenon
  <2> QED BY <2>7 DEF e, c
<1>5. /\ args \in Seq(PageElement)
      /\ ids \in Seq(IdType)
      /\ IdsOf(args) = ids
  <2>1. DOMAIN F.args = 1 .. Len(F.args) /\ Len(F.args) \in Nat
    BY <1>1
  <2>2. ASSUME NEW k \in 1 .. Len(F.args)
        PROVE  /\ Local(fn, F.args[k]) \in IdType /\ Local(fn, F.args[k]) # NoValue
               /\ Element("arg", Local(fn, F.args[k]), <<>>) \in PageElement
               /\ Element("arg", Local(fn, F.args[k]), <<>>).id = Local(fn, F.args[k])
    <3>1. Local(fn, F.args[k]) \in IdType
      BY <1>1, <2>1, IdTypes
    <3>2. Element("arg", Local(fn, F.args[k]), <<>>) \in PageElement
      BY <1>1, <1>3, <3>1, ElementType
    <3> QED BY <3>1, <3>2 DEF Element, Local, NoValue
  <2>3. args \in [1 .. Len(F.args) -> PageElement] /\ ids \in [1 .. Len(F.args) -> IdType]
    BY <2>1, <2>2
  <2>4. \A k \in 1 .. Len(F.args) : args[k].id = ids[k] /\ ids[k] # NoValue
    BY <2>1, <2>2
  <2> HIDE DEF args, ids
  <2>5. /\ args \in Seq(PageElement) /\ Len(args) = Len(F.args)
        /\ ids \in Seq(IdType) /\ Len(ids) = Len(F.args)
    BY <2>1, <2>3, FunctionIsSeq
  <2>6. IdSeqs(args) = [k \in 1 .. Len(ids) |-> <<ids[k]>>]
    <3>1. \A k \in 1 .. Len(ids) : IdOf(args[k]) = <<ids[k]>>
      BY <2>4, <2>5 DEF IdOf
    <3>2. DOMAIN args = 1 .. Len(ids)
      BY <2>5
    <3> QED BY <3>1, <3>2 DEF IdSeqs
  <2>7. IdsOf(args) = ids
    BY <2>5, <2>6, IdsOfIs, FlattenSingles
  <2> QED BY <2>5, <2>7
<1>6. HeaderIds(fn) = <<Fn(fn), Code(fn)>> \o ids
  BY DEF HeaderIds, F
<1> HIDE DEF args, ids, head
<1>7. IdsOf(page \o head \o args) = (IdsOf(page) \o IdsOf(head)) \o IdsOf(args)
  <2>1. page \o head \in Seq(PageElement)
    BY <1>2, <1>4
  <2> QED BY <1>2, <1>4, <1>5, <2>1, IdsOfConcat
<1>8. IdsOf(page) = FirstFunctions(fn - 1) /\ FirstFunctions(fn - 1) \in Seq(IdType)
  <2>1. fn - 1 \in 0 .. Len(mod)
    BY <1>1, ModuleTypes
  <2> QED BY <1>1, <2>1, FunctionsGrow DEF IdsInOrder, AtFunction
<1>9. <<Fn(fn), Code(fn)>> \in Seq(IdType)
  BY <1>1, IdTypes
<1>10. (IdsOf(page) \o IdsOf(head)) \o IdsOf(args) = FirstFunctions(fn - 1) \o HeaderIds(fn)
  <2>1. ConcatAssociates(IdType)
    BY Associative
  <2>2. (FirstFunctions(fn - 1) \o <<Fn(fn), Code(fn)>>) \o ids
          = FirstFunctions(fn - 1) \o (<<Fn(fn), Code(fn)>> \o ids)
    BY <1>5, <1>8, <1>9, <2>1, Zenon DEF ConcatAssociates
  <2> QED BY <1>4, <1>5, <1>6, <1>8, <2>2, Zenon
<1>11. HeaderIds(fn) \o FirstBlocks(0) = HeaderIds(fn)
  <2>1. FirstBlocks(0) = <<>> /\ HeaderIds(fn) \in Seq(IdType)
    BY <1>1, BlocksGrow, ModuleIdTypes
  <2> QED BY <2>1
<1>12. IdsOf(page)' = IdsOf(page')
  BY DEF IdsOf
<1>13. /\ FirstFunctions(fn - 1)' = FirstFunctions(fn - 1)
       /\ HeaderIds(fn)' = HeaderIds(fn)
       /\ FirstBlocks(blk - 1)' = FirstBlocks(0)
  <2>1. blk' - 1 = 0
    BY <1>1
  <2> QED BY <1>1, <2>1, ModuleStays, FunctionStays DEF FirstFunctions, HeaderIds, FirstBlocks
<1>14. IdsOf(page)' = (FirstFunctions(fn - 1) \o (HeaderIds(fn) \o FirstBlocks(blk - 1)))'
  BY <1>1, <1>7, <1>10, <1>11, <1>12, <1>13, Zenon
<1> QED BY <1>1, <1>14 DEF IdsInOrder, AtFunction

\* While the block in hand stays the same, the page does.
LEMMA StillInBlock ==
  ASSUME IdsInOrder, pc \in {"block", "instruction"}, pc' = "instruction",
         UNCHANGED <<mod, fn, blk, page>>
  PROVE  (IdsOf(page) = FirstFunctions(fn - 1) \o (HeaderIds(fn) \o FirstBlocks(blk - 1)))'
<1>1. IdsOf(page)' = IdsOf(page)
  BY DEF IdsOf
<1>2. /\ FirstFunctions(fn - 1)' = FirstFunctions(fn - 1)
      /\ HeaderIds(fn)' = HeaderIds(fn)
      /\ FirstBlocks(blk - 1)' = FirstBlocks(blk - 1)
  BY ModuleStays, FunctionStays DEF FirstFunctions, HeaderIds, FirstBlocks
<1>3. IdsOf(page) = FirstFunctions(fn - 1) \o (HeaderIds(fn) \o FirstBlocks(blk - 1))
  BY DEF IdsInOrder
<1> QED BY <1>1, <1>2, <1>3, Zenon

\* A block starts with its own id.
LEMMA EmitBlockHeadInOrder == IInv /\ IInv' /\ IdsInOrder /\ EmitBlockHead => IdsInOrder'
<1> SUFFICES ASSUME IInv, IInv', IdsInOrder, EmitBlockHead PROVE IdsInOrder'
  OBVIOUS
<1>1. /\ UNCHANGED <<mod, fn, blk, page>> /\ pc = "block" /\ pc' = "instruction" /\ inst' = 1
      /\ fn \in DOMAIN mod /\ mod \in Modules /\ blk \in DOMAIN F.blocks
  <2>1. pc = "block" /\ blk <= Len(F.blocks)
    BY DEF EmitBlockHead
  <2>2. fn \in DOMAIN mod /\ blk \in DOMAIN F.blocks
    BY <2>1, InHand DEF IInv, TypeOK
  <2> QED BY <2>1, <2>2 DEF EmitBlockHead, IInv, TypeOK
<1>2. IdsOf(tbody) ' = FirstResults(inst - 1)'
  <2>1. /\ tbody' \in Seq(PageElement)
        /\ Len(tbody') = 4
        /\ \A k \in 1 .. 4 : tbody'[k].id = NoValue
    <3>1. tbody' = <<Element("name", NoValue, <<>>), Element("preds", NoValue, <<>>),
                     Element("succs", NoValue, <<>>), Element("legend", NoValue, attrs)>>
      BY DEF EmitBlockHead
    <3>2. tbody' \in Seq(PageElement)
      BY <1>1 DEF IInv, Tbody
    <3> QED BY <3>1, <3>2 DEF Element
  <2>2. IdsOf(tbody') = <<>>
    BY <2>1, IdsOfNone
  <2>3. FirstResults(0) = <<>>
    BY <1>1, ResultsGrow
  <2>4. FirstResults(inst - 1)' = FirstResults(0)
    <3>1. inst' - 1 = 0
      BY <1>1
    <3> QED BY <1>1, <3>1, BlockStays DEF FirstResults
  <2>5. IdsOf(tbody)' = IdsOf(tbody')
    BY DEF IdsOf
  <2> QED BY <2>2, <2>3, <2>4, <2>5, Zenon
<1> QED BY <1>1, <1>2, StillInBlock DEF IdsInOrder, AtFunction

\* A cell adds no id.
LEMMA RenderCellInOrder == IdsInOrder /\ RenderCell => IdsInOrder'
<1> SUFFICES ASSUME IdsInOrder, RenderCell PROVE IdsInOrder'
  OBVIOUS
<1>1. /\ UNCHANGED <<mod, fn, blk, inst, tbody, page>>
      /\ pc = "instruction" /\ pc' = "instruction"
  BY DEF RenderCell, AtInstruction
<1>2. IdsOf(tbody)' = IdsOf(tbody) /\ FirstResults(inst - 1)' = FirstResults(inst - 1)
  BY <1>1, BlockStays DEF IdsOf, FirstResults
<1> QED BY <1>1, <1>2, StillInBlock DEF IdsInOrder, AtFunction

\* A row adds the id of its instruction, if it has one.
LEMMA EmitInstructionInOrder ==
  IInv /\ IInv' /\ IdsInOrder /\ EmitInstruction => IdsInOrder'
<1> SUFFICES ASSUME IInv, IInv', IdsInOrder, EmitInstruction PROVE IdsInOrder'
  OBVIOUS
<1> DEFINE id == IF I.name = Void THEN NoValue ELSE Local(fn, I.name)
           e  == Element("instruction", id, row)
<1>1. /\ UNCHANGED <<mod, fn, blk, page>> /\ pc = "instruction" /\ pc' = "instruction"
      /\ inst' = inst + 1 /\ tbody' = Append(tbody, e)
      /\ fn \in DOMAIN mod /\ mod \in Modules /\ blk \in DOMAIN F.blocks
      /\ inst \in DOMAIN B.insts /\ inst \in 1 .. Len(B.insts)
      /\ I.name \in Name \cup {Void} /\ fn \in Nat /\ blk \in Nat
  <2>1. pc = "instruction" /\ inst <= Len(B.insts)
    BY DEF EmitInstruction, AtInstruction
  <2>2. fn \in DOMAIN mod /\ blk \in DOMAIN F.blocks /\ fn \in Nat /\ blk \in Nat
    BY <2>1, InHand DEF IInv, TypeOK
  <2>3. inst \in DOMAIN B.insts /\ inst \in 1 .. Len(B.insts)
    BY <2>1, <2>2, InHand DEF IInv, TypeOK
  <2>4. I.name \in Name \cup {Void}
    BY <2>1, <2>2, <2>3, InHand DEF I
  <2> QED BY <2>1, <2>2, <2>3, <2>4 DEF EmitInstruction, IInv, TypeOK
<1>2. tbody \in Seq(PageElement) /\ row \in Seq(Column)
  BY <1>1 DEF IInv, Tbody, Row
<1>3. e \in PageElement /\ e.id = id
  <2>1. "instruction" \in Kind
    BY DEF Kind, BlockRows
  <2>2. id \in IdType
    BY <1>1, IdTypes
  <2> QED BY <1>1, <1>2, <2>1, <2>2, ElementType DEF Element
<1>4. IdOf(e) = ResultId(fn, I)
  BY <1>3 DEF IdOf, ResultId, Local, NoValue
<1> HIDE DEF e
<1>5. IdsOf(tbody') = IdsOf(tbody) \o ResultId(fn, I)
  <2>1. <<e>> \in Seq(PageElement) /\ tbody' = tbody \o <<e>>
    BY <1>1, <1>2, <1>3
  <2>2. IdsOf(tbody \o <<e>>) = IdsOf(tbody) \o IdsOf(<<e>>)
    BY <1>2, <2>1, IdsOfConcat
  <2>3. IdsOf(<<e>>) = ResultId(fn, I)
    BY <1>3, <1>4, IdsOfOne
  <2> QED BY <2>1, <2>2, <2>3, Zenon
<1>6. IdsOf(tbody) = FirstResults(inst - 1)
  BY <1>1 DEF IdsInOrder
<1>7. FirstResults(inst) = FirstResults(inst - 1) \o ResultId(fn, I)
  BY <1>1, ResultsGrow DEF I
<1>8. FirstResults(inst - 1)' = FirstResults(inst)
  <2>1. inst' - 1 = inst
    BY <1>1
  <2> QED BY <1>1, <2>1, BlockStays DEF FirstResults
<1>9. IdsOf(tbody)' = FirstResults(inst - 1)'
  <2>1. IdsOf(tbody)' = IdsOf(tbody')
    BY DEF IdsOf
  <2> QED BY <2>1, <1>5, <1>6, <1>7, <1>8, Zenon
<1> QED BY <1>1, <1>9, StillInBlock DEF IdsInOrder, AtFunction

\* The ids of the rows follow that of the block.
LEMMA EndBlockInOrder == IInv /\ IInv' /\ IdsInOrder /\ EndBlock => IdsInOrder'
<1> SUFFICES ASSUME IInv, IInv', IdsInOrder, EndBlock PROVE IdsInOrder'
  OBVIOUS
<1> DEFINE end  == Element("end", NoValue, <<>>)
           rows == Append(tbody, end)
           head == Element("block", BlockId(blk), <<>>)
           border == Element("border", NoValue, <<>>)
           gap    == Element("gap", NoValue, <<>>)
<1>1. /\ UNCHANGED <<mod, fn>> /\ pc = "instruction" /\ pc' = "block"
      /\ blk' = blk + 1 /\ page' = page \o <<head>> \o Styled(rows) \o <<border, gap>>
      /\ fn \in DOMAIN mod /\ mod \in Modules /\ blk \in DOMAIN F.blocks
      /\ inst = Len(B.insts) + 1 /\ Len(B.insts) \in Nat
      /\ fn \in Nat /\ blk \in Nat /\ blk \in 1 .. Len(F.blocks) /\ B.name \in Name
  <2>1. pc = "instruction" /\ inst > Len(B.insts)
    BY DEF EndBlock
  <2>2. /\ fn \in DOMAIN mod /\ blk \in DOMAIN F.blocks /\ blk \in 1 .. Len(F.blocks)
        /\ fn \in Nat /\ blk \in Nat
    BY <2>1, InHand DEF IInv, TypeOK
  <2>3. Len(B.insts) \in Nat /\ B.name \in Name
    BY <2>1, <2>2, InHand DEF IInv, TypeOK
  <2>4. inst \in 1 .. Len(B.insts) + 1
    BY <2>1, <2>2, InHand DEF IInv, TypeOK
  <2>5. inst = Len(B.insts) + 1
    BY <2>1, <2>3, <2>4
  <2> QED BY <2>1, <2>2, <2>3, <2>5 DEF EndBlock, IInv, TypeOK
<1>2. /\ page \in Seq(PageElement) /\ tbody \in Seq(PageElement)
      /\ \A k \in DOMAIN tbody : RowOfBlock(tbody[k])
  BY <1>1 DEF IInv, Page, Tbody
<1>3. /\ end \in PageElement /\ head \in PageElement
      /\ border \in PageElement /\ gap \in PageElement
      /\ end.id = NoValue /\ head.id = BlockId(blk)
      /\ border.id = NoValue /\ gap.id = NoValue
      /\ BlockId(blk) \in IdType
  <2>1. {"end", "block", "border", "gap"} \subseteq Kind /\ <<>> \in Seq(Column)
    BY DEF Kind, OtherRows
  <2>2. BlockId(blk) \in IdType /\ NoValue \in IdType
    BY <1>1, IdTypes DEF BlockId, B
  <2> QED BY <1>1, <2>1, <2>2, ElementType DEF Element
<1>4. IdsOf(<<head>>) = <<BlockId(blk)>>
  <2>1. IdOf(head) = <<BlockId(blk)>>
    BY <1>3 DEF IdOf, BlockId, Local, NoValue
  <2> QED BY <1>3, <2>1, IdsOfOne
<1>5. RowOfBlock(end)
  BY <1>1, <1>3 DEF RowOfBlock, Element, Filled
<1>6. rows \in Seq(PageElement) /\ \A k \in DOMAIN rows : RowOfBlock(rows[k])
  <2> HIDE DEF end
  <2> QED BY <1>2, <1>3, <1>5
<1>7. IdsOf(rows) = FirstResults(Len(B.insts)) /\ FirstResults(Len(B.insts)) \in Seq(IdType)
  <2> HIDE DEF end
  <2>1. <<end>> \in Seq(PageElement) /\ rows = tbody \o <<end>>
    BY <1>2, <1>3
  <2>2. IdsOf(rows) = IdsOf(tbody) \o IdsOf(<<end>>)
    BY <1>2, <2>1, IdsOfConcat
  <2>3. IdsOf(<<end>>) = <<>>
    BY <1>3, IdsOfOne DEF IdOf
  <2>4. IdsOf(tbody) = FirstResults(Len(B.insts)) /\ FirstResults(Len(B.insts)) \in Seq(IdType)
    <3>1. inst - 1 = Len(B.insts) /\ Len(B.insts) \in 0 .. Len(B.insts)
      BY <1>1
    <3>2. FirstResults(Len(B.insts)) \in Seq(IdType)
      BY <1>1, <3>1, ResultsGrow
    <3> QED BY <1>1, <3>1, <3>2 DEF IdsInOrder
  <2> QED BY <2>2, <2>3, <2>4
<1> HIDE DEF end, rows, head, border, gap
<1>8. /\ Styled(rows) \in Seq(PageElement)
      /\ IdsOf(Styled(rows)) = IdsOf(rows)
  <2>1. Styled(rows) \in Seq(PageElement) /\ Len(Styled(rows)) = Len(rows)
    BY <1>1, <1>6, StyledRows
  <2>2. \A k \in 1 .. Len(rows) : Styled(rows)[k].id = rows[k].id
    <3>1. \A k \in DOMAIN rows : rows[k] \in PageElement
      BY <1>6
    <3>2. DOMAIN rows = 1 .. Len(rows)
      BY <1>6
    <3> QED BY <3>1, <3>2 DEF Styled, PageElement
  <2> QED BY <1>6, <2>1, <2>2, IdsOfSame
<1>9. <<border, gap>> \in Seq(PageElement) /\ IdsOf(<<border, gap>>) = <<>>
  <2>1. <<border, gap>> \in Seq(PageElement) /\ Len(<<border, gap>>) = 2
    BY <1>3
  <2>2. \A k \in 1 .. 2 : <<border, gap>>[k].id = NoValue
    BY <1>3
  <2> QED BY <2>1, <2>2, IdsOfNone
<1>10. IdsOf(page') = (IdsOf(page) \o <<BlockId(blk)>>) \o FirstResults(Len(B.insts))
  <2> DEFINE p == page \o <<head>>
             q == p \o Styled(rows)
  <2>1. <<head>> \in Seq(PageElement) /\ p \in Seq(PageElement) /\ q \in Seq(PageElement)
    BY <1>2, <1>3, <1>8
  <2>2. IdsOf(p) = IdsOf(page) \o IdsOf(<<head>>)
    BY <1>2, <2>1, IdsOfConcat
  <2>3. IdsOf(q) = IdsOf(p) \o IdsOf(Styled(rows)) /\ IdsOf(q) \in Seq(IdType)
    <3> HIDE DEF p
    <3>1. IdsOf(q) = IdsOf(p) \o IdsOf(Styled(rows))
      BY <1>8, <2>1, IdsOfConcat
    <3> QED BY <2>1, <3>1, IdsOfIs
  <2>4. IdsOf(page') = IdsOf(q) \o <<>>
    <3> HIDE DEF q
    <3>1. IdsOf(q \o <<border, gap>>) = IdsOf(q) \o IdsOf(<<border, gap>>)
      BY <1>9, <2>1, IdsOfConcat
    <3>2. page' = q \o <<border, gap>>
      BY <1>1 DEF q
    <3> QED BY <1>9, <3>1, <3>2, Zenon
  <2> HIDE DEF p, q
  <2>5. IdsOf(page') = IdsOf(q)
    BY <2>3, <2>4
  <2> QED BY <1>4, <1>7, <1>8, <2>2, <2>3, <2>5, Zenon
<1> DEFINE ff == FirstFunctions(fn - 1)
           hd == HeaderIds(fn)
           fb == FirstBlocks(blk - 1)
           fr == FirstResults(Len(B.insts))
           b  == <<BlockId(blk)>>
<1>11. /\ IdsOf(page) = ff \o (hd \o fb)
       /\ ff \in Seq(IdType) /\ hd \in Seq(IdType) /\ fb \in Seq(IdType)
       /\ fr \in Seq(IdType) /\ b \in Seq(IdType)
       /\ FirstBlocks(blk) = fb \o (b \o fr)
  <2>1. fn - 1 \in 0 .. Len(mod) /\ blk - 1 \in 0 .. Len(F.blocks)
    <3>1. DOMAIN mod = 1 .. Len(mod) /\ Len(mod) \in Nat
      BY <1>1, ModuleTypes
    <3>2. Len(F.blocks) \in Nat
      BY <1>1, ModuleTypes
    <3>3. fn \in 1 .. Len(mod) /\ blk \in 1 .. Len(F.blocks)
      BY <1>1, <3>1
    <3> QED BY <3>1, <3>2, <3>3
  <2>2. ff \in Seq(IdType) /\ hd \in Seq(IdType) /\ fb \in Seq(IdType)
    BY <1>1, <2>1, FunctionsGrow, BlocksGrow, ModuleIdTypes
  <2>3. FirstBlocks(blk) = fb \o BlockIds(fn, F.blocks[blk])
    BY <1>1, BlocksGrow
  <2>4. BlockIds(fn, F.blocks[blk]) = b \o fr
    BY <1>1, ResultsGrow DEF B
  <2>5. IdsOf(page) = ff \o (hd \o fb)
    BY <1>1 DEF IdsInOrder
  <2>6. b \in Seq(IdType)
    BY <1>3
  <2>7. FirstBlocks(blk) = fb \o (b \o fr)
    BY <2>3, <2>4, Zenon
  <2> QED BY <1>7, <2>2, <2>5, <2>6, <2>7, Zenon
<1>12. IdsOf(page') = ff \o (hd \o FirstBlocks(blk))
  <2>1. IdsOf(page') = ((ff \o (hd \o fb)) \o b) \o fr
    BY <1>10, <1>11, Zenon
  <2> HIDE DEF ff, hd, fb, fr, b
  <2>2. ConcatAssociates(IdType)
    BY Associative
  <2>3. hd \o fb \in Seq(IdType) /\ b \o fr \in Seq(IdType)
    BY <1>11, ConcatProperties
  <2>4. ff \o (hd \o fb) \in Seq(IdType)
    BY <1>11, <2>3, ConcatProperties
  <2>5. ((ff \o (hd \o fb)) \o b) \o fr = (ff \o (hd \o fb)) \o (b \o fr)
    BY <1>11, <2>2, <2>4, ZenonT(30) DEF ConcatAssociates
  <2>6. (ff \o (hd \o fb)) \o (b \o fr) = ff \o ((hd \o fb) \o (b \o fr))
    BY <1>11, <2>2, <2>3, ZenonT(30) DEF ConcatAssociates
  <2>7. (hd \o fb) \o (b \o fr) = hd \o (fb \o (b \o fr))
    BY <1>11, <2>2, <2>3, ZenonT(30) DEF ConcatAssociates
  <2> QED BY <1>11, <2>1, <2>5, <2>6, <2>7, Zenon
<1>13. IdsOf(page)' = (FirstFunctions(fn - 1) \o (HeaderIds(fn) \o FirstBlocks(blk - 1)))'
  <2>1. blk' - 1 = blk
    BY <1>1
  <2>2. /\ FirstFunctions(fn - 1)' = ff
        /\ HeaderIds(fn)' = hd
        /\ FirstBlocks(blk - 1)' = FirstBlocks(blk)
    BY <1>1, <2>1, ModuleStays, FunctionStays DEF FirstFunctions, HeaderIds, FirstBlocks
  <2>3. IdsOf(page)' = IdsOf(page')
    BY DEF IdsOf
  <2> QED BY <1>12, <2>2, <2>3, Zenon
<1> QED BY <1>1, <1>13 DEF IdsInOrder, AtFunction

\* The last block completes the function.
LEMMA EndFunctionInOrder == IInv /\ IdsInOrder /\ EndFunction => IdsInOrder'
<1> SUFFICES ASSUME IInv, IdsInOrder, EndFunction PROVE IdsInOrder'
  OBVIOUS
<1>1. /\ mod' = mod /\ page' = page /\ fn' = fn + 1 /\ pc = "block" /\ pc' = "functions"
      /\ F.blocks # <<>> /\ fn \in DOMAIN mod /\ mod \in Modules
      /\ blk - 1 = Len(F.blocks) /\ fn \in Nat
  <2>1. pc = "block" /\ blk > Len(F.blocks)
    BY DEF EndFunction
  <2>2. fn \in DOMAIN mod /\ fn \in Nat /\ blk - 1 = Len(F.blocks)
    <3>1. /\ fn \in DOMAIN mod /\ fn \in Nat
          /\ F.blocks \in Seq(BasicBlock) /\ blk \in 1 .. Len(F.blocks) + 1
      BY <2>1, InHand DEF IInv, TypeOK
    <3> QED BY <2>1, <3>1
  <2> QED BY <2>1, <2>2 DEF EndFunction, IInv, TypeOK
<1>2. FunctionIds(fn) = HeaderIds(fn) \o FirstBlocks(blk - 1)
  BY <1>1, BlocksGrow
<1>3. FirstFunctions(fn) = FirstFunctions(fn - 1) \o FunctionIds(fn)
  BY <1>1, FunctionsGrow
<1>4. FirstFunctions(fn - 1)' = FirstFunctions(fn)
  <2>1. fn' - 1 = fn
    BY <1>1
  <2> QED BY <1>1, <2>1, ModuleStays DEF FirstFunctions
<1>5. IdsOf(page)' = IdsOf(page)
  BY <1>1 DEF IdsOf
<1>6. IdsOf(page) = FirstFunctions(fn - 1) \o (HeaderIds(fn) \o FirstBlocks(blk - 1))
  BY <1>1 DEF IdsInOrder
<1>7. IdsOf(page)' = FirstFunctions(fn - 1)'
  BY <1>2, <1>3, <1>4, <1>5, <1>6, Zenon
<1> QED BY <1>1, <1>7 DEF IdsInOrder, AtFunction

\* The last function completes the module.
LEMMA PrintPageInOrder == IInv /\ IdsInOrder /\ PrintPage => IdsInOrder'
<1> SUFFICES ASSUME IInv, IdsInOrder, PrintPage PROVE IdsInOrder'
  OBVIOUS
<1>1. /\ mod' = mod /\ page' = page /\ pc = "functions" /\ pc' = "done"
      /\ mod \in Modules /\ fn - 1 = Len(mod)
  BY ModuleTypes DEF PrintPage, position, IInv, TypeOK
<1>2. IdsOf(page) = ModuleIds
  BY <1>1, FunctionsGrow DEF IdsInOrder, AtFunction
<1>3. IdsOf(page)' = IdsOf(page)
  BY <1>1 DEF IdsOf
<1>4. ModuleIds' = ModuleIds
  BY <1>1, ModuleStays
<1> QED BY <1>1, <1>2, <1>3, <1>4 DEF IdsInOrder, AtFunction

\* Every step keeps the order.
LEMMA IdsInOrderStep == IInv /\ IInv' /\ IdsInOrder /\ [Next]_vars => IdsInOrder'
<1> SUFFICES ASSUME IInv, IInv', IdsInOrder, [Next]_vars PROVE IdsInOrder'
  OBVIOUS
<1>1. CASE \/ RegisterRenderers \/ RenderHead \/ RenderControls
           \/ Recalculate \/ CreateRenderers \/ ClearStylers \/ CreateStylers
  <2>1. AtFunction /\ AtFunction' /\ UNCHANGED <<mod, fn, page>>
    BY <1>1 DEF AtFunction, RegisterRenderers, RenderHead, RenderControls, Recalculate,
                CreateRenderers, ClearStylers, CreateStylers, position
  <2> QED BY <2>1, StillAtFunction
<1>2. CASE SkipDeclaration
  BY <1>2, SkipDeclarationInOrder
<1>3. CASE EmitHeader
  BY <1>3, EmitHeaderInOrder
<1>4. CASE EmitBlockHead
  BY <1>4, EmitBlockHeadInOrder
<1>5. CASE RenderCell
  BY <1>5, RenderCellInOrder
<1>6. CASE RenderCellAborts
  BY <1>6 DEF RenderCellAborts, IdsInOrder, AtFunction
<1>7. CASE EmitInstruction
  BY <1>7, EmitInstructionInOrder
<1>8. CASE EndBlock
  BY <1>8, EndBlockInOrder
<1>9. CASE EndFunction
  BY <1>9, EndFunctionInOrder
<1>10. CASE PrintPage
  BY <1>10, PrintPageInOrder
<1>11. CASE UNCHANGED vars
  <2>1. UNCHANGED <<mod, pc, fn, blk, inst, tbody, page>>
    BY <1>11 DEF vars, position
  <2>2. /\ IdsOf(page)' = IdsOf(page) /\ IdsOf(tbody)' = IdsOf(tbody)
        /\ FirstFunctions(fn - 1)' = FirstFunctions(fn - 1)
        /\ HeaderIds(fn)' = HeaderIds(fn)
        /\ FirstBlocks(blk - 1)' = FirstBlocks(blk - 1)
        /\ FirstResults(inst - 1)' = FirstResults(inst - 1)
        /\ ModuleIds' = ModuleIds
    BY <2>1, ModuleStays, FunctionStays, BlockStays
       DEF IdsOf, FirstFunctions, HeaderIds, FirstBlocks, FirstResults
  <2> QED BY <2>1, <2>2 DEF IdsInOrder, AtFunction
<1> QED
  BY <1>1, <1>2, <1>3, <1>4, <1>5, <1>6, <1>7, <1>8, <1>9, <1>10, <1>11 DEF Next

-----------------------------------------------------------------------------
(* Links lead to what has an id.                                           *)

\* What is in scope in a defined function and local to it has an id.
LEMMA LocalsHaveIds ==
  ASSUME mod \in Modules, NEW j \in DOMAIN mod, mod[j].blocks # <<>>,
         NEW n \in LocalNames(mod[j])
  PROVE  Local(j, n) \in Range(FunctionIds(j))
<1> DEFINE blocks == mod[j].blocks
           args   == mod[j].args
           argIds == [k \in DOMAIN args |-> Local(j, args[k])]
           blockIds == [k \in DOMAIN blocks |-> BlockIds(j, blocks[k])]
<1>1. /\ blocks \in Seq(BasicBlock) /\ args \in Seq(Name) /\ j \in Nat
      /\ DOMAIN blocks = 1 .. Len(blocks) /\ Len(blocks) \in Nat
      /\ DOMAIN args = 1 .. Len(args) /\ Len(args) \in Nat
  BY ModuleTypes
<1>2. /\ argIds \in Seq(IdType) /\ DOMAIN argIds = DOMAIN args
      /\ \A k \in DOMAIN args : argIds[k] = Local(j, args[k])
  <2>1. \A k \in DOMAIN args : Local(j, args[k]) \in IdType
    BY <1>1, IdTypes
  <2>2. argIds \in [1 .. Len(args) -> IdType]
    BY <1>1, <2>1
  <2>3. argIds \in Seq(IdType)
    <3> HIDE DEF argIds
    <3> QED BY <1>1, <2>2, FunctionIsSeq
  <2> QED BY <2>3
<1>3. /\ blockIds \in Seq(Seq(IdType)) /\ Len(blockIds) = Len(blocks)
      /\ \A k \in DOMAIN blocks : blockIds[k] = BlockIds(j, blocks[k])
  <2>1. \A k \in DOMAIN blocks : BlockIds(j, blocks[k]) \in Seq(IdType)
    BY ModuleIdTypes
  <2>2. blockIds \in [1 .. Len(blocks) -> Seq(IdType)]
    BY <1>1, <2>1
  <2>3. blockIds \in Seq(Seq(IdType)) /\ Len(blockIds) = Len(blocks)
    <3> HIDE DEF blockIds
    <3> QED BY <1>1, <2>2, FunctionIsSeq
  <2> QED BY <2>3
<1>4. /\ FunctionIds(j) = HeaderIds(j) \o FlattenSeq(blockIds)
      /\ HeaderIds(j) = <<Fn(j), Code(j)>> \o argIds
      /\ HeaderIds(j) \in Seq(IdType) /\ FlattenSeq(blockIds) \in Seq(IdType)
      /\ <<Fn(j), Code(j)>> \in Seq(IdType)
  <2>1. Fn(j) \in IdType /\ Code(j) \in IdType
    BY <1>1, IdTypes
  <2>2. FlattenSeq(blockIds) \in Seq(IdType)
    BY <1>3, FlattenType
  <2>3. HeaderIds(j) \in Seq(IdType)
    BY ModuleIdTypes
  <2>4. FunctionIds(j) = HeaderIds(j) \o FlattenSeq(blockIds)
    BY DEF FunctionIds
  <2>5. HeaderIds(j) = <<Fn(j), Code(j)>> \o argIds
    BY DEF HeaderIds
  <2> QED BY <2>1, <2>2, <2>3, <2>4, <2>5
<1> HIDE DEF argIds, blockIds
<1>5. CASE n \in ToSet(args)
  <2>1. PICK k \in DOMAIN args : n = args[k]
    BY <1>5 DEF ToSet
  <2>2. Local(j, n) \in Range(argIds)
    BY <1>2, <2>1 DEF Range
  <2>3. Local(j, n) \in Range(HeaderIds(j))
    BY <1>2, <1>4, <2>2, ConcatRange
  <2> QED BY <1>4, <2>3, ConcatRange
<1>6. ASSUME NEW k \in DOMAIN blocks, Local(j, n) \in Range(BlockIds(j, blocks[k]))
      PROVE  Local(j, n) \in Range(FunctionIds(j))
  <2>1. Local(j, n) \in Range(FlattenSeq(blockIds))
    BY <1>1, <1>3, <1>6, FlattenRange
  <2> QED BY <1>4, <2>1, ConcatRange
<1>7. ASSUME NEW k \in DOMAIN blocks
      PROVE  /\ Local(j, blocks[k].name) \in Range(BlockIds(j, blocks[k]))
             /\ \A i \in DOMAIN blocks[k].insts :
                  blocks[k].insts[i].name # Void =>
                    Local(j, blocks[k].insts[i].name) \in Range(BlockIds(j, blocks[k]))
  <2> DEFINE insts == blocks[k].insts
             first == <<Local(j, blocks[k].name)>>
             ids   == [i \in DOMAIN insts |-> ResultId(j, insts[i])]
  <2>1. insts \in Seq(Instruction) /\ blocks[k].name \in Name
    BY ModuleTypes
  <2>2. first \in Seq(IdType) /\ Local(j, blocks[k].name) \in Range(first)
    <3>1. Local(j, blocks[k].name) \in IdType
      BY <1>1, <2>1, IdTypes
    <3> QED BY <3>1 DEF Range
  <2>3. \A i \in DOMAIN insts : ResultId(j, insts[i]) \in Seq(IdType)
    BY ModuleIdTypes
  <2>4. BlockIds(j, blocks[k]) = first \o FlattenSeq(ids)
    BY DEF BlockIds
  <2> HIDE DEF insts, first
  <2>5. DOMAIN insts = 1 .. Len(insts) /\ Len(insts) \in Nat
    BY <2>1
  <2>6. /\ ids \in [1 .. Len(insts) -> Seq(IdType)]
        /\ \A i \in DOMAIN insts : ids[i] = ResultId(j, insts[i])
    BY <2>3, <2>5
  <2> HIDE DEF ids
  <2>7. ids \in Seq(Seq(IdType)) /\ Len(ids) = Len(insts)
    BY <2>5, <2>6, FunctionIsSeq
  <2>8. FlattenSeq(ids) \in Seq(IdType)
    BY <2>7, FlattenType
  <2>9. ASSUME NEW i \in DOMAIN insts, insts[i].name # Void
        PROVE  Local(j, insts[i].name) \in Range(BlockIds(j, blocks[k]))
    <3>1. ids[i] = <<Local(j, insts[i].name)>>
      BY <2>6, <2>9 DEF ResultId
    <3>2. Local(j, insts[i].name) \in Range(ids[i])
      BY <3>1 DEF Range
    <3>3. Local(j, insts[i].name) \in Range(FlattenSeq(ids))
      BY <2>5, <2>7, <2>9, <3>2, FlattenRange
    <3> QED BY <2>2, <2>4, <2>8, <3>3, ConcatRange
  <2>10. Local(j, blocks[k].name) \in Range(BlockIds(j, blocks[k]))
    BY <2>2, <2>4, <2>8, ConcatRange
  <2> QED BY <2>9, <2>10 DEF insts
<1>8. CASE \E k \in DOMAIN blocks : n = blocks[k].name
  BY <1>6, <1>7, <1>8
<1>9. CASE \E k \in DOMAIN blocks : \E i \in DOMAIN blocks[k].insts :
             n = blocks[k].insts[i].name /\ n # Void
  BY <1>6, <1>7, <1>9
<1>10. \/ n \in ToSet(args)
       \/ \E k \in DOMAIN blocks : n = blocks[k].name
       \/ \E k \in DOMAIN blocks : \E i \in DOMAIN blocks[k].insts :
            n = blocks[k].insts[i].name /\ n # Void
  BY DEF LocalNames, ToSet
<1> QED BY <1>5, <1>8, <1>9, <1>10

\* A function with blocks has the ids of all its locals.
LEMMA DefinedHaveIds ==
  ASSUME mod \in Modules, NEW j \in DOMAIN mod, mod[j].blocks # <<>>
  PROVE  /\ Fn(j) \in Range(ModuleIds)
         /\ \A n \in LocalNames(mod[j]) : Local(j, n) \in Range(ModuleIds)
<1> DEFINE ids == [k \in DOMAIN mod |-> FunctionIds(k)]
<1>1. mod \in Seq(Function) /\ DOMAIN mod = 1 .. Len(mod) /\ Len(mod) \in Nat /\ j \in Nat
  BY ModuleTypes
<1>2. \A k \in DOMAIN mod : FunctionIds(k) \in Seq(IdType)
  BY ModuleIdTypes
<1>3. ids \in [1 .. Len(mod) -> Seq(IdType)] /\ ids[j] = FunctionIds(j)
  BY <1>1, <1>2
<1>4. ModuleIds = FlattenSeq(ids)
  BY DEF ModuleIds
<1> HIDE DEF ids
<1>5. ids \in Seq(Seq(IdType)) /\ Len(ids) = Len(mod)
  BY <1>1, <1>3, FunctionIsSeq
<1>6. ASSUME NEW v, v \in Range(FunctionIds(j))
      PROVE  v \in Range(ModuleIds)
  BY <1>1, <1>3, <1>4, <1>5, <1>6, FlattenRange
<1>7. Fn(j) \in Range(FunctionIds(j))
  <2> DEFINE start == <<Fn(j), Code(j)>>
             args  == [k \in DOMAIN mod[j].args |-> Local(j, mod[j].args[k])]
             rest  == FlattenSeq([k \in DOMAIN mod[j].blocks |-> BlockIds(j, mod[j].blocks[k])])
  <2>1. FunctionIds(j) = HeaderIds(j) \o rest /\ HeaderIds(j) = start \o args
    BY DEF FunctionIds, HeaderIds
  <2>2. start \in Seq(IdType) /\ start[1] = Fn(j) /\ 1 \in DOMAIN start
    <3>1. Fn(j) \in IdType /\ Code(j) \in IdType
      BY <1>1, IdTypes
    <3> QED BY <3>1
  <2>3. Len(start) = 2
    OBVIOUS
  <2>4. args \in Seq(IdType)
    <3>1. /\ DOMAIN mod[j].args = 1 .. Len(mod[j].args) /\ Len(mod[j].args) \in Nat
          /\ \A k \in DOMAIN mod[j].args : Local(j, mod[j].args[k]) \in IdType
      <4>1. mod[j].args \in Seq(Name)
        BY ModuleTypes
      <4> QED BY <1>1, <4>1, IdTypes
    <3>2. args \in [1 .. Len(mod[j].args) -> IdType]
      BY <3>1
    <3> HIDE DEF args
    <3> QED BY <3>1, <3>2, FunctionIsSeq
  <2>5. rest \in Seq(IdType)
    <3> DEFINE f == [k \in DOMAIN mod[j].blocks |-> BlockIds(j, mod[j].blocks[k])]
    <3>1. /\ DOMAIN mod[j].blocks = 1 .. Len(mod[j].blocks) /\ Len(mod[j].blocks) \in Nat
          /\ \A k \in DOMAIN mod[j].blocks : BlockIds(j, mod[j].blocks[k]) \in Seq(IdType)
      <4>1. mod[j].blocks \in Seq(BasicBlock)
        BY ModuleTypes
      <4> QED BY <4>1, ModuleIdTypes
    <3>2. f \in [1 .. Len(mod[j].blocks) -> Seq(IdType)]
      BY <3>1
    <3> HIDE DEF f
    <3>3. FlattenSeq(f) \in Seq(IdType)
      BY <3>1, <3>2, FunctionIsSeq, FlattenType
    <3> QED BY <3>3 DEF f
  <2> HIDE DEF start, args, rest
  <2>6. Fn(j) \in Range(start)
    BY <2>2 DEF Range
  <2>7. Fn(j) \in Range(start \o args) /\ start \o args \in Seq(IdType)
    BY <2>2, <2>4, <2>6, ConcatRange, ConcatProperties
  <2> QED BY <2>1, <2>5, <2>7, ConcatRange
<1>8. \A n \in LocalNames(mod[j]) : Local(j, n) \in Range(FunctionIds(j))
  BY LocalsHaveIds
<1> QED BY <1>6, <1>7, <1>8

\* What a link leads to has an id, unless it is a global variable.
LinksHaveIds == \A v \in links : v[1] # "variable" => v \in Range(ModuleIds)

\* So has the function in hand.
LEMMA InFunctionHasId ==
  ASSUME IInv, pc \in {"block", "instruction"}
  PROVE  \A n \in LocalNames(F) : Local(fn, n) \in Range(ModuleIds)
<1>1. mod \in Modules /\ fn \in DOMAIN mod /\ F.blocks # <<>>
  BY InHand DEF IInv, TypeOK
<1> QED BY <1>1, DefinedHaveIds DEF F

\* The links of a block lead to blocks of its function.
LEMMA EmitBlockHeadLinks == IInv /\ LinksHaveIds /\ EmitBlockHead => LinksHaveIds'
<1> SUFFICES ASSUME IInv, LinksHaveIds, EmitBlockHead PROVE LinksHaveIds'
  OBVIOUS
<1>1. /\ pc = "block" /\ links' = links \cup Predecessors \cup Successors
      /\ mod' = mod /\ mod \in Modules
      /\ fn \in DOMAIN mod /\ blk \in DOMAIN F.blocks
  <2>1. pc = "block" /\ blk <= Len(F.blocks)
    BY DEF EmitBlockHead
  <2>2. fn \in DOMAIN mod /\ blk \in DOMAIN F.blocks
    BY <2>1, InHand DEF IInv, TypeOK
  <2> QED BY <2>1, <2>2 DEF EmitBlockHead, IInv, TypeOK
<1>2. \A k \in DOMAIN F.blocks : BlockId(k) \in Range(ModuleIds)
  <2> SUFFICES ASSUME NEW k \in DOMAIN F.blocks
               PROVE  BlockId(k) \in Range(ModuleIds)
    OBVIOUS
  <2>1. F.blocks[k].name \in LocalNames(F)
    <3>1. F.blocks[k] \in ToSet(F.blocks)
      BY DEF ToSet
    <3> QED BY <3>1 DEF LocalNames
  <2> QED BY <1>1, <2>1, InFunctionHasId DEF BlockId
<1>3. ToSet(B.succs) \subseteq DOMAIN F.blocks
  <2>1. B \in ToSet(F.blocks)
    BY <1>1 DEF B, ToSet
  <2> QED BY <1>1, <2>1, ScopeAssumption DEF ScopeAssumption, F
<1>4. \A v \in Predecessors \cup Successors : v \in Range(ModuleIds)
  BY <1>2, <1>3 DEF Predecessors, Successors
<1>5. ModuleIds' = ModuleIds
  BY <1>1, ModuleStays
<1>6. Range(ModuleIds)' = Range(ModuleIds)
  BY <1>5 DEF Range
<1> QED BY <1>1, <1>4, <1>6 DEF LinksHaveIds

\* The links of a cell lead to what is in scope.
LEMMA RenderCellLinks == IInv /\ LinksHaveIds /\ RenderCell => LinksHaveIds'
<1> SUFFICES ASSUME IInv, LinksHaveIds, RenderCell PROVE LinksHaveIds'
  OBVIOUS
<1>1. /\ pc = "instruction" /\ links' = links \cup {v \in References(Attr) : IsLink(v)}
      /\ References(Attr) \cap Fatal = {}
      /\ mod' = mod /\ mod \in Modules
      /\ fn \in DOMAIN mod /\ blk \in DOMAIN F.blocks /\ inst \in DOMAIN B.insts
  <2>1. pc = "instruction" /\ inst <= Len(B.insts)
    BY DEF RenderCell, AtInstruction
  <2>2. fn \in DOMAIN mod /\ blk \in DOMAIN F.blocks
    BY <2>1, InHand DEF IInv, TypeOK
  <2>3. inst \in DOMAIN B.insts
    BY <2>1, <2>2, InHand DEF IInv, TypeOK
  <2> QED BY <2>1, <2>2, <2>3 DEF RenderCell, IInv, TypeOK
<1>2. References(Attr) \subseteq InScope(mod, fn)
  <2>1. References(Attr) \subseteq OperandRefs \cup ScevRefs \cup MetadataRefs
    BY Zenon DEF References
  <2>2. ScevRefs \subseteq ToSet(I.scev)
    BY DEF ScevRefs
  <2>3. B \in ToSet(mod[fn].blocks) /\ I \in ToSet(B.insts)
    BY <1>1 DEF B, I, ToSet, F
  <2>4. ToSet(I.operands) \cup ToSet(I.scev) \cup ToSet(I.metadata) \subseteq InScope(mod, fn)
    BY <1>1, <2>3, ScopeAssumption DEF ScopeAssumption
  <2> QED BY <2>1, <2>2, <2>4 DEF OperandRefs, MetadataRefs
<1>3. ASSUME NEW v \in References(Attr), IsLink(v), v[1] # "variable"
      PROVE  v \in Range(ModuleIds)
  <2>1. v \notin {Constant, Metadata, Cycle}
    BY <1>1, <1>3 DEF Fatal, IsLink
  <2>2. \A n \in Name : v # Variable(n)
    BY <1>3 DEF Variable
  <2>3. CASE \E k \in DOMAIN mod : v = Fn(k)
    BY <1>1, <1>3, <2>3, DefinedHaveIds DEF IsLink
  <2>4. CASE \E n \in LocalNames(mod[fn]) : v = Local(fn, n)
    BY <1>1, <2>4, InFunctionHasId DEF F
  <2> QED BY <1>2, <2>1, <2>2, <2>3, <2>4 DEF InScope
<1>4. ModuleIds' = ModuleIds
  BY <1>1, ModuleStays
<1>5. Range(ModuleIds)' = Range(ModuleIds)
  BY <1>4 DEF Range
<1> QED BY <1>1, <1>3, <1>5 DEF LinksHaveIds

\* Every step keeps that links have ids.
LEMMA LinksHaveIdsStep == IInv /\ LinksHaveIds /\ [Next]_vars => LinksHaveIds'
<1> SUFFICES ASSUME IInv, LinksHaveIds, [Next]_vars PROVE LinksHaveIds'
  OBVIOUS
<1>1. CASE EmitBlockHead
  BY <1>1, EmitBlockHeadLinks
<1>2. CASE RenderCell
  BY <1>2, RenderCellLinks
<1>3. CASE UNCHANGED <<mod, links>>
  <2>1. ModuleIds' = ModuleIds
    BY <1>3, ModuleStays
  <2>2. Range(ModuleIds)' = Range(ModuleIds)
    BY <2>1 DEF Range
  <2> QED BY <1>3, <2>2 DEF LinksHaveIds
<1>4. EmitBlockHead \/ RenderCell \/ UNCHANGED <<mod, links>>
  BY DEF Next, vars, RegisterRenderers, RenderHead, RenderControls, SkipDeclaration,
         Recalculate, CreateRenderers, ClearStylers, CreateStylers, EmitHeader,
         RenderCellAborts, EmitInstruction, EndBlock, EndFunction, PrintPage
<1> QED BY <1>1, <1>2, <1>3, <1>4

\* An element of the page has every id of the page.
LEMMA IdsAreOfElements ==
  ASSUME NEW s \in Seq(PageElement), NEW v \in Range(IdsOf(s))
  PROVE  \E k \in DOMAIN s : s[k].id = v
<1>1. IdsOf(s) = FlattenSeq(IdSeqs(s)) /\ IdSeqs(s) \in Seq(Seq(IdType))
  BY IdsOfIs, IdSeqsType
<1>2. PICK k \in 1 .. Len(s) : v \in Range(IdSeqs(s)[k])
  BY <1>1, IdSeqsType, FlattenRange
<1>3. v \in Range(IdOf(s[k])) /\ k \in DOMAIN s
  BY <1>2, IdSeqsType
<1>4. CASE s[k].id = NoValue
  BY <1>3, <1>4 DEF IdOf, Range
<1>5. CASE s[k].id # NoValue
  <2>1. IdOf(s[k]) = <<s[k].id>>
    BY <1>5 DEF IdOf
  <2>2. v = s[k].id
    BY <1>3, <2>1 DEF Range
  <2> QED BY <1>3, <2>2
<1> QED BY <1>4, <1>5

-----------------------------------------------------------------------------
(* The theorems.                                                           *)

\* Every step of the printer keeps its invariant.
LEMMA IInvStep == IInv /\ [Next]_vars => IInv'
<1> SUFFICES ASSUME IInv, [Next]_vars PROVE IInv'
  OBVIOUS
<1>1. CASE RegisterRenderers
  BY <1>1, RegisterRenderersKeeps
<1>2. CASE RenderHead
  BY <1>2, RenderHeadKeeps
<1>3. CASE RenderControls
  BY <1>3, RenderControlsKeeps
<1>4. CASE SkipDeclaration
  BY <1>4, SkipDeclarationKeeps
<1>5. CASE Recalculate
  BY <1>5, RecalculateKeeps
<1>6. CASE CreateRenderers
  BY <1>6, CreateRenderersKeeps
<1>7. CASE ClearStylers
  BY <1>7, ClearStylersKeeps
<1>8. CASE CreateStylers
  BY <1>8, CreateStylersKeeps
<1>9. CASE EmitHeader
  BY <1>9, EmitHeaderKeeps
<1>10. CASE EmitBlockHead
  BY <1>10, EmitBlockHeadKeeps
<1>11. CASE RenderCell
  BY <1>11, RenderCellKeeps
<1>12. CASE RenderCellAborts
  BY <1>12, RenderCellAbortsKeeps
<1>13. CASE EmitInstruction
  BY <1>13, EmitInstructionKeeps
<1>14. CASE EndBlock
  BY <1>14, EndBlockKeeps
<1>15. CASE EndFunction
  BY <1>15, EndFunctionKeeps
<1>16. CASE PrintPage
  BY <1>16, PrintPageKeeps
<1>17. CASE UNCHANGED vars
  <2> USE <1>17 DEF vars, setup, vectors, position
  <2>1. F' = F /\ B' = B
    BY DEF F, B
  <2>2. TypeOK'
    <3>1. ToSet(flags)' = ToSet(flags)
      BY DEF ToSet
    <3> QED BY <2>1, <3>1 DEF IInv, TypeOK
  <2>3. Setup' /\ Vectors' /\ AnalysesMatch'
    BY DEF IInv, Setup, Vectors, AnalysesMatch
  <2>4. Row' /\ Tbody' /\ Page' /\ RowsAreStriped'
    BY RowsStay, DocumentStays
  <2> QED BY <2>2, <2>3, <2>4 DEF IInv
<1> QED
  BY <1>1, <1>2, <1>3, <1>4, <1>5, <1>6, <1>7, <1>8, <1>9,
     <1>10, <1>11, <1>12, <1>13, <1>14, <1>15, <1>16, <1>17 DEF Next

\* What the printer knows of its own state at every step, whatever the module:
\* HtmlPrinter::run never leaves the inductive invariant.
THEOREM Invariance == Spec => []IInv
<1>1. Init => IInv
  BY IInvInit
<1>2. IInv /\ [Next]_vars => IInv'
  BY IInvStep
<1> QED BY <1>1, <1>2, PTL DEF Spec

\* The loops of run stay within the module: the function, block and instruction
\* in hand exist whenever a handler reads them.
THEOREM TypeCorrect == Spec => []TypeOK
<1>1. IInv => TypeOK
  BY DEF IInv
<1> QED BY <1>1, Invariance, PTL

\* Analyses::recalculate before every function: renderers and stylers never
\* read an analysis made for another function, however many came before.
THEOREM AnalysesAreFresh == Spec => []AnalysesMatch
<1>1. IInv => AnalysesMatch
  BY DEF IInv
<1> QED BY <1>1, Invariance, PTL

\* _attrs.clear() before every function: no column is lost or doubled in the
\* table of any block, and each instruction has one cell under each column.
THEOREM RowsAreFilled == Spec => []RowsFillTheLegend
<1>1. IInv => RowsFillTheLegend
  BY DEF IInv, Page, Filled, RowsFillTheLegend
<1> QED BY <1>1, Invariance, PTL

\* _basic_block_stylers.clear() before every function: each row about a block or
\* an instruction has one color, a rule of the style sheet and not the shade of
\* the row above, and the empty rows between the blocks have none.
THEOREM RowsStriped == Spec => []RowsAreStriped
<1>1. IInv => RowsAreStriped
  BY DEF IInv
<1> QED BY <1>1, Invariance, PTL

\* HtmlPrinter::run prints the whole module: whatever it holds, a finished page
\* has exactly the ids of its functions with a body, of their arguments, blocks
\* and results, in the order of the module.
THEOREM PageIsComplete == Spec => []PageMatchesModule
<1>1. Init => IInv /\ IdsInOrder
  BY IInvInit, OrderInit
<1>2. (IInv /\ IdsInOrder) /\ [Next]_vars => (IInv /\ IdsInOrder)'
  BY IInvStep, IdsInOrderStep
<1>3. IInv /\ IdsInOrder => PageMatchesModule
  BY DEF IdsInOrder, PageMatchesModule
<1> QED BY <1>1, <1>2, <1>3, PTL DEF Spec

\* ref and the links to blocks: on a finished page every link to anything but a
\* global variable leads to an element of the page.
THEOREM LinksAreResolved == Spec => []LinksResolve
<1>1. Init => IInv /\ IdsInOrder /\ LinksHaveIds
  BY IInvInit, OrderInit DEF Init, LinksHaveIds
<1>2. (IInv /\ IdsInOrder /\ LinksHaveIds) /\ [Next]_vars
        => (IInv /\ IdsInOrder /\ LinksHaveIds)'
  BY IInvStep, IdsInOrderStep, LinksHaveIdsStep
<1>3. IInv /\ IdsInOrder /\ LinksHaveIds => LinksResolve
  <2> SUFFICES ASSUME IInv, IdsInOrder, LinksHaveIds, pc = "done",
                      NEW v \in links, v[1] # "variable"
               PROVE  \E k \in DOMAIN page : page[k].id = v
    BY DEF LinksResolve
  <2>1. page \in Seq(PageElement)
    BY DEF IInv, Page
  <2>2. v \in Range(IdsOf(page))
    BY DEF LinksHaveIds, IdsInOrder
  <2> QED BY <2>1, <2>2, IdsAreOfElements
<1> QED BY <1>1, <1>2, <1>3, PTL DEF Spec

-----------------------------------------------------------------------------
(* What main promises about the output file.  Here HtmlPrinter counts only *)
(* as a step that leaves the variables of main alone.                      *)

\* From its registration until the file is released the handler removes it;
\* only in between can it be a part of a page.
Guarded ==
  dest = "file" =>
    /\ main \in {"open", "run", "keep", "close", "release"} => watched
    /\ main \in {"parse", "register", "open"} => out # "part"
    /\ main \in {"release", "return"} => out = "whole"
    /\ main \in {"close", "release"} => keep

Ended == status # "none" => main = "ended"

PInv == ProgramTypeOK /\ Guarded /\ Ended /\ SuccessMeansPage /\ NoHalfPage

\* While main does something else than run, the cell in hand stays.
LEMMA SameCell == ASSUME UNCHANGED vars PROVE StackIsFull' = StackIsFull
<1>1. /\ pc' = pc /\ mod' = mod /\ fn' = fn /\ blk' = blk /\ inst' = inst
      /\ row' = row /\ attrs' = attrs /\ analyses' = analyses
  BY DEF vars, vectors, position
<1>2. F' = F
  BY <1>1 DEF F
<1>3. B' = B
  BY <1>1, <1>2 DEF B
<1>4. I' = I /\ InLoop' = InLoop
  BY <1>1, <1>3 DEF I, InLoop
<1>5. /\ OperandRefs' = OperandRefs /\ ScevRefs' = ScevRefs /\ MetadataRefs' = MetadataRefs
  BY <1>4 DEF OperandRefs, ScevRefs, MetadataRefs
<1>6. Attr' = Attr
  BY <1>1 DEF Attr
<1>7. References(Attr)' = References(Attr)
  BY <1>5, <1>6, Zenon DEF References
<1> QED BY <1>1, <1>7 DEF StackIsFull

\* The program starts with no file and no error.
LEMMA ProgramInitHolds == ProgramInit => PInv
BY DEF ProgramInit, PInv, ProgramTypeOK, Guarded, Ended, SuccessMeansPage, NoHalfPage

\* No step of HtmlPrinter ends the program or writes to the file.
LEMMA RunKeeps == PInv /\ Run => PInv'
BY DEF Run, file, PInv, ProgramTypeOK, Guarded, Ended, SuccessMeansPage, NoHalfPage

\* What a crash leaves: the handler has removed the file, unless it had no
\* stack to run on.
LEMMA CrashKeeps == PInv /\ Crash => PInv'
<1> SUFFICES ASSUME PInv, Crash PROVE PInv'
  OBVIOUS
<1>1. StackIsFull' = StackIsFull
  BY SameCell DEF Crash
<1>2. out' = Removed \/ (out' = out /\ StackIsFull)
  BY DEF Crash
<1>3. ProgramTypeOK' /\ Guarded' /\ Ended'
  BY <1>2 DEF Crash, End, Removed, PInv, ProgramTypeOK, Guarded, Ended
<1>4. SuccessMeansPage'
  BY DEF Crash, End, SuccessMeansPage
<1>5. NoHalfPage'
  BY <1>1, <1>2 DEF Crash, Removed, PInv, Guarded, NoHalfPage
<1> QED BY <1>3, <1>4, <1>5 DEF PInv

\* Before the file is open: nothing of the page can be in it.
LEMMA OpeningKeeps == PInv /\ (Parse \/ ParseFails \/ Register \/ Open \/ OpenFails) => PInv'
<1> SUFFICES ASSUME PInv, Parse \/ ParseFails \/ Register \/ Open \/ OpenFails PROVE PInv'
  OBVIOUS
<1> USE DEF PInv, ProgramTypeOK, Guarded, Ended, SuccessMeansPage, NoHalfPage, file, GoOn, End
<1>1. CASE Parse
  BY <1>1 DEF Parse
<1>2. CASE ParseFails
  BY <1>2 DEF ParseFails
<1>3. CASE Register
  BY <1>3 DEF Register
<1>4. CASE Open
  BY <1>4 DEF Open
<1>5. CASE OpenFails
  BY <1>5 DEF OpenFails
<1> QED BY <1>1, <1>2, <1>3, <1>4, <1>5

\* From the print of the document to the end of main.
LEMMA ClosingKeeps ==
  PInv /\ (PrintDocument \/ PrintFails \/ WriteFails \/ Keep \/ Close \/ Release
             \/ Return \/ FlushOuts) => PInv'
<1> SUFFICES ASSUME PInv,
             \/ PrintDocument \/ PrintFails \/ WriteFails \/ Keep \/ Close \/ Release
             \/ Return \/ FlushOuts
    PROVE PInv'
  OBVIOUS
<1> USE DEF PInv, ProgramTypeOK, Guarded, Ended, SuccessMeansPage, NoHalfPage, file,
            GoOn, End, Removed
<1>1. CASE PrintDocument
  BY <1>1 DEF PrintDocument
<1>2. CASE PrintFails
  BY <1>2 DEF PrintFails
<1>3. CASE WriteFails
  BY <1>3 DEF WriteFails
<1>4. CASE Keep
  BY <1>4 DEF Keep
<1>5. CASE Close
  BY <1>5 DEF Close
<1>6. CASE Release
  BY <1>6 DEF Release
<1>7. CASE Return
  BY <1>7 DEF Return
<1>8. CASE FlushOuts
  BY <1>8 DEF FlushOuts
<1> QED BY <1>1, <1>2, <1>3, <1>4, <1>5, <1>6, <1>7, <1>8

\* At any step: interrupted, the handler removes what it watches.
LEMMA EndingKeeps == PInv /\ (Interrupt \/ Kill) => PInv'
<1> SUFFICES ASSUME PInv, Interrupt \/ Kill PROVE PInv'
  OBVIOUS
<1> USE DEF PInv, ProgramTypeOK, Guarded, Ended, SuccessMeansPage, NoHalfPage, file, End, Removed
<1>1. CASE Interrupt
  BY <1>1 DEF Interrupt
<1>2. CASE Kill
  BY <1>2 DEF Kill
<1> QED BY <1>1, <1>2

\* A step that changes nothing keeps the invariant.
LEMMA StutterKeeps == PInv /\ UNCHANGED pvars => PInv'
<1> SUFFICES ASSUME PInv, UNCHANGED pvars PROVE PInv'
  OBVIOUS
<1>1. StackIsFull' = StackIsFull
  BY SameCell DEF pvars
<1> QED
  BY <1>1 DEF pvars, file, PInv, ProgramTypeOK, Guarded, Ended, SuccessMeansPage, NoHalfPage

\* The invariant of main, for all modules.
THEOREM ProgramInvariance == ProgramSpec => []PInv
<1>1. PInv /\ [ProgramNext]_pvars => PInv'
  BY RunKeeps, CrashKeeps, OpeningKeeps, ClosingKeeps, EndingKeeps, StutterKeeps
     DEF ProgramNext, Step, Faults
<1> QED BY ProgramInitHolds, <1>1, PTL DEF ProgramSpec

\* A run that returns 0 has left a whole page: what is written is checked before
\* the file is released, and Keep is set before the file would be removed.
THEOREM SuccessIsAPage == ProgramSpec => []SuccessMeansPage
<1>1. PInv => SuccessMeansPage
  BY DEF PInv
<1> QED BY <1>1, ProgramInvariance, PTL

\* No end but a kill or a full stack leaves a half page in the file.
THEOREM NoEndLeavesHalfAPage == ProgramSpec => []NoHalfPage
<1>1. PInv => NoHalfPage
  BY DEF PInv
<1> QED BY <1>1, ProgramInvariance, PTL

=============================================================================
