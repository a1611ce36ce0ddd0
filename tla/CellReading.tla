---------------------------- MODULE CellReading ----------------------------
(***************************************************************************)
(* What a reader of the page learns from the cells of a row.               *)
(***************************************************************************)
EXTENDS Cells

-----------------------------------------------------------------------------
(* What is in the cells.                                                   *)

Solid(seen) == SelectSeq(seen, LAMBDA e : e # <<"blank">>)

\* What is shown inside the k-th element of the name.
Inside(seen, tag, k) ==
  LET Opens(i) == seen[i][1] = "open" /\ seen[i][2] = tag
      start == CHOOSE i \in DOMAIN seen :
                 Opens(i) /\ Cardinality({j \in 1 .. i : Opens(j)}) = k
      end == CHOOSE i \in start .. Len(seen) :
               seen[i] = <<"close", tag>> /\ \A j \in start .. i - 1 : seen[j] # <<"close", tag>>
  IN Solid(SubSeq(seen, start + 1, end - 1))

Texts(seen) ==
  LET texts == SelectSeq(seen, LAMBDA e : e[1] = "text")
  IN [k \in DOMAIN texts |-> texts[k][2]]

\* An attribute as the browser has it.
AttrOf(event, name) == CHOOSE v \in {a.value : a \in {a \in ToSet(event[3]) : a.name = <<name>>}} : TRUE

\* The value that is shown at p, by its text, mouse-over and target of the link.
At(seen, p) == IF p \in DOMAIN seen THEN seen[p] ELSE <<"end", "">>
RefAt(seen, p) ==
  LET close == CHOOSE q \in p .. Len(seen) :
                 seen[q][1] = "close" /\ \A j \in p .. q - 1 : seen[j][1] # "close"
  IN [value |-> Value(Texts(SubSeq(seen, p, close)), AttrOf(seen[p], "title")[1],
                        IF seen[p][2] = "a" THEN Tail(AttrOf(seen[p], "href")[1]) ELSE <<>>),
      next |-> close + 1]

\* All values shown, and what is between them.
Refs(seen) ==
  LET starts == SetToSortSeq({p \in DOMAIN seen : seen[p][1] = "open" /\ seen[p][2] \in {"a", "span"}}, <)
  IN [k \in DOMAIN starts |-> RefAt(seen, starts[k]).value]

\* The text of metadata, with what a node refers to in its place.
RECURSIVE MdText(_)
MdText(md) ==
  CASE md[1] = "null"   -> <<"null">>
    [] md[1] = "value"  -> md[2].text
    [] md[1] = "string" -> md[2]
    [] md[1] = "node"   ->
         LET ops == MdOperands[md[2]]
         IN <<"{">> \o FlattenSeq([k \in DOMAIN ops |-> MdText(ops[k])]) \o <<"}">>

ShowsInstruction(i, seen) ==
  /\ AttrOf(seen[1], "class")[1] = <<"instruction", " ", "loop-1-even">>
  /\ IF i.type = <<"void">> THEN Texts(Inside(seen, "td", 1)) = <<>>
     ELSE AttrOf(seen[1], "id")[1] = i.id /\ Texts(Inside(seen, "td", 1)) = i.name
  /\ Texts(Inside(seen, "td", 2)) = i.type
  /\ Refs(Inside(seen, "td", 4)) = i.operands
  /\ Len(SelectSeq(Inside(seen, "td", 4), LAMBDA e : e[1] = "open" /\ e[2] = "br")) = Len(i.operands)
  /\ Texts(Inside(seen, "td", 6)) =
       FlattenSeq([k \in DOMAIN i.metadata |->
                     <<i.metadata[k].kind, " -> ">> \o MdText(<<"node", i.metadata[k].node>>)])

\* Blocks are a list with a comma between two of them and nowhere else.
ShowsBlocks(seen) ==
  LET blocks == [k \in DOMAIN job.blocks |-> job.blocks[k].text]
  IN /\ Texts(Inside(seen, "th", 1)) = job.label
     /\ Refs(Inside(seen, "td", 1)) = job.blocks
     /\ Texts(Inside(seen, "td", 1)) =
          FlattenSeq([k \in DOMAIN blocks |-> (IF k = 1 THEN <<>> ELSE <<", ">>) \o blocks[k]])

\* A row that went through the renderers, the tree, the page and a browser is
\* still the instruction: its name, type and classes, its operands in order,
\* each with its type and the element its link leads to, and all metadata below
\* each node, unfolded as often as it is used, with its braces in place.
RowTells ==
  Shown /\ (\A v \in Values(html) : Plain(v)) =>
    /\ job.kind = "instruction" => ShowsInstruction(job, Trim(browser.seen))
    /\ job.kind = "blocks" => ShowsBlocks(Trim(browser.seen))

-----------------------------------------------------------------------------
(* Reading a SCEV.                                                         *)

\* What cannot be told apart: the type a cast leads to is not shown (that of
\* its operand is shown twice), and no wrap flag of a sum or product but how
\* many it has.
RECURSIVE Told(_)
Told(e) ==
  [op |-> e.op, value |-> e.value, args |-> [k \in DOMAIN e.args |-> Told(e.args[k])],
   type |-> IF e.op \in {"trunc", "sext", "zext"} THEN e.args[1].type
            ELSE IF e.op = "offsetof" THEN e.type ELSE <<>>,
   flags |-> IF e.op \in {"add", "mul"} THEN Cardinality(e.flags) ELSE e.flags]

Tells(op, type, args, flags, value) ==
  [op |-> op, value |-> value, args |-> args, type |-> type, flags |-> flags]
NoValue == <<>>

OpOf(txt) ==
  CASE txt = " + " -> "add" [] txt = " * " -> "mul" [] txt = " smax " -> "smax"
    [] txt = " umax " -> "umax" [] txt = "/u" -> "udiv" [] OTHER -> "none"

\* How many times <nuw> is at p.
Nuws(seen, p) ==
  LET Nuw(q) == \A k \in 0 .. 2 : At(seen, q + k) = <<"text", <<"<", "nuw", ">">>[k + 1]>>
  IN IF ~Nuw(p) THEN 0 ELSE IF Nuw(p + 3) THEN 2 ELSE 1

\* The expression at p, by the brackets and words around its parts, and where
\* it ends.
RECURSIVE ScevAt(_, _), ArgsAt(_, _)
ArgsAt(seen, p) ==
  LET first == ScevAt(seen, p)
      sep   == At(seen, first.next)[2]
      rest  == ArgsAt(seen, first.next + 1)
  IN IF sep \in {")", "}", ""} THEN [args |-> <<first.scev>>, sep |-> "", next |-> first.next]
     ELSE [args |-> <<first.scev>> \o rest.args, sep |-> sep, next |-> rest.next]

ScevAt(seen, p) ==
  LET word == At(seen, p)[2]
      type == <<At(seen, p + 1)[2]>>
      Is(op, q) == [scev |-> op, next |-> q]
      args == ArgsAt(seen, p + 1)
      op   == OpOf(args.sep)
      nuws == Nuws(seen, args.next + 1)
      loop == CHOOSE q \in args.next .. Len(seen) :
                seen[q][1] = "open" /\ \A j \in args.next .. q - 1 : seen[j][1] # "open"
      wraps == ToSet(Texts(SubSeq(seen, args.next, loop))) \ {"}", "<", ">"}
      operand == ScevAt(seen, p + 2)
  IN CASE At(seen, p)[1] = "open" ->
            Is(Tells("value", <<>>, <<>>, {}, RefAt(seen, p).value), RefAt(seen, p).next)
       [] word = "sizeof("  -> Is(Tells("sizeof", <<>>, <<>>, {}, Value(<<>>, type, <<>>)), p + 3)
       [] word = "alignof(" -> Is(Tells("alignof", <<>>, <<>>, {}, Value(<<>>, type, <<>>)), p + 3)
       [] word = "offsetof(" ->
            Is(Tells("offsetof", type, <<>>, {}, RefAt(seen, p + 3).value), RefAt(seen, p + 3).next + 1)
       [] word \in {"(trunc", "(sext", "(zext"} ->
            Is(Tells(CASE word = "(trunc" -> "trunc" [] word = "(sext" -> "sext" [] OTHER -> "zext",
                     type, <<operand.scev>>, {}, NoValue), operand.next + 3)
       [] word = "(" ->
            Is(Tells(op, <<>>, args.args, IF op \in {"add", "mul"} THEN nuws ELSE {}, NoValue),
               args.next + 1 + 3 * nuws)
       [] word = "{" ->
            Is(Tells("addrec", <<>>, args.args,
                     wraps \cup (IF wraps = {} THEN {} ELSE {"nw"}), RefAt(seen, loop).value),
               RefAt(seen, loop).next + 1)
       [] OTHER -> Is(Tells("none", <<>>, <<>>, {}, NoValue), p)

\* Two different expressions are never shown alike: from the cell the
\* expression can be read back, how its operations are nested, each operand and
\* the loop of each recurrence, up to what Told leaves out.
CellTellsExpression ==
  Shown /\ job.kind = "instruction" =>
    LET cell == Inside(Trim(browser.seen), "td", 5)
    IN IF job.scev = <<>> THEN Texts(cell) = <<>>
       ELSE SubSeq(cell, 2, Len(cell) - 1) # <<>>
            /\ LET expr == SubSeq(cell, 2, Len(cell) - 1) IN
                 ScevAt(expr, 1) = [scev |-> Told(job.scev[1]), next |-> Len(expr) + 1]

-----------------------------------------------------------------------------
\* The nodes below a node.
Below(n) == {md[2] : md \in {md \in ToSet(MdOperands[n]) : md[1] = "node"}}
RECURSIVE From(_, _)
From(ns, k) == IF k = 0 THEN ns ELSE From(ns \cup UNION {Below(n) : n \in ns}, k - 1)
Reached(n) == From(Below(n), Cardinality(DOMAIN MdOperands))

Endless ==
  job.kind = "instruction"
    /\ \E k \in DOMAIN job.metadata :
         \E n \in Reached(job.metadata[k].node) \cup {job.metadata[k].node} : n \in Reached(n)

RECURSIVE Strings(_)
Strings(node) ==
  (IF node.kind = "string" THEN {node.txt} ELSE {}) \cup UNION {Strings(n) : n \in ToSet(Body(node))}
Printable == \A txt \in Strings(html) : ToSet(txt) \cap Unprintable = {}

\* Every row is printed to its end, also one whose metadata uses a node twice,
\* except if metadata comes back to itself, which is unfolded until the stack
\* of the program is full, or if a text has a character that isprint rejects.
CellEnds ==
  /\ Endless ~> (renderer = "overflow")
  /\ ~Endless ~> (writer = IF Printable THEN "done" ELSE "aborted")

=============================================================================
