------------------------------- MODULE MCCells -------------------------------
(***************************************************************************)
(* Small trees with every kind of node and the characters that mean        *)
(* something to a browser; rows for SCEVs with up to two operations; all   *)
(* shapes of metadata of up to four nodes that matter: shared, cyclic,     *)
(* empty, and with each kind of operand.                                   *)
(***************************************************************************)
EXTENDS CellReading

T == INSTANCE HtmlTree

\* Trees.

Txts == {<<>>, <<"a">>, <<"<", "b", ">">>, <<"&", "lt", ";">>, <<"\"">>, <<"BEL">>}
Leaves ==
  {T!Str(txt) : txt \in Txts}
    \cup {T!Entity("times"), T!EmptyTag("br", <<>>),
          T!EmptyTag("input", <<T!Attr("type", <<"checkbox">>), T!BareAttr("checked")>>)}

\* Sources: as a raw literal of main.cpp, which starts with a line break, and as
\* files have them, with a line of their own first and none or some empty lines
\* and indentation; the last one ends without a line break.
Sources ==
  {<<"\n", " ", "a", "<", "b", "\n", "\n", " ", " ", "&", "lt", ";", ">", "\n">>,
   <<"a", " ", "\n", "\n", " ", "\"", "\n", "\n">>, <<" ", "a", "<", "\n", "\n">>, <<"\n", "\n">>,
   <<"a", "\n", "b", "\n", "c">>}
Scripts == {T!VerbatimTag(tag, txt) : tag \in {"script", "style"}, txt \in Sources}

Values1 == {<<"i32">>, <<"%", "\"", "a", "b", "\"">>, <<"%", "\"", "a", "<", "b", ">", "\"">>, <<">">>}
Attrs   == {<<>>} \cup {<<T!Attr("title", v)>> : v \in Values1}
             \cup {<<T!Attr("href", <<"#", "a">>), T!Attr("title", v)>> : v \in Values1}

Tag(tag, attrs, style, body) == [T!SimpleTag(tag, attrs, style) EXCEPT !.body = body]
Styles == {"block", "flow"}
Inner ==
  {Tag("a", attrs, style, body) :
     attrs \in Attrs, style \in Styles, body \in {<<>>} \cup {<<n>> : n \in Leaves}}
Deep == {Tag("span", <<>>, style, <<T!Str(<<"a">>), n>>) : style \in Styles, n \in Inner}
Bodies ==
  {<<>>} \cup {<<n>> : n \in Leaves \cup Scripts \cup Inner \cup Deep}
    \cup {<<m, n>> : m \in Leaves, n \in Leaves} \cup {<<n, T!Str(<<"&">>)>> : n \in Inner}
    \cup {<<T!Str(<<"a">>), n, T!Str(<<"a">>)>> : n \in Scripts}
    \cup {<<Tag("a", <<>>, s, <<n>>), Tag("a", <<>>, t, <<>>)>> : s \in Styles, t \in Styles, n \in Leaves}
Trees == {Tag("div", <<>>, style, body) : style \in Styles, body \in Bodies}

\* Values and SCEVs.

X    == Value(<<"%", "x">>, <<"i32">>, <<"main", ".", "x">>)
Zero == Value(<<"0">>, <<"i32">>, <<>>)
Long == Value(<<"0">>, <<"i64">>, <<>>)
Loop == Value(<<"%", "loop">>, <<"label">>, <<"main", ".", "loop">>)
Call == Value(<<"@", "f">>, <<"%", "struct.s", "*">>, <<>>)
Cpp  == Value(<<"@", "g">>, <<"%", "\"", "pair", "<", "int", ">", "\"", "*">>, <<"g">>)

Leaf(v)            == Scev("value", v.type, <<>>, {}, v)
NAry(op, fl, args) == Scev(op, <<"i32">>, args, fl, <<>>)
Cast(op, arg, ty)  == Scev(op, ty, <<arg>>, {}, <<>>)
AddRec(args, fl)   == Scev("addrec", <<"i32">>, args, fl, Loop)
About(op, ty)      == Scev(op, <<"i64">>, <<>>, {}, Value(<<>>, ty, <<>>))

Small == {Leaf(X), Leaf(Zero), Leaf(Long)}
NoWrap  == {"nuw", "nsw"}
NoWraps == SUBSET NoWrap
\* No signed or unsigned wrap means no self wrap.
RecWraps == {{}, {"nw"}, {"nw", "nuw"}, {"nw", "nsw"}, {"nw", "nuw", "nsw"}}
Sums(args) ==
  {NAry(op, fl, args) : op \in {"add", "mul"}, fl \in NoWraps}
    \cup {NAry(op, {}, args) : op \in {"smax", "umax", "udiv"}}
Casts(arg) == {Cast(op, arg, <<ty>>) : op \in {"trunc", "sext", "zext"}, ty \in {"i8", "i128"}}
Simple ==
  Small \cup UNION {Sums(<<a, Leaf(X)>>) : a \in Small} \cup UNION {Casts(a) : a \in Small}
    \cup {AddRec(<<Leaf(Zero), Leaf(X)>>, fl) : fl \in RecWraps}
    \cup {About("sizeof", <<"i32">>), About("alignof", <<"i32">>),
          Scev("offsetof", <<"t">>, <<>>, {}, Zero)}
\* One expression of each form, to be part of others.
Parts ==
  {Leaf(X), NAry("add", {"nuw"}, <<Leaf(X), Leaf(Zero)>>), NAry("mul", NoWrap, <<Leaf(X), Leaf(X)>>),
   NAry("umax", {}, <<Leaf(X), Leaf(Zero)>>), NAry("udiv", {}, <<Leaf(X), Leaf(X)>>),
   Cast("sext", Leaf(X), <<"i64">>), AddRec(<<Leaf(Zero), Leaf(X)>>, {"nw", "nuw"}),
   Scev("offsetof", <<"t">>, <<>>, {}, Zero)}
Scevs ==
  Simple \cup UNION {Sums(<<e, Leaf(X)>>) \cup Sums(<<Leaf(X), e>>) \cup Casts(e) : e \in Parts}
    \cup {AddRec(<<e, Leaf(X), Leaf(Zero)>>, fl) : e \in Parts, fl \in RecWraps}
    \cup {NAry("add", {"nsw"}, <<Leaf(X), e, Leaf(Zero)>>) : e \in Parts}

\* Metadata: "shared" uses "leaf" twice, "self" and the pair come back.
MCMdOperands ==
  ("empty" :> <<>>) @@ ("leaf" :> <<<<"string", <<"s", "<">>>>, <<"null">>, <<"value", Zero>>>>)
    @@ ("shared" :> <<<<"node", "leaf">>, <<"string", <<"&">>>>, <<"node", "leaf">>>>)
    @@ ("self" :> <<<<"node", "self">>, <<"value", X>>>>)
    @@ ("ping" :> <<<<"node", "pong">>>>) @@ ("pong" :> <<<<"node", "empty">>, <<"node", "ping">>>>)
    @@ ("bell" :> <<<<"string", <<"a", "BEL">>>>>>)
Md(nodes) == [k \in DOMAIN nodes |-> [kind |-> "tbaa", node |-> nodes[k]]]
Mds ==
  {Md(<<n>>) : n \in DOMAIN MCMdOperands} \cup {Md(<<"shared", "leaf">>), Md(<<"empty", "pong">>), <<>>}

Inst(operands, scev, metadata) ==
  [kind |-> "instruction", id |-> <<"main", ".", "i">>, name |-> <<"%", "i">>, type |-> <<"i32">>,
   opcode |-> "add", operands |-> operands, scev |-> scev, metadata |-> metadata]
Void(inst) == [inst EXCEPT !.type = <<"void">>, !.scev = <<>>]

Operands == {<<>>, <<X>>, <<X, Zero>>, <<Call, X, Loop>>, <<X, Cpp>>}
Insts ==
  {Inst(<<X, Zero>>, <<e>>, <<>>) : e \in Scevs}
    \cup {Inst(ops, <<Leaf(X)>>, md) : ops \in Operands, md \in Mds}
Blocks ==
  {[kind |-> "blocks", label |-> <<"Successors:">>, blocks |-> bs] :
     bs \in {<<>>, <<Loop>>, <<Loop, X>>, <<Loop, X, Loop>>}}

MCJobs ==
  {[kind |-> "tree", tree |-> t] : t \in Trees} \cup Insts
    \cup {Void(i) : i \in {i \in Insts : i.scev = <<Leaf(X)>>}} \cup Blocks

=============================================================================
