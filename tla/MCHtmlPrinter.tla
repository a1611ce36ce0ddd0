--------------------------- MODULE MCHtmlPrinter ---------------------------
(***************************************************************************)
(* Every module of up to three functions with the bodies below, printed to *)
(* stdout, to a new file or over an old one, with any fault at any step.   *)
(***************************************************************************)
EXTENDS Program

Inst(name, operands, scev) ==
  [name |-> name, operands |-> operands, scev |-> scev, metadata |-> <<>>]
Bb(name, depth, succs, insts) ==
  [name |-> name, depth |-> depth, succs |-> succs, insts |-> insts]
Func(args, blocks) == [args |-> args, blocks |-> blocks]

Declaration(j) == Func(<<"a">>, <<>>)

\* Calls the first function, which may be a declaration, and stores to a global.
Caller(j) ==
  Func(<<>>, <<Bb("entry", 0, <<>>,
    <<Inst("r", <<Constant, Fn(1)>>, <<>>),
      Inst(Void, <<Local(j, "r"), Variable("g")>>, <<>>)>>)>>)

\* Two nested loops; the inner block is deeper than MAX_DEPTH here.
Nest(j) ==
  Func(<<"n", "m">>,
    <<Bb("entry", 0, <<2>>, <<Inst(Void, <<Local(j, "outer")>>, <<Local(j, "n")>>)>>),
      Bb("outer", 1, <<3>>,
        <<Inst("i", <<Local(j, "n"), Local(j, "i")>>, <<Constant, Local(j, "outer")>>)>>),
      Bb("inner", 2, <<3, 2>>,
        <<[Inst("k", <<Local(j, "i")>>, <<Local(j, "m"), Local(j, "inner")>>)
             EXCEPT !.metadata = <<Local(j, "k"), Constant>>],
          Inst(Void, <<Local(j, "k"), Local(j, "inner"), Local(j, "outer")>>, <<>>)>>)>>)

\* A call of a debug intrinsic, and a branch with !llvm.loop metadata.
Debug(j) ==
  Func(<<"a">>, <<Bb("entry", 0, <<>>, <<Inst(Void, <<Metadata>>, <<>>)>>)>>)
LoopHint(j) ==
  Func(<<>>,
    <<Bb("entry", 0, <<2>>, <<Inst(Void, <<Local(j, "outer")>>, <<>>)>>),
      Bb("outer", 1, <<2>>, <<[Inst(Void, <<Local(j, "outer")>>, <<>>)
                                 EXCEPT !.metadata = <<Cycle>>]>>)>>)

Body(kind, j) ==
  CASE kind = "declaration" -> Declaration(j)
    [] kind = "caller"      -> Caller(j)
    [] kind = "nest"        -> Nest(j)
    [] kind = "debug"       -> Debug(j)
    [] kind = "hint"        -> LoopHint(j)

MCName == {"a", "r", "g", "n", "m", "i", "k", "entry", "outer", "inner"}

Kinds == {"declaration", "caller", "nest", "debug", "hint"}

MCModules ==
  {[j \in DOMAIN kinds |-> Body(kinds[j], j)] : kinds \in UNION {[1 .. n -> Kinds] : n \in 0 .. 3}}

=============================================================================
