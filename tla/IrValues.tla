------------------------------ MODULE IrValues ------------------------------
(***************************************************************************)
(* What the renderers see of LLVM's values and scalar evolutions.          *)
(***************************************************************************)
EXTENDS Naturals, Sequences

\* A value is its operand text, its type, and the id a link to it leads to;
\* <<>> for a declaration or another constant, which ref makes no link to.
Value(text, type, id) == [text |-> text, type |-> type, id |-> id]

\* A SCEV.  value is a leaf, the header of the loop of a recurrence, or what
\* sizeof, alignof and offsetof are about.
Scev(op, type, args, flags, value) ==
  [op |-> op, type |-> type, args |-> args, flags |-> flags, value |-> value]

AnyValue == [text : Seq(STRING), type : Seq(STRING), id : Seq(STRING)]
AnyFlags == SUBSET {"nw", "nuw", "nsw"}

ScevOver(ops, argLists, values) ==
  [op : ops, type : Seq(STRING), args : argLists, flags : AnyFlags, value : values]

\* The scalar evolutions of at most that height.
ScevOf[height \in Nat] ==
  IF height = 0 THEN {}
  ELSE LET parts == ScevOf[height - 1]
       IN ScevOver({"value", "sizeof", "alignof", "offsetof"}, {<<>>}, AnyValue)
            \cup ScevOver({"trunc", "sext", "zext"}, [1 .. 1 -> parts], {<<>>})
            \cup ScevOver({"add", "mul", "smax", "umax", "udiv"}, Seq(parts), {<<>>})
            \cup ScevOver({"addrec"}, Seq(parts), AnyValue)

\* What metadata refers to, nodes being the names of all nodes.
MetadataOver(nodes) ==
  {<<"null">>} \cup ({"value"} \X AnyValue) \cup ({"string"} \X Seq(STRING)) \cup ({"node"} \X nodes)

=============================================================================
