------------------------- MODULE MCValueNameMangler -------------------------
(***************************************************************************)
(* Small modules with names that could be taken for each other once the    *)
(* function's name, the dot and the sigil are put together.                *)
(***************************************************************************)
EXTENDS ValueNameMangler

MCAlnum == CodeLetters \cup Digits \cup {"b", "f", "y", "C"}
MCHex   == Digits \cup {"a", "b", "c", "d", "e", "f", "C"}
MCHexCode ==
  (Quote :> <<"2", "2">>) @@ (Backslash :> <<"5", "C">>) @@ ("SOH" :> <<"0", "1">>)

Func(name)    == Global(name, <<>>, FALSE)
Unnamed(slot) == Global(<<>>, slot, FALSE)

\* Locals of one function: named and not, and the name that spells a slot.
Slots ==
  LET f == Func(<<"f">>)
  IN {f, Local(f, <<"x">>, <<>>), Local(f, <<>>, <<"1">>),
      Local(f, <<"1">>, <<>>), Constant(1), Global(<<"x">>, <<>>, TRUE)}

\* Two functions, the name of one continuing that of the other like a local.
Nested ==
  LET f == Func(<<"f">>)
      g == Func(<<"f", Dot, Percent, "x">>)
  IN {f, g, Local(f, <<"x", Dot, Percent, "y">>, <<>>), Local(g, <<"y">>, <<>>)}

\* A function whose raw name begins like the printed name of a global.
Sigils ==
  LET f == Func(<<At, "f">>)
  IN {f, Local(f, <<"x">>, <<>>), Global(<<"f", Dot, Percent, "x">>, <<>>, FALSE),
      Global(<<"f">>, <<>>, FALSE)}

\* The same local in three functions, one with a quote in its raw name, one
\* without a name.
Twins ==
  LET a == Func(<<"a">>)
      b == Func(<<"b", Quote>>)
  IN {a, Local(a, <<"x", "SOH">>, <<>>), b, Local(b, <<"x", "SOH">>, <<>>),
      Unnamed(<<"0">>), Local(Unnamed(<<"0">>), <<"x", "SOH">>, <<>>)}

NamedModules == {Slots, Nested, Sigils, Twins}

\* What the proofs take for granted of a module holds of these.
ASSUME NamedModulesAssumption ==
  \A m \in NamedModules : WellTyped(m) /\ OneValuePerName(m) /\ Renderable(m)

\* Two functions without a name, each with an argument in slot 0.
TwoUnnamed ==
  {Local(Unnamed(<<"0">>), <<>>, <<"0">>), Local(Unnamed(<<"1">>), <<>>, <<"0">>)}
UnnamedModules == {TwoUnnamed}

ASSUME UnnamedModulesAssumption ==
  \A m \in UnnamedModules : WellTyped(m) /\ ~OneValuePerName(m)

\* A call of a debug intrinsic: one operand is metadata.
MetadataModules == {{Func(<<"f">>), Constant(1), OtherValue(1)}}

=============================================================================
