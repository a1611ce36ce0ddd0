-------------------------- MODULE ValueNameMangler --------------------------
(***************************************************************************)
(* The ValueNameMangler of one page: it hands out the ids of the values of *)
(* a module, remembers them in _ids, and builds the links that lead to     *)
(* them.  The printer calls it for anchors (id attributes) and for         *)
(* references, in an order that depends on the module: here in any order.  *)
(***************************************************************************)
EXTENDS LLVMNames

CONSTANT Modules   \* the modules a page may be made of: sets of values

\* The values getId and ref are called with.  A name is <<>> for a value
\* without one; LLVM then prints the slot number.
Global(name, slot, declaration) ==
  [kind |-> "global", name |-> name, slot |-> slot, declaration |-> declaration]
\* A basic block, an instruction or an argument.
Local(fn, name, slot) ==
  [kind |-> "local", fn |-> fn, name |-> name, slot |-> slot]
\* Constants that are no globals.
Constant(n) == [kind |-> "constant", number |-> n]
\* Operands that are neither: MetadataAsValue, InlineAsm.
OtherValue(n) == [kind |-> "other", number |-> n]

VARIABLES
  mod,      \* the module
  ids,      \* _ids: the ids given out so far
  anchors,  \* the values whose id attribute was emitted, with the id
  links,    \* the values a link was made for, with its target
  status    \* "running", or "aborted" by an assert or an unreachable

vars == <<mod, ids, anchors, links, status>>

Init ==
  /\ mod \in Modules
  /\ ids = <<>>
  /\ anchors = {}
  /\ links = {}
  /\ status = "running"

-----------------------------------------------------------------------------
\* Mutant of AsOperand: names are not quoted.
AsOperandUnquoted(v) ==
  <<IF v.kind = "global" THEN At ELSE Percent>>
    \o (IF v.name = <<>> THEN v.slot ELSE v.name)

\* printAsOperand(OS, false, _slots)
AsOperand(v) ==
  LET sigil == IF v.kind = "global" THEN At ELSE Percent
  IN <<sigil>> \o (IF v.name = <<>> THEN v.slot ELSE PrintedName(v.name))

\* Mutant of Buf: locals without the name of their function.
BufWithoutFunction(v) == AsOperand(v)

\* The temporary string of getId: a local has the raw name of its function,
\* which nothing quotes or escapes, in front.
Buf(v) ==
  IF v.kind = "global" THEN AsOperand(v)
  ELSE v.fn.name \o <<Dot>> \o AsOperand(v)

\* getId(v, OS) reaches its end.
HasId(v) == v.kind \in {"global", "local"} /\ WellFormed(Buf(v))

\* getId(v): an id made once is kept.
Id(v) == IF v \in DOMAIN ids THEN ids[v] ELSE Escaped(Buf(v))
Remember(v) == ids' = [w \in DOMAIN ids \cup {v} |-> Id(w)]

Aborts ==
  /\ status' = "aborted"
  /\ UNCHANGED <<mod, ids, anchors, links>>

\* The printer gives an element the id of the value it shows: a function that
\* is not a declaration, or a local.
Anchor(v) ==
  /\ v.kind = "local" \/ (v.kind = "global" /\ ~v.declaration)
  /\ IF HasId(v)
     THEN /\ Remember(v)
          /\ anchors' = anchors \cup {<<v, Id(v)>>}
          /\ UNCHANGED <<mod, links, status>>
     ELSE Aborts

\* Mutant of IsLink: other constants are taken for values with an id.
IsLinkEvenConstants(v) == v.kind = "global" => ~v.declaration

\* ref(v) makes a link of everything but declarations and other constants.
IsLink(v) ==
  IF v.kind = "global" THEN ~v.declaration ELSE v.kind # "constant"

MakeLink(v) ==
  IF HasId(v)
  THEN /\ Remember(v)
       /\ links' = links \cup {<<v, Id(v)>>}
       /\ UNCHANGED <<mod, anchors, status>>
  ELSE Aborts

Ref(v) == IF IsLink(v) THEN MakeLink(v) ELSE UNCHANGED vars

Next ==
  /\ status = "running"
  /\ \E v \in mod : Anchor(v) \/ Ref(v)

Spec == Init /\ [][Next]_vars

-----------------------------------------------------------------------------
(* What LLVM guarantees of the values of a module.                         *)

Globals ==
  [kind : {"global"}, name : Seq(RawChar), slot : Seq(Digits), declaration : BOOLEAN]
Locals ==
  [kind : {"local"}, fn : Globals, name : Seq(RawChar), slot : Seq(Digits)]
WithoutId == [kind : {"constant", "other"}, number : Nat]

\* Values without a name have a slot.
WellTyped(m) ==
  /\ m \subseteq Globals \cup Locals \cup WithoutId
  /\ \A v \in m \cap (Globals \cup Locals) : v.name = <<>> => v.slot # <<>>

SameName(v, w) == v.name = w.name /\ (v.name = <<>> => v.slot = w.slot)

\* The symbol tables of a module and of its functions have one value for a
\* name, and a slot tracker one for a slot.  The last conjunct is more than LLVM
\* guarantees: any number of functions may be without a name (TwoUnnamed in
\* the MC module).
OneValuePerName(m) ==
  /\ \A v, w \in m \cap Globals : SameName(v, w) => v = w
  /\ \A v, w \in m \cap Locals : v.fn = w.fn /\ SameName(v, w) => v = w
  /\ \A v, w \in m \cap Locals : v.fn.name = w.fn.name => v.fn = w.fn

\* The names of a module that getId can make ids of: no character that its
\* switch does not know, and none in the name of a function that only a quoted
\* name would have escaped.
Renderable(m) ==
  /\ \A v \in m : v.kind # "other"
  /\ \A v \in m \cap (Globals \cup Locals) : v.name \in Seq(RawChar \ Other)
  /\ \A v \in m \cap Locals : v.fn.name \in Seq(Alnum \cup Special)

-----------------------------------------------------------------------------
HasIdKind == {v \in mod : v.kind \in {"global", "local"}}

TypeOK ==
  /\ mod \in Modules
  /\ DOMAIN ids \subseteq HasIdKind
  /\ \A v \in DOMAIN ids : ids[v] \in Seq(CssChar)
  /\ anchors \subseteq HasIdKind \X {ids[v] : v \in DOMAIN ids}
  /\ links \subseteq HasIdKind \X {ids[v] : v \in DOMAIN ids}
  /\ status \in {"running", "aborted"}

\* The doc of getId: "Returns a unique ID (at module scope)".  No two values
\* of the module share an id, whatever their names spell: neither two locals
\* of functions with similar names nor a local and a global.
UniqueIds == \A v, w \in DOMAIN ids : ids[v] = ids[w] => v = w

\* Whether the anchor or the link was made first, a link has the id of the
\* element that shows its value and of no other element of the page.
LinksLeadHome ==
  \A l \in links, a \in anchors : (l[2] = a[2]) <=> (l[1] = a[1])

\* The doc of ref: "Constants and external globals are rendered as a simple
\* string, for other values a link is created."  No reference to a value
\* ends the program.
EveryValueIsRendered == status # "aborted"

=============================================================================
