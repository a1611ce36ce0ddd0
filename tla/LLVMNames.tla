----------------------------- MODULE LLVMNames -----------------------------
(***************************************************************************)
(* External: how LLVM 5 prints the name of a value (PrintLLVMName, behind  *)
(* Value::printAsOperand), the input of ValueNameMangler::getId.           *)
(***************************************************************************)
EXTENDS IdAlphabet

CONSTANT HexCode  \* the two digits of the code of a character LLVM escapes

Digits        == {"0", "1", "2", "3", "4", "5", "6", "7", "8", "9"}
EscapedByLLVM == Unprintable \cup {Quote, Backslash}

ASSUME HexCodeAssumption ==
  /\ HexCode \in [EscapedByLLVM -> Hex \X Hex]
  /\ \A c, d \in EscapedByLLVM : HexCode[c] = HexCode[d] => c = d

ASSUME DigitsAssumption == Digits \subseteq Alnum

NeedsQuotes(name) ==
  \/ name[1] \in Digits
  \/ \E k \in DOMAIN name : name[k] \notin Alnum \cup {Dash, Dot, Underscore}

Quoted(c) ==
  IF c \in EscapedByLLVM THEN <<Backslash>> \o HexCode[c] ELSE <<c>>

PrintedName(name) ==
  IF NeedsQuotes(name)
  THEN <<Quote>> \o FlattenSeq([k \in DOMAIN name |-> Quoted(name[k])]) \o <<Quote>>
  ELSE name

=============================================================================
