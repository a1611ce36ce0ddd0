---------------------------- MODULE LiteralText ----------------------------
(***************************************************************************)
(* The C++ string literals stringify writes: what escape makes of a        *)
(* character, and what a compiler makes of that (external).                *)
(***************************************************************************)
EXTENDS Integers, Sequences, SequencesExt

CONSTANTS
  Printable, \* characters that stand for themselves, quote and backslash not
  HexDigit,  \* those of them that are hexadecimal digits
  Named,     \* characters with an escape of their own but the line break
  Control,   \* control characters without one, and DEL
  Negative   \* bytes from 0x80 on: char is signed

NL  == "\n"
NUL == "NUL"

TextChar == Printable \cup Named \cup Control \cup Negative \cup {NL}
FileChar == TextChar \cup {NUL}

ASSUME LiteralAssumption ==
  /\ HexDigit \subseteq Printable
  /\ (Named \cup {NL}) \cap (Printable \cup Control \cup Negative \cup {NUL}) = {}
  /\ NUL \notin Printable \cup Control \cup Negative

\* A token is what escape writes for one character: the character itself, a
\* letter after a backslash, or the digits of write_hex after \x.
Token == {"plain", "letter", "hex"} \X FileChar

\* Mutant of EscapeToken: the line break, which ends a literal, is copied.
EscapeTokenKeepingBreaks(c) ==
  CASE c \in Printable \cup {NL} -> <<"plain", c>>
    [] c \in Named               -> <<"letter", c>>
    [] OTHER                     -> <<"hex", c>>

EscapeToken(c) ==
  CASE c \in Named \cup {NL} -> <<"letter", c>>
    [] c \in Printable       -> <<"plain", c>>
    [] OTHER                 -> <<"hex", c>>

\* write_hex prints a negative char with its sign extended to 64 bits, out of
\* the range of a char; and to a compiler \x has no end but the first character
\* that is no digit.  A line break as such is no part of a literal.
Misread(literal, k) ==
  \/ literal[k] \in {"hex"} \X Negative
  \/ /\ literal[k][1] = "hex"
     /\ k < Len(literal)
     /\ literal[k + 1] \in {"plain"} \X HexDigit
  \/ literal[k] = <<"plain", NL>>

Garbled == "garbled"
Meaning(literal) ==
  [k \in DOMAIN literal |-> IF Misread(literal, k) THEN Garbled ELSE literal[k][2]]

\* Literals that follow each other are one string.
StringOf(literals) == FlattenSeq([k \in DOMAIN literals |-> Meaning(literals[k])])

=============================================================================
