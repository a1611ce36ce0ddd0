----------------------------- MODULE IdAlphabet -----------------------------
(***************************************************************************)
(* The characters of LLVM names and of the ids ValueNameMangler makes of   *)
(* them.  Characters are one-letter strings, names are sequences of them.  *)
(***************************************************************************)
EXTENDS Integers, SequencesExt

CONSTANTS
  Alnum,      \* the characters 0-9, a-z and A-Z
  Hex,        \* those of them that are hexadecimal digits
  Other,      \* printable characters the switch has no case for: ' ', '+', ...
  Unprintable \* control characters and bytes above 0x7e

Underscore == "_"
At         == "@"
Percent    == "%"
Dot        == "."
Dash       == "-"
Dollar     == "$"
Quote      == "\""
Backslash  == "\\"

Special == {Underscore, At, Percent, Dot, Dash, Dollar, Quote}

\* The characters of a printed name; a raw name may have Unprintable ones too.
Char    == Alnum \cup Special \cup {Backslash} \cup Other
RawChar == Char \cup Unprintable

-----------------------------------------------------------------------------
(* What the loop of getId writes for one character, or for one escape.     *)

\* Mutant of CodeWord: the switch has no case for special characters.
CodeWordCopies(c) == <<c>>

CodeWord(c) ==
  CASE c = Underscore -> <<Underscore, Underscore, Underscore>>
    [] c = At         -> <<Underscore, "a", "t", Underscore>>
    [] c = Percent    -> <<Underscore, "p", "e", "r", "c", "e", "n", "t", Underscore>>
    [] c = Dot        -> <<Underscore, "d", "o", "t", Underscore>>
    [] c = Dash       -> <<Underscore, "d", "a", "s", "h", Underscore>>
    [] c = Dollar     -> <<Underscore, "d", "o", "l", "l", "a", "r", Underscore>>
    [] c = Quote      -> <<Underscore, "q", "u", "o", "t", "e", Underscore>>
    [] OTHER          -> <<c>>

HexWord(a, b) == <<Underscore, "x", a, b, Underscore>>

\* The asserts under case '\\' hold for the escape that starts at k.
EscapeAt(b, k) ==
  /\ k + 2 <= Len(b)
  /\ b[k + 1] \in Hex
  /\ b[k + 2] \in Hex

\* The loop gets through the printed name b: its switch knows every character
\* and a backslash stands only in front of two hexadecimal digits.
WellFormed(b) ==
  \A k \in DOMAIN b :
     /\ b[k] \notin Other \cup Unprintable
     /\ b[k] = Backslash => EscapeAt(b, k)

\* What it then writes for position k; the digits of an escape stand for
\* nothing, they have been written with its backslash.
Word(b, k) ==
  IF \E d \in 1 .. 2 : k > d /\ b[k - d] = Backslash THEN <<>>
  ELSE IF b[k] = Backslash THEN HexWord(b[k + 1], b[k + 2])
  ELSE CodeWord(b[k])

\* The id for the printed name b.
Escaped(b) == FlattenSeq([k \in DOMAIN b |-> Word(b, k)])

\* Two texts that differ, and keep differing whatever follows them.
Differ(s, t) ==
  \E k \in 1 .. Len(s) : k <= Len(t) /\ s[k] # t[k]

\* The characters an id may have.
CssChar == Alnum \cup {Underscore}

CodeLetters ==
  {"a", "c", "d", "e", "h", "l", "n", "o", "p", "q", "r", "s", "t", "u", "x"}

ASSUME CharAssumption ==
  /\ CodeLetters \subseteq Alnum
  /\ Hex \subseteq Alnum
  /\ Alnum \cap (Special \cup {Backslash}) = {}
  /\ Other \cap (Alnum \cup Special \cup {Backslash}) = {}
  /\ Unprintable \cap Char = {}

=============================================================================
