---------------------------- MODULE MCEscapeName ----------------------------
(***************************************************************************)
(* EscapeName on the printed names of all globals with a short name over a *)
(* few characters of every kind.                                           *)
(***************************************************************************)
EXTENDS EscapeName, LLVMNames

MCAlnum == CodeLetters \cup Digits \cup {"C"}
MCHex   == {"0", "1", "2", "5", "C", "a", "c", "d", "e"}
MCHexCode ==
  (Quote :> <<"2", "2">>) @@ (Backslash :> <<"5", "C">>) @@ ("SOH" :> <<"0", "1">>)

\* One character of each class, and the special ones whose codes share a prefix.
NameChars  == {"a", "1", Underscore, Dot, Dollar, Quote, Backslash, "SOH"}
ShortNames == UNION {[1 .. n -> NameChars] : n \in 1 .. 3}

GlobalNames == {<<At>> \o PrintedName(n) : n \in ShortNames}

\* Names with a blank, which LLVM prints in quotes.
BlankNames  == {<<At>> \o PrintedName(n) : n \in {<<"a", " ">>, <<" ", Underscore, "a">>}}

\* Raw function names in front of a local: getName() escapes nothing.
RawNames == {n \o <<Dot, Percent, "a">> : n \in ShortNames}

MCNames == GlobalNames \cup BlankNames \cup RawNames

=============================================================================
