---------------------------- MODULE MCEscapePair ----------------------------
(***************************************************************************)
(* EscapePair on all pairs of short names.  The characters are chosen so   *)
(* that names spell out parts of the codes of others: '_', 'a', 't' and    *)
(* '@', 'x', the digits and the backslash.                                 *)
(***************************************************************************)
EXTENDS EscapePair

MCAlnum == CodeLetters \cup {"4", "0"}
MCHex   == {"4", "0", "a", "d"}

CodeSpelling == UNION {[1 .. n -> {Underscore, At, "a", "t"}] : n \in 0 .. 3}
HexSpelling  ==
  {p \o q : p \in {<<Underscore>>, <<"x">>, <<Backslash>>, <<"4">>},
            q \in {<<"4", "0">>, <<"x", "4", "0">>, <<"4", "0", Underscore>>,
                   <<"x", "4", "0", Underscore>>, <<"4", "4">>, <<Underscore, Underscore>>}}
SpecialNames == {<<Percent, c>> : c \in Special}

\* An escape with characters on both sides, two of them, and names that the
\* loop does not get through: a cut off or wrong escape, unknown characters.
Escape     == <<Backslash, "4", "0">>
Escapes    == {p \o Escape \o q : p \in {<<>>, <<"a">>, <<Underscore>>}, q \in {<<"a">>, <<"4">>, Escape}}
IllFormed  ==
  {<<"a", Backslash>>, <<At, Backslash, "4">>, <<Backslash, "x", "4", "0">>, <<At, "a", " ", At>>,
   <<At, "SOH">>, <<Backslash, Backslash, "4", "0">>, Escape \o <<Backslash, "4">>}

WholeCodes == {<<Underscore, "a", "t", Underscore>>, <<At>>}

MCNames ==
  Escapes \cup IllFormed \cup WholeCodes \cup CodeSpelling \cup HexSpelling \cup SpecialNames

=============================================================================
