---------------------------- MODULE SourceLines ----------------------------
(***************************************************************************)
(* What LongStringLiteral::print makes of a text: the lines it finds, and  *)
(* those it prints.  LongStringLiteral shows that its two loops compute    *)
(* just this.  Lines count from 1 here, from 0 in the code.                *)
(***************************************************************************)
EXTENDS Integers, Sequences, SequencesExt

Space == " "
NL    == "\n"

LeadingSpaces(s) ==
  CHOOSE n \in 0 .. Len(s) :
    /\ \A k \in 1 .. n : s[k] = Space
    /\ n < Len(s) => s[n + 1] # Space

\* The line of a text that ends at k, if a line break is there.
LineAt(s, k) ==
  LET before == {0} \cup {j \in 1 .. k - 1 : s[j] = NL}
      start  == CHOOSE j \in before : \A l \in before : l <= j
  IN IF s[k] = NL THEN <<SubSeq(s, start + 1, k - 1)>> ELSE <<>>

\* The lines of a text, from its line breaks: what follows the last one is none.
LinesOf(s) == FlattenSeq([k \in DOMAIN s |-> LineAt(s, k)])

FullLines(ls) == {n \in DOMAIN ls : ls[n] # <<>>}

\* The fewest spaces in front of a line that is not empty.
CommonSpaces(ls) ==
  CHOOSE n \in {LeadingSpaces(ls[k]) : k \in FullLines(ls)} :
    \A k \in FullLines(ls) : n <= LeadingSpaces(ls[k])

\* first_line = 0 is "not set": the first line counts only if all others are empty.
FirstPrinted(ls) ==
  LET later == FullLines(ls) \ {1}
  IN IF later = {} THEN 1 ELSE CHOOSE n \in later : \A k \in later : n <= k
LastPrinted(ls) ==
  LET full == FullLines(ls)
  IN IF full = {} THEN 1 ELSE CHOOSE n \in full : \A k \in full : k <= n

\* A line without the common spaces, behind the indentation; an empty line has none.
CutLine(ls, k, indent) ==
  IF ls[k] = <<>> THEN <<>>
  ELSE indent \o SubSeq(ls[k], CommonSpaces(ls) + 1, Len(ls[k]))

PrintedLines(ls, indent) ==
  [n \in 1 .. LastPrinted(ls) - FirstPrinted(ls) + 1 |->
     CutLine(ls, FirstPrinted(ls) + n - 1, indent)]

=============================================================================
