------------------------- MODULE LongStringLiteral -------------------------
(***************************************************************************)
(* LongStringLiteral::print, through which every style sheet and script    *)
(* reaches the page: the text is split into lines and their common leading *)
(* spaces are counted, then the lines are printed without them, from the   *)
(* first to the last that is not empty.                                    *)
(*                                                                         *)
(* Indices count from 0, as in the code: lines[i] is Lines[i + 1].         *)
(***************************************************************************)
EXTENDS SourceLines

CONSTANTS
  Texts,    \* the texts to print
  Letter,   \* the characters that are neither a space nor a line break
  Indent,   \* the spaces to print before each line
  SizeMax   \* the largest size_t, more than the length of any text

VARIABLES
  str,               \* the text
  pc,                \* "split", "print", "done" or "aborted"
  prev,              \* where the next line starts
  lineno,            \* its number
  lines,             \* the lines found
  num_common_spaces,
  first_line,
  last_line,
  i,                 \* the line to print next
  out                \* the lines printed

found == <<lines, num_common_spaces, first_line, last_line>>
vars  == <<str, pc, prev, lineno, found, i, out>>

Init ==
  /\ str \in Texts
  /\ pc = "split"
  /\ prev = 0
  /\ lineno = 0
  /\ lines = <<>>
  /\ num_common_spaces = SizeMax
  /\ first_line = 0
  /\ last_line = 0
  /\ i = 0
  /\ out = <<>>

-----------------------------------------------------------------------------
\* str.find('\n', prev), in DOMAIN str
Breaks    == {k \in DOMAIN str : k > prev /\ str[k] = NL}
NextBreak == CHOOSE k \in Breaks : \A l \in Breaks : k <= l

Lesser(m, n) == IF m < n THEN m ELSE n

\* Mutant of NoteLine: the spaces of the last line count, not the fewest.
NoteLineOverwrites(line) ==
  IF line = <<>> THEN UNCHANGED <<num_common_spaces, first_line, last_line>>
  ELSE /\ num_common_spaces' = LeadingSpaces(line)
       /\ first_line' = IF first_line = 0 THEN lineno ELSE first_line
       /\ last_line' = lineno

\* Mutant of NoteLine: last_line is one too many.
NoteLineBehind(line) ==
  IF line = <<>> THEN UNCHANGED <<num_common_spaces, first_line, last_line>>
  ELSE /\ num_common_spaces' = Lesser(num_common_spaces, LeadingSpaces(line))
       /\ first_line' = IF first_line = 0 THEN lineno ELSE first_line
       /\ last_line' = lineno + 1

\* if (!line.empty()) ...; first_line is "not set" when it is 0.
NoteLine(line) ==
  IF line = <<>> THEN UNCHANGED <<num_common_spaces, first_line, last_line>>
  ELSE /\ num_common_spaces' = Lesser(num_common_spaces, LeadingSpaces(line))
       /\ first_line' = IF first_line = 0 THEN lineno ELSE first_line
       /\ last_line' = lineno

SplitLine ==
  /\ pc = "split"
  /\ Breaks # {}
  /\ LET line == SubSeq(str, prev + 1, NextBreak - 1)
     IN /\ lines' = Append(lines, line)
        /\ NoteLine(line)
  /\ prev' = NextBreak
  /\ lineno' = lineno + 1
  /\ UNCHANGED <<str, pc, i, out>>

\* Mutant of EndSplit: the first line is taken for the empty one before it.
EndSplitAfterFirst ==
  /\ pc = "split"
  /\ Breaks = {}
  /\ i' = first_line + 1
  /\ pc' = "print"
  /\ UNCHANGED <<str, prev, lineno, found, out>>

\* What follows the last line break is not a line.
EndSplit ==
  /\ pc = "split"
  /\ Breaks = {}
  /\ i' = first_line
  /\ pc' = "print"
  /\ UNCHANGED <<str, prev, lineno, found, out>>

\* An empty line has no indentation.
Indentation == [k \in 1 .. Indent |-> Space]
Printed(line) ==
  IF line = <<>> THEN <<>>
  ELSE Indentation \o SubSeq(line, Lesser(num_common_spaces, Len(line)) + 1, Len(line))

\* lines[i] out of range would be an assert of SmallVector.
PrintLine ==
  /\ pc = "print"
  /\ i <= last_line
  /\ IF i < Len(lines)
     THEN /\ out' = Append(out, Printed(lines[i + 1]))
          /\ i' = i + 1
          /\ UNCHANGED pc
     ELSE /\ pc' = "aborted"
          /\ UNCHANGED <<i, out>>
  /\ UNCHANGED <<str, prev, lineno, found>>

EndPrint ==
  /\ pc = "print"
  /\ i > last_line
  /\ pc' = "done"
  /\ UNCHANGED <<str, prev, lineno, found, i, out>>

Next == SplitLine \/ EndSplit \/ PrintLine \/ EndPrint

Spec     == Init /\ [][Next]_vars
\* One thread, two loops.
FairSpec == Spec /\ WF_vars(Next)

-----------------------------------------------------------------------------
TypeOK ==
  /\ str \in Texts
  /\ pc \in {"split", "print", "done", "aborted"}
  /\ prev \in 0 .. Len(str)
  /\ lineno = Len(lines)
  /\ num_common_spaces \in 0 .. SizeMax
  /\ first_line <= last_line
  /\ last_line <= lineno
  /\ i \in 0 .. last_line + 1
  /\ \A k \in DOMAIN out : out[k] \in Seq(Letter \cup {Space})

\* The lines of the text, and those that are not empty.
TextLines == LinesOf(str)
Full      == FullLines(TextLines)

\* The doc of LongStringLiteral, as an operator: the lines without the empty
\* ones at both ends, the common spaces replaced by the indentation.
Dedented ==
  LET from == CHOOSE n \in Full : \A k \in Full : n <= k
      to   == CHOOSE n \in Full : \A k \in Full : k <= n
  IN [n \in 1 .. to - from + 1 |-> CutLine(TextLines, from + n - 1, Indentation)]

\* A raw string literal of main.cpp: it starts with a line break.
RawLiteral == str # <<>> /\ str[1] = NL

\* A raw literal is printed as the doc says: no line of it is lost or cut into,
\* its lines keep their places relative to each other.
RawLiteralsDedented ==
  pc = "done" /\ RawLiteral /\ Full # {} => out = Dedented

\* What the two loops with their five counters print is a function of the text:
\* from the line FirstPrinted to the line LastPrinted, each line once.  The
\* renderers rely on it for the scripts and style sheets of the page.
PrintsItsLines ==
  pc = "done" => out = PrintedLines(TextLines, Indentation)

\* The text is printed to its end: no index gets behind the lines found, where an
\* assert would end the program in the middle of a page.  It needs a line break
\* in the text, which is what getline leaves at the end of every literal.
IsPrinted == (pc = "split") ~> (pc = "done")

\* The doc of LongStringLiteral: "When printing it skips the common leading spaces on all lines.  Leading and
\* trailing empty lines are also not printed."  Whatever line the text starts
\* with, it is printed like that.
EveryTextDedented ==
  pc = "done" /\ Full # {} => out = Dedented

=============================================================================
