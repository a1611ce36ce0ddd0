----------------------------- MODULE Embedding -----------------------------
(***************************************************************************)
(* How a script or style sheet gets from its file into a page.  At build   *)
(* time stringify makes literals of it (Getline); a compiler makes a       *)
(* string of them (LiteralText, external); at run time llvm-viz gives the  *)
(* string to a script or style tag, which prints it (LongStringLiteral).   *)
(***************************************************************************)
EXTENDS LiteralText

CONSTANTS
  Files,    \* the files that are embedded
  BufSize,  \* sizeof(buf) in getline
  Indent,   \* the indentation of the text in the page, indent_lvl + 2
  SizeMax   \* the largest size_t

ASSUME EmbeddingAssumption ==
  /\ Files \subseteq Seq(FileChar)
  /\ BufSize \in Nat /\ BufSize >= 2
  /\ Indent \in Nat \ {0}
  /\ SizeMax \in Nat /\ \A f \in Files : Len(f) < SizeMax

VARIABLES
  file, pos, buf, line, cpp, pc,          \* of Getline
  str, printer, prev, lineno, lines,      \* of LongStringLiteral, whose pc is
  num_common_spaces, first_line,          \* here printer; it is "waiting" until
  last_line, i, out                       \* there is a program to run

reading  == <<file, pos, buf, line, cpp, pc>>
printing == <<str, printer, prev, lineno, lines, num_common_spaces, first_line,
              last_line, i, out>>
vars == <<reading, printing>>

S == INSTANCE Getline
P == INSTANCE LongStringLiteral
       WITH pc <- printer, Texts <- Seq(FileChar \cup {Garbled}),
            Letter <- FileChar \cup {Garbled}

Init ==
  /\ S!Init
  /\ str = <<>>
  /\ printer = "waiting"
  /\ prev = 0
  /\ lineno = 0
  /\ lines = <<>>
  /\ num_common_spaces = SizeMax
  /\ first_line = 0
  /\ last_line = 0
  /\ i = 0
  /\ out = <<>>

Stringify == S!Next /\ UNCHANGED printing

\* stringify has succeeded, its .cpp is compiled and llvm-viz prints a page.
\* Without a literal the .cpp has the line "static const char src[] = ;": it does
\* not compile, and there is no llvm-viz.
PrintTag ==
  /\ pc = "done"
  /\ cpp # <<>>
  /\ printer = "waiting"
  /\ str' = StringOf(cpp)
  /\ printer' = "split"
  /\ UNCHANGED <<reading, prev, lineno, lines, num_common_spaces, first_line,
                 last_line, i, out>>

PrintLines == P!Next /\ UNCHANGED reading

Next == Stringify \/ PrintTag \/ PrintLines

Spec     == Init /\ [][Next]_vars
\* Each program runs to its end, and the build goes on if the .cpp compiles.
FairSpec == Spec /\ WF_vars(Next)

-----------------------------------------------------------------------------
TypeOK ==
  /\ S!TypeOK
  /\ printer = "waiting" \/ P!TypeOK

\* Stated in Getline: of stringify.
NothingLostOrDoubled == S!NothingLostOrDoubled
OneLiteralPerLine    == S!OneLiteralPerLine
WritesAllLines       == S!WritesAllLines
StringIsFile         == S!StringIsFile

\* Stated in LongStringLiteral: of the tag.
RawLiteralsDedented  == P!RawLiteralsDedented
PrintsItsLines       == P!PrintsItsLines
IsPrinted            == P!IsPrinted
EveryTextDedented    == P!EveryTextDedented

\* The lines without the empty ones and without the spaces they start with.
Stripped(ls) ==
  FlattenSeq([k \in DOMAIN ls |->
    IF ls[k] = <<>> THEN <<>>
    ELSE <<SubSeq(ls[k], P!LeadingSpaces(ls[k]) + 1, Len(ls[k]))>>])

\* The lines of the file that a line break ends.
FileLines == P!LinesOf(file)

\* All that an embedded file ever loses on its way into the page are the first
\* line, if another one is not empty, and a last line without line break: the
\* rest is there, in order, each line once.
OnlyTheEndsAreLost ==
  printer = "done" /\ S!Ordinary =>
     LET rest == SubSeq(FileLines, 2, Len(FileLines))
     IN Stripped(out) = Stripped(IF Stripped(rest) = <<>> THEN FileLines ELSE rest)

=============================================================================
