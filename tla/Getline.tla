------------------------------ MODULE Getline ------------------------------
(***************************************************************************)
(* The loop in the main of stringify that writes the .cpp: getline reads a *)
(* line of the input in chunks of fgets, escape writes it as one literal.  *)
(*                                                                         *)
(* Without a line break at its end, the last line has no literal.          *)
(***************************************************************************)
EXTENDS LiteralText

CONSTANTS
  Files,   \* the texts that may be given to stringify: sequences of FileChar
  BufSize  \* sizeof(buf), 256 in the code

VARIABLES
  file,    \* the text of the input
  pos,     \* how much of it fgets has read
  buf,     \* what is in buf up to its NUL
  line,    \* dst in getline, line in main
  cpp,     \* the literals written
  pc       \* "main", "getline", "return", or where the program ended

vars == <<file, pos, buf, line, cpp, pc>>

Init ==
  /\ file \in Files
  /\ pos = 0
  /\ buf = <<>>
  /\ line = <<>>
  /\ cpp = <<>>
  /\ pc = "main"

Rest == SubSeq(file, pos + 1, Len(file))
Lesser(a, b) == IF a < b THEN a ELSE b

\* Mutant of Chunk: no room is left for the NUL.
ChunkFillsBuf ==
  LET most   == SubSeq(Rest, 1, Lesser(BufSize, Len(Rest)))
      breaks == {k \in DOMAIN most : most[k] = NL}
  IN IF breaks = {} THEN most
     ELSE SubSeq(most, 1, CHOOSE k \in breaks : \A l \in breaks : k <= l)

\* What fgets takes: to a line break, to the end, to BufSize - 1 characters.
Chunk ==
  LET most   == SubSeq(Rest, 1, Lesser(BufSize - 1, Len(Rest)))
      breaks == {k \in DOMAIN most : most[k] = NL}
  IN IF breaks = {} THEN most
     ELSE SubSeq(most, 1, CHOOSE k \in breaks : \A l \in breaks : k <= l)

\* StringRef str = buf: up to the first NUL.
CString(s) ==
  LET nuls == {k \in DOMAIN s : s[k] = NUL}
  IN IF nuls = {} THEN s
     ELSE SubSeq(s, 1, (CHOOSE k \in nuls : \A l \in nuls : k <= l) - 1)

\* buf is a local of getline: at the call it contains anything.
Call ==
  /\ pc = "main"
  /\ buf' \in {<<>>, <<Garbled>>}
  /\ pc' = "getline"
  /\ UNCHANGED <<file, pos, line, cpp>>

\* Mutant of ReadChunk: an empty line is taken for the end of the file.
ReadChunkToEmptyLine ==
  /\ pc = "getline"
  /\ Rest # <<>>
  /\ CString(Chunk) # <<>>
  /\ pos' = pos + Len(Chunk)
  /\ buf' = CString(Chunk)
  /\ line' = line \o buf'
  /\ pc' = IF line' = <<NL>> THEN "done" ELSE IF Last(buf') = NL THEN "return" ELSE "getline"
  /\ UNCHANGED <<file, cpp>>

\* fgets has read something; the assert of back() holds.
ReadChunk ==
  /\ pc = "getline"
  /\ Rest # <<>>
  /\ CString(Chunk) # <<>>
  /\ pos' = pos + Len(Chunk)
  /\ buf' = CString(Chunk)
  /\ line' = line \o buf'
  /\ pc' = IF Last(buf') = NL THEN "return" ELSE "getline"
  /\ UNCHANGED <<file, cpp>>

\* str.back() of an empty string.
BackFails ==
  /\ pc = "getline"
  /\ Rest # <<>>
  /\ CString(Chunk) = <<>>
  /\ pc' = "aborted"
  /\ UNCHANGED <<file, pos, buf, line, cpp>>

\* The end of the file: the chunk before is appended again, or what buf had
\* when getline was called; false is returned and main writes nothing.
ReadEnd ==
  /\ pc = "getline"
  /\ Rest = <<>>
  /\ line' = line \o buf
  /\ pc' = "done"
  /\ UNCHANGED <<file, pos, buf, cpp>>

\* fgets fails.
ReadError ==
  /\ pc = "getline"
  /\ pc' = "failed"
  /\ UNCHANGED <<file, pos, buf, line, cpp>>

\* Mutant of WriteLine: line is not cleared.
WriteLineAgain ==
  /\ pc = "return"
  /\ cpp' = Append(cpp, [k \in DOMAIN line |-> EscapeToken(line[k])])
  /\ pc' = "main"
  /\ UNCHANGED <<file, pos, buf, line>>

\* true is returned; main writes a literal and clears line.
WriteLine ==
  /\ pc = "return"
  /\ cpp' = Append(cpp, [k \in DOMAIN line |-> EscapeToken(line[k])])
  /\ line' = <<>>
  /\ pc' = "main"
  /\ UNCHANGED <<file, pos, buf>>

Next == Call \/ ReadChunk \/ BackFails \/ ReadEnd \/ ReadError \/ WriteLine

Spec     == Init /\ [][Next]_vars
\* One thread; a read from a file comes to an end.
FairSpec == Spec /\ WF_vars(Next)

-----------------------------------------------------------------------------
TypeOK ==
  /\ file \in Files
  /\ pos \in 0 .. Len(file)
  /\ Len(buf) < BufSize
  /\ line \in Seq(FileChar \cup {Garbled})
  /\ \A k \in DOMAIN cpp : cpp[k] \in Seq(Token)
  /\ pc \in {"main", "getline", "return", "done", "failed", "aborted"}

\* A text whose literals mean what it says: ASCII, and no hexadecimal digit
\* right after a character that is written in hexadecimal.
Ordinary ==
  \A k \in DOMAIN file :
     /\ file[k] \in TextChar \ Negative
     /\ file[k] \in Control /\ k < Len(file) => file[k + 1] \notin HexDigit

\* Where the last line break is, or 0.
LastBreak ==
  LET breaks == {k \in DOMAIN file : file[k] = NL}
  IN IF breaks = {} THEN 0 ELSE CHOOSE k \in breaks : \A l \in breaks : l <= k

\* What has been written and the line in hand are the text that was read: no
\* chunk is lost or taken twice, wherever a line is cut by the end of buf.
NothingLostOrDoubled ==
  Ordinary /\ pc \in {"main", "getline", "return"} =>
     StringOf(cpp) \o line = SubSeq(file, 1, pos)

\* Every literal is one line of the source: it ends with the escape of the line
\* break that ends the line, and has no other.
OneLiteralPerLine ==
  Ordinary => \A k \in DOMAIN cpp :
     /\ Last(cpp[k]) = <<"letter", NL>>
     /\ \A j \in 1 .. Len(cpp[k]) - 1 : cpp[k][j][2] # NL

\* The program ends for every input, and when it succeeds on an ordinary text
\* it has written all lines that end with a line break.
WritesAllLines ==
  /\ <>(pc \in {"done", "failed", "aborted"})
  /\ [](Ordinary /\ pc = "done" => StringOf(cpp) = SubSeq(file, 1, LastBreak))

\* The first line of stringify.cpp: "helper program that turns files into C++
\* string literals".  The string the literals make is the text of the file.
StringIsFile == pc = "done" => StringOf(cpp) = file

=============================================================================
