----------------------------- MODULE EscapeName -----------------------------
(***************************************************************************)
(* One call of ValueNameMangler::getId(v, OS): the loop that turns the     *)
(* printed name of an LLVM value into an HTML/CSS id.                      *)
(*                                                                         *)
(* The build modelled is the one the CMake files describe: they choose no  *)
(* build type, so NDEBUG is not defined and a failing assert ends the      *)
(* program.                                                                *)
(***************************************************************************)
EXTENDS IdAlphabet

CONSTANT Names   \* the printed names a call may be given, sequences of RawChar

VARIABLES
  buf,     \* the printed name
  i,       \* index of the next character (from 1, the code counts from 0)
  out,     \* what has been written to OS
  status   \* "running", "done", or "aborted" by an assert

vars == <<buf, i, out, status>>

Init ==
  /\ buf \in Names
  /\ i = 1
  /\ out = <<>>
  /\ status = "running"

InLoop == status = "running" /\ i <= Len(buf)

\* Mutant of Emit: the digits of an escape are not skipped.
EmitNoSkip(word, width) ==
  /\ out' = out \o word
  /\ i' = i + 1
  /\ UNCHANGED <<buf, status>>

Emit(word, width) ==
  /\ out' = out \o word
  /\ i' = i + width
  /\ UNCHANGED <<buf, status>>

\* case '_', '@', '%', '.', '-', '$', '"'
EscapeSpecial ==
  /\ InLoop
  /\ buf[i] \in Special
  /\ Emit(CodeWord(buf[i]), 1)

\* case '\\': an escape \xx that LLVM printed, kept with its two digits
EscapeBackslash ==
  /\ InLoop
  /\ buf[i] = Backslash
  /\ EscapeAt(buf, i)
  /\ Emit(HexWord(buf[i + 1], buf[i + 2]), 3)

\* Mutant of CopyPlain: the default case without its assert.
CopyAnything ==
  /\ InLoop
  /\ buf[i] \notin Special \cup {Backslash}
  /\ Emit(<<buf[i]>>, 1)

\* default, when its assert holds
CopyPlain ==
  /\ InLoop
  /\ buf[i] \in Alnum
  /\ Emit(<<buf[i]>>, 1)

\* One of the asserts in the loop fails.
AssertFails ==
  /\ InLoop
  /\ \/ buf[i] = Backslash /\ ~EscapeAt(buf, i)
     \/ buf[i] \in Other \cup Unprintable
  /\ status' = "aborted"
  /\ UNCHANGED <<buf, i, out>>

\* The loop condition i < e fails.
Return ==
  /\ status = "running"
  /\ i > Len(buf)
  /\ status' = "done"
  /\ UNCHANGED <<buf, i, out>>

Next ==
  \/ EscapeSpecial
  \/ EscapeBackslash
  \/ CopyPlain
  \/ AssertFails
  \/ Return

Spec     == Init /\ [][Next]_vars
\* One thread runs the loop: nothing can hold it back.
FairSpec == Spec /\ WF_vars(Next)

-----------------------------------------------------------------------------
TypeOK ==
  /\ buf \in Seq(RawChar)
  /\ i \in 1 .. Len(buf) + 1
  /\ out \in Seq(CssChar)
  /\ status \in {"running", "done", "aborted"}

\* The doc of getId: "All symbols except [a-zA-Z0-9_] are escaped".  A name
\* with a printable character the switch does not know, a blank for example,
\* is a legal LLVM name, but the default case asserts that there is none.
EveryNameIsEscaped == status # "aborted"

\* A call on a name whose characters the switch knows comes to an end with an
\* id: the index that skips the digits of an escape never runs past the name.
\* On every other name an assert ends the program, no id is made up.
EndsAsTheNameDemands ==
  /\ WellFormed(buf) ~> (status = "done")
  /\ ~WellFormed(buf) ~> (status = "aborted")

\* A finished loop has written the escape of every part of the name, each
\* once and in order: no digit of an escape is printed twice, none is lost.
WritesEscapedName == status = "done" => out = Escaped(buf)

=============================================================================
