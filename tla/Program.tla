------------------------------ MODULE Program ------------------------------
(***************************************************************************)
(* main of llvm-viz around HtmlPrinter: the module is parsed, the page is  *)
(* printed to stdout or to a file, and the file is kept only if all went   *)
(* well.  tool_output_file and its stream are LLVM's: their destructors,   *)
(* and the handler that removes the file on a signal, are steps here.      *)
(* Between any two steps the program can be interrupted or killed.         *)
(***************************************************************************)
EXTENDS HtmlPrinter

VARIABLES
  dest,     \* "stdout" or "file", from the option -o
  raw,      \* whether a text of the page has a character isprint rejects
  main,     \* what main does next
  out,      \* what is at dest: "absent", "old", "part" or "whole"
  watched,  \* whether the signal handler will remove the file
  keep,     \* Keep of the tool_output_file
  error,    \* the error flag of its stream
  fault,    \* what went wrong around the program, or "none"
  status    \* "none" while it runs, then "success" (0), "failure" (1),
            \* "signal" or "crash"

file  == <<out, watched, keep, error>>
pvars == <<vars, dest, raw, main, file, fault, status>>

ProgramInit ==
  /\ Init
  /\ dest \in {"stdout", "file"}
  /\ raw \in BOOLEAN
  /\ main = "parse"
  /\ out \in {"absent"} \cup (IF dest = "file" THEN {"old"} ELSE {})
  /\ watched = FALSE
  /\ keep = FALSE
  /\ error = FALSE
  /\ fault = "none"
  /\ status = "none"

\* The handlers of LLVM, when a signal or a fatal error ends the program.
Removed == IF watched THEN "absent" ELSE out

End(result) == main' = "ended" /\ status' = result
GoOn(to)    == main' = to /\ UNCHANGED status

-----------------------------------------------------------------------------
Parse ==
  /\ main = "parse"
  /\ GoOn(IF dest = "file" THEN "register" ELSE "run")
  /\ UNCHANGED <<vars, dest, raw, file, fault>>

\* exit(1)
ParseFails ==
  /\ main = "parse"
  /\ End("failure")
  /\ fault' = "parse"
  /\ UNCHANGED <<vars, dest, raw, file>>

\* Mutant of Register: a stream that is not a tool_output_file.
RegisterNothing ==
  /\ main = "register"
  /\ GoOn("open")
  /\ UNCHANGED <<vars, dest, raw, file, fault>>

\* tool_output_file: RemoveFileOnSignal comes first, the file is opened after it.
Register ==
  /\ main = "register"
  /\ watched' = TRUE
  /\ GoOn("open")
  /\ UNCHANGED <<vars, dest, raw, out, keep, error, fault>>

\* What was in the file is gone.
Open ==
  /\ main = "open"
  /\ out' = "part"
  /\ GoOn("run")
  /\ UNCHANGED <<vars, dest, raw, watched, keep, error, fault>>

\* if (EC): no destructor runs in exit(1).
OpenFails ==
  /\ main = "open"
  /\ keep' = TRUE
  /\ End("failure")
  /\ fault' = "open"
  /\ UNCHANGED <<vars, dest, raw, out, watched, error>>

\* printer.run, until the document is complete
Run ==
  /\ main = "run"
  /\ Next
  /\ UNCHANGED <<dest, raw, main, file, fault, status>>

\* The cell in hand refers to metadata that comes back to itself.
StackIsFull == pc = "aborted" /\ Cycle \in References(Attr)

\* An abort raises a signal.  When the stack is full the handler of the signal
\* may have none left to run on.
Crash ==
  /\ main = "run"
  /\ pc = "aborted"
  /\ out' \in {Removed} \cup (IF StackIsFull THEN {out} ELSE {})
  /\ End("crash")
  /\ UNCHANGED <<vars, dest, raw, watched, keep, error, fault>>

\* doc->print(OS, 0): the stream writes whenever its buffer is full.
PrintDocument ==
  /\ main = "run"
  /\ pc = "done"
  /\ ~raw
  /\ out' = "part"
  /\ GoOn(IF dest = "file" THEN "keep" ELSE "return")
  /\ UNCHANGED <<vars, dest, raw, watched, keep, error, fault>>

\* The assert of print_str fails; something was written before or nothing was.
PrintFails ==
  /\ main = "run"
  /\ pc = "done"
  /\ raw
  /\ out' \in IF watched THEN {"absent"} ELSE {out, "part"}
  /\ End("crash")
  /\ UNCHANGED <<vars, dest, raw, watched, keep, error, fault>>

\* A write fails; the stream remembers that and goes on.
WriteFails ==
  /\ main \in {"keep", "close", "return"}
  /\ out = "part"
  /\ ~error
  /\ error' = TRUE
  /\ fault' = "write"
  /\ UNCHANGED <<vars, dest, raw, main, out, watched, keep, status>>

\* Mutant of Keep: it is forgotten.
KeepNothing ==
  /\ main = "keep"
  /\ GoOn("close")
  /\ UNCHANGED <<vars, dest, raw, file, fault>>

\* TOF.keep()
Keep ==
  /\ main = "keep"
  /\ keep' = TRUE
  /\ GoOn("close")
  /\ UNCHANGED <<vars, dest, raw, out, watched, error, fault>>

\* ~raw_fd_ostream: what is left is written.  After an error it calls
\* report_fatal_error, which runs the handlers and exit(1).
Close ==
  /\ main = "close"
  /\ out' = IF error THEN Removed ELSE "whole"
  /\ IF error THEN End("failure") ELSE GoOn("release")
  /\ UNCHANGED <<vars, dest, raw, watched, keep, error, fault>>

\* ~CleanupInstaller
Release ==
  /\ main = "release"
  /\ out' = IF keep THEN out ELSE "absent"
  /\ watched' = FALSE
  /\ GoOn("return")
  /\ UNCHANGED <<vars, dest, raw, keep, error, fault>>

\* return 0, with the page in its file or without it.
Return ==
  /\ main = "return"
  /\ dest = "file"
  /\ End("success")
  /\ UNCHANGED <<vars, dest, raw, file, fault>>

\* return 0; outs() is flushed by its destructor, like the stream of the file.
FlushOuts ==
  /\ main = "return"
  /\ dest = "stdout"
  /\ out' = IF error THEN out ELSE "whole"
  /\ End(IF error THEN "failure" ELSE "success")
  /\ UNCHANGED <<vars, dest, raw, watched, keep, error, fault>>

\* SIGINT and its like: the handler runs.
Interrupt ==
  /\ main # "ended"
  /\ out' = Removed
  /\ fault' = "interrupt"
  /\ End("signal")
  /\ UNCHANGED <<vars, dest, raw, watched, keep, error>>

\* SIGKILL, or the power fails: it does not.
Kill ==
  /\ main # "ended"
  /\ fault' = "kill"
  /\ End("signal")
  /\ UNCHANGED <<vars, dest, raw, file>>

Step ==
  \/ Parse \/ Register \/ Open \/ Run \/ Crash \/ PrintDocument \/ PrintFails
  \/ Keep \/ Close \/ Release \/ Return \/ FlushOuts

Faults == ParseFails \/ OpenFails \/ WriteFails \/ Interrupt \/ Kill

ProgramNext == Step \/ Faults

ProgramSpec == ProgramInit /\ [][ProgramNext]_pvars
\* A single thread goes on; no fault has to happen.
ProgramFairSpec == ProgramSpec /\ WF_pvars(Step)

-----------------------------------------------------------------------------
ProgramTypeOK ==
  /\ dest \in {"stdout", "file"}
  /\ main \in {"parse", "register", "open", "run", "keep", "close", "release", "return", "ended"}
  /\ out \in {"absent", "old", "part", "whole"}
  /\ raw \in BOOLEAN /\ watched \in BOOLEAN /\ keep \in BOOLEAN /\ error \in BOOLEAN
  /\ fault \in {"none", "parse", "open", "write", "interrupt", "kill"}
  /\ status \in {"none", "success", "failure", "signal", "crash"}

\* main returns 0 only if all of the page is where it should be: an error of
\* any write before, which the stream only remembers, is noticed in time, and
\* the file is not among those that are removed on the way out.
SuccessMeansPage == status = "success" => out = "whole"

\* However the program ends, in an error, an assert in the middle of the page
\* or an interrupt, it leaves no half page in the file: a build that is run again
\* never takes one for the result.  Only if it is killed, or has no stack left
\* to clean up on, it does.
NoHalfPage ==
  main = "ended" /\ dest = "file" /\ out = "part" =>
    fault = "kill" \/ StackIsFull

Refused(j) ==
  \E b \in ToSet(mod[j].blocks) : \E i \in ToSet(b.insts) :
     Fatal \cap (ToSet(i.operands) \cup ToSet(i.metadata)) # {}

Printable == ~raw /\ \A j \in DOMAIN mod : ~Refused(j)

\* Unless something goes wrong around the program, it ends with the page of its
\* module; if the module has an operand no link can be made for, cyclic
\* metadata, as !llvm.loop is, or a text that cannot be printed, it crashes and
\* the page is never printed.
Finishes ==
  /\ Printable  ~> (status = "success" \/ fault # "none")
  /\ ~Printable ~> (status = "crash" \/ fault # "none")

=============================================================================
