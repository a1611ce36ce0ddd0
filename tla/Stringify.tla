----------------------------- MODULE Stringify -----------------------------
(***************************************************************************)
(* stringify: a build runs one command for each embedded text, several at  *)
(* a time and again after a failure.  Each run writes a header and an      *)
(* implementation to temporary files in the build directory they share,    *)
(* and the destructors of OutputFile rename them to their destinations.    *)
(*                                                                         *)
(* error() calls exit, which runs no destructor of a local: a run that     *)
(* fails leaves its temporary files behind, and the branch of ~OutputFile  *)
(* that removes a file is never taken.                                     *)
(***************************************************************************)
EXTENDS Integers, FiniteSets, Functions

CONSTANTS
  Runners,  \* the commands of the build
  Random,   \* what createUniqueFile fills the pattern of a name with
  Unnamed,  \* a path that is still empty
  MaxRuns   \* bound: how many runs the build starts

Suffixes == {"hpp", "cpp"}
Files    == Runners \X Suffixes   \* the destinations
Temps    == Random \X Suffixes    \* the names of temporary files

ASSUME RunsAssumption == MaxRuns \in Nat
ASSUME UnnamedAssumption == Unnamed \notin Random

VARIABLES
  pc,       \* where each run is
  run,      \* which run of its command it is
  name,     \* the random part of the names of a run's temporary files
  temps,    \* what the temporary files contain
  broken,   \* the streams that have met a write error
  dst       \* what the destinations contain

vars == <<pc, run, name, temps, broken, dst>>

\* A file has the text of a run, whole or not.
Text(n, whole) == [run |-> n, whole |-> whole]
TextType       == [run : Nat, whole : BOOLEAN]
Absent         == Text(-1, FALSE)

Over    == {"idle", "succeeded", "failed"}
Working == {"createHpp", "createCpp", "open", "writeHpp", "writeCpp",
            "closeCpp", "renameCpp", "closeHpp", "renameHpp"}

\* At first the destinations are absent or from an earlier build: run 0.
Init ==
  /\ pc = [p \in Runners |-> "idle"]
  /\ run = [p \in Runners |-> 0]
  /\ name = [f \in Files |-> Unnamed]
  /\ temps = [t \in Temps |-> Absent]
  /\ broken = {}
  /\ dst = [f \in Files |-> Text(0, TRUE)]

-----------------------------------------------------------------------------
Goto(p, label) == pc' = [pc EXCEPT ![p] = label]
Temp(p, s)     == <<name[<<p, s>>], s>>

Runs == SumFunctionOnSet(run, Runners)

\* The build starts the command, for the first time or again.  The arguments
\* may be refused: an empty one, or a name that is no identifier.
Start(p) ==
  /\ pc[p] \in Over
  /\ Runs < MaxRuns
  /\ run' = [run EXCEPT ![p] = @ + 1]
  /\ \/ Goto(p, "createHpp")
     \/ Goto(p, "failed")
  /\ UNCHANGED <<name, temps, broken, dst>>

\* The program is over: its memory goes, the files it made stay.
Abort(p) ==
  /\ Goto(p, "failed")
  /\ name' = [f \in Files |-> IF f[1] = p THEN Unnamed ELSE name[f]]
  /\ broken' = {f \in broken : f[1] # p}
  /\ UNCHANGED <<run, temps, dst>>

\* error(...), an interrupt or a crash, at any point of a run.
Fail(p) == pc[p] \in Working /\ Abort(p)

\* Mutant of Create: without O_EXCL, a file that exists is opened too.
CreateOrReopen(p, s, from, to) ==
  /\ pc[p] = from
  /\ \E r \in Random :
       /\ name' = [name EXCEPT ![<<p, s>>] = r]
       /\ temps' = [temps EXCEPT ![<<r, s>>] = Text(run[p], FALSE)]
  /\ Goto(p, to)
  /\ UNCHANGED <<run, broken, dst>>

\* createUniqueFile opens a file that did not exist.
Create(p, s, from, to) ==
  /\ pc[p] = from
  /\ \E r \in Random :
       /\ temps[<<r, s>>] = Absent
       /\ name' = [name EXCEPT ![<<p, s>>] = r]
       /\ temps' = [temps EXCEPT ![<<r, s>>] = Text(run[p], FALSE)]
  /\ Goto(p, to)
  /\ UNCHANGED <<run, broken, dst>>

OpenInput(p) ==
  /\ pc[p] = "open"
  /\ Goto(p, "writeHpp")
  /\ UNCHANGED <<run, name, temps, broken, dst>>

\* A text is written and flushed; a stream that fails keeps that to itself.
Write(p, s, from, to) ==
  /\ pc[p] = from
  /\ \/ /\ temps' = [temps EXCEPT ![Temp(p, s)] = Text(run[p], TRUE)]
        /\ UNCHANGED broken
     \/ /\ broken' = broken \cup {<<p, s>>}
        /\ UNCHANGED temps
  /\ Goto(p, to)
  /\ UNCHANGED <<run, name, dst>>

\* Mutant of Close: a write error is dropped with the stream.
CloseQuietly(p, s, from, to) ==
  /\ pc[p] = from
  /\ Goto(p, to)
  /\ UNCHANGED <<run, name, temps, broken, dst>>

\* The first half of ~OutputFile: the destructor of the stream ends the
\* program if there was an error (external: raw_fd_ostream).
Close(p, s, from, to) ==
  /\ pc[p] = from
  /\ \/ <<p, s>> \in broken /\ Abort(p)
     \/ /\ <<p, s>> \notin broken
        /\ Goto(p, to)
        /\ UNCHANGED <<run, name, temps, broken, dst>>

\* Mutant of Rename: the temporary file is removed first.
RenameRemoved(p, s, from, to) ==
  /\ pc[p] = from
  /\ temps' = [temps EXCEPT ![Temp(p, s)] = Absent]
  /\ dst' = [dst EXCEPT ![<<p, s>>] = temps'[Temp(p, s)]]
  /\ name' = [name EXCEPT ![<<p, s>>] = Unnamed]
  /\ Goto(p, to)
  /\ UNCHANGED <<run, broken>>

\* Mutant of Rename: main forgets HppTmp.keep().
RenameCppOnly(p, s, from, to) ==
  /\ pc[p] = from
  /\ dst' = [dst EXCEPT ![<<p, "cpp">>] = IF s = "cpp" THEN temps[Temp(p, s)] ELSE @]
  /\ temps' = [temps EXCEPT ![Temp(p, s)] = Absent]
  /\ name' = [name EXCEPT ![<<p, s>>] = Unnamed]
  /\ Goto(p, to)
  /\ UNCHANGED <<run, broken>>

\* The second half: the rename.  When it fails, Fail is the step.
Rename(p, s, from, to) ==
  /\ pc[p] = from
  /\ dst' = [dst EXCEPT ![<<p, s>>] = temps[Temp(p, s)]]
  /\ temps' = [temps EXCEPT ![Temp(p, s)] = Absent]
  /\ name' = [name EXCEPT ![<<p, s>>] = Unnamed]
  /\ Goto(p, to)
  /\ UNCHANGED <<run, broken>>

\* Mutant of Step: the .cpp is declared first, and so renamed last.
StepHeaderFirst(p) ==
  \/ Create(p, "hpp", "createHpp", "createCpp")
  \/ Create(p, "cpp", "createCpp", "open")
  \/ OpenInput(p)
  \/ Write(p, "hpp", "writeHpp", "writeCpp")
  \/ Write(p, "cpp", "writeCpp", "closeHpp")
  \/ Close(p, "hpp", "closeHpp", "renameHpp")
  \/ Rename(p, "hpp", "renameHpp", "closeCpp")
  \/ Close(p, "cpp", "closeCpp", "renameCpp")
  \/ Rename(p, "cpp", "renameCpp", "succeeded")

\* Locals are destroyed in the reverse order: first the .cpp, then the .hpp.
Step(p) ==
  \/ Create(p, "hpp", "createHpp", "createCpp")
  \/ Create(p, "cpp", "createCpp", "open")
  \/ OpenInput(p)
  \/ Write(p, "hpp", "writeHpp", "writeCpp")
  \/ Write(p, "cpp", "writeCpp", "closeCpp")
  \/ Close(p, "cpp", "closeCpp", "renameCpp")
  \/ Rename(p, "cpp", "renameCpp", "closeHpp")
  \/ Close(p, "hpp", "closeHpp", "renameHpp")
  \/ Rename(p, "hpp", "renameHpp", "succeeded")

Next == \E p \in Runners : Start(p) \/ Fail(p) \/ Step(p)

Spec == Init /\ [][Next]_vars

-----------------------------------------------------------------------------
TypeOK ==
  /\ pc \in [Runners -> Over \cup Working]
  /\ run \in [Runners -> Nat]
  /\ name \in [Files -> Random \cup {Unnamed}]
  /\ temps \in [Temps -> TextType \cup {Absent}]
  /\ broken \subseteq Files
  /\ dst \in [Files -> TextType]

\* Whatever fails and whenever, no destination ever holds part of a text: a
\* compiler that reads it next sees the old text or the new one.
PublishedWhole == \A f \in Files : dst[f].whole

\* The .cpp is never older than its header: a run that stops between the two
\* renames leaves a header the next build recognises as out of date.
HeaderNotNewer ==
  \A p \in Runners : dst[<<p, "hpp">>].run <= dst[<<p, "cpp">>].run

\* A run that ends with status 0 has put both files of this run in place.
SuccessPublishesBoth ==
  \A p \in Runners : pc[p] = "succeeded" =>
     \A s \in Suffixes : dst[<<p, s>>] = Text(run[p], TRUE)

\* The temporary files a run has created and not yet renamed.
CppHeldAt == {"open", "writeHpp", "writeCpp", "closeCpp", "renameCpp"}
HppHeldAt == CppHeldAt \cup {"createCpp", "closeHpp", "renameHpp"}
Holds(p)  == {s \in Suffixes : pc[p] \in (IF s = "hpp" THEN HppHeldAt ELSE CppHeldAt)}

\* Runs at the same time do not write to each other's temporary files, nor to
\* one an earlier run left behind.
TempsAreOwn ==
  \A p \in Runners : \A s \in Holds(p) :
     /\ Temp(p, s) \in Temps
     /\ temps[Temp(p, s)].run = run[p]
     /\ \A q \in Runners \ {p} : s \in Holds(q) => Temp(p, s) # Temp(q, s)

-----------------------------------------------------------------------------
(* What the build sees of it.                                              *)

Phase(p) ==
  IF pc[p] = "succeeded" THEN "both"
  ELSE IF pc[p] \in {"idle", "failed"} THEN "idle"
  ELSE IF pc[p] \in {"closeHpp", "renameHpp"} THEN "half"
  ELSE "working"

\* A file that is not whole counts as one of no run.
PublishedRun(f) == IF dst[f].whole THEN dst[f].run ELSE -1

Promise == INSTANCE AtomicPublish WITH
  phase     <- [p \in Runners |-> Phase(p)],
  attempt   <- run,
  published <- [f \in Files |-> PublishedRun(f)]

\* stringify keeps the promise of AtomicPublish.
KeepsPromise == Promise!Spec

=============================================================================
