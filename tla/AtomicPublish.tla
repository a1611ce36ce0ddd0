--------------------------- MODULE AtomicPublish ---------------------------
(***************************************************************************)
(* What the build relies on when it runs stringify: every run turns one    *)
(* text into two files, and a file it replaces goes from the whole text of *)
(* an earlier run to the whole text of this run in one step.  The header   *)
(* follows the implementation, so a run that stops half way leaves the     *)
(* older file in the place of the header.                                  *)
(***************************************************************************)
EXTENDS Integers

CONSTANTS Runners   \* the commands of the build, each with two files of its own

VARIABLES
  phase,      \* "idle", "working", "half" (the .cpp is out) or "both"
  attempt,    \* the run a runner is in, or was in last
  published   \* the run each file of each runner is from

vars == <<phase, attempt, published>>

Init ==
  /\ phase = [p \in Runners |-> "idle"]
  /\ attempt = [p \in Runners |-> 0]
  /\ published = [f \in Runners \X {"hpp", "cpp"} |-> 0]

Begin(p) ==
  /\ phase[p] \in {"idle", "both"}
  /\ phase' = [phase EXCEPT ![p] = "working"]
  /\ attempt' = [attempt EXCEPT ![p] = @ + 1]
  /\ UNCHANGED published

\* A run that refuses its arguments counts, and nothing else happens.
Refuse(p) ==
  /\ phase[p] \in {"idle", "both"}
  /\ phase' = [phase EXCEPT ![p] = "idle"]
  /\ attempt' = [attempt EXCEPT ![p] = @ + 1]
  /\ UNCHANGED published

PublishCpp(p) ==
  /\ phase[p] = "working"
  /\ phase' = [phase EXCEPT ![p] = "half"]
  /\ published' = [published EXCEPT ![<<p, "cpp">>] = attempt[p]]
  /\ UNCHANGED attempt

PublishHpp(p) ==
  /\ phase[p] = "half"
  /\ phase' = [phase EXCEPT ![p] = "both"]
  /\ published' = [published EXCEPT ![<<p, "hpp">>] = attempt[p]]
  /\ UNCHANGED attempt

GiveUp(p) ==
  /\ phase[p] \in {"working", "half"}
  /\ phase' = [phase EXCEPT ![p] = "idle"]
  /\ UNCHANGED <<attempt, published>>

Next ==
  \E p \in Runners : Begin(p) \/ Refuse(p) \/ PublishCpp(p) \/ PublishHpp(p) \/ GiveUp(p)

Spec == Init /\ [][Next]_vars

=============================================================================
