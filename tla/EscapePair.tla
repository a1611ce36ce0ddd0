----------------------------- MODULE EscapePair -----------------------------
(***************************************************************************)
(* Two calls of ValueNameMangler::getId side by side, on two different     *)
(* printed names.  Each copy takes the steps of EscapeName; they go in     *)
(* step while both have characters left, which loses no behaviour because  *)
(* the copies share nothing and each is deterministic.                     *)
(***************************************************************************)
EXTENDS IdAlphabet

CONSTANT Names   \* the printed names the calls may be given

ASSUME PairNamesAssumption == Names \subseteq Seq(RawChar)

VARIABLES buf1, i1, out1, status1, buf2, i2, out2, status2

A == INSTANCE EscapeName
       WITH buf <- buf1, i <- i1, out <- out1, status <- status1
B == INSTANCE EscapeName
       WITH buf <- buf2, i <- i2, out <- out2, status <- status2

first  == <<buf1, i1, out1, status1>>
second == <<buf2, i2, out2, status2>>
vars   == <<first, second>>

Init ==
  /\ A!Init
  /\ B!Init
  /\ buf1 # buf2

\* Both loops go round once.
Together == A!Next /\ B!Next

\* One of them has ended, the other goes on.
FirstOnly  == status2 # "running" /\ A!Next /\ UNCHANGED second
SecondOnly == status1 # "running" /\ B!Next /\ UNCHANGED first

Next == Together \/ FirstOnly \/ SecondOnly

Spec     == Init /\ [][Next]_vars
\* Each call is made by a thread that nothing holds back.
FairSpec == Spec /\ WF_vars(Next)

-----------------------------------------------------------------------------
TypeOK == A!TypeOK /\ B!TypeOK

\* The doc of getId: "Returns a unique ID (at module scope)".  Two different
\* printed names never get the same id, whatever characters they have: the
\* escapes cannot be confused with each other nor with characters that were
\* copied, so a link can only lead to the value it was made for.
DistinctIds ==
  status1 = "done" /\ status2 = "done" => out1 # out2

\* A finished loop has written the escape of every part of the name, each
\* once and in order: no digit of an escape is printed twice, none is lost.
WritesEscapedName == A!WritesEscapedName /\ B!WritesEscapedName

\* A call on a name whose characters the switch knows comes to an end with an
\* id: the index that skips the digits of an escape never runs past the name.
\* On every other name an assert ends the program, no id is made up.
EndsAsTheNameDemands == A!EndsAsTheNameDemands /\ B!EndsAsTheNameDemands

-----------------------------------------------------------------------------
(* Why: the words written for one turn of the loop are a prefix code.      *)

\* Both have read and written the same.
Same ==
  /\ status1 = "running"
  /\ status2 = "running"
  /\ i1 = i2
  /\ i1 <= Len(buf1) + 1
  /\ i1 <= Len(buf2) + 1
  /\ \A k \in 1 .. i1 - 1 : buf1[k] = buf2[k]
  /\ out1 = out2

\* One name was a prefix of the other: its id is complete and the shorter.
FirstShorter  == status1 # "running" /\ Len(out1) < Len(out2)
SecondShorter == status2 # "running" /\ Len(out2) < Len(out1)

\* A call failed an assert.
Failed == status1 = "aborted" \/ status2 = "aborted"

PrefixFree ==
  Same \/ Differ(out1, out2) \/ FirstShorter \/ SecondShorter \/ Failed

=============================================================================
