-------------------------- MODULE EscapePairProofs --------------------------
(***************************************************************************)
(* Proofs about getId's escape for names of any length over any alphabet:  *)
(* ids have CSS characters only, and different names get different ids.    *)
(***************************************************************************)
EXTENDS EscapePair, IdAlphabetLemmas

-----------------------------------------------------------------------------
(* The steps of the two copies.                                            *)

\* Both copies use the alphabet and the code of this module.
LEMMA SameAlphabet ==
  /\ A!Special = Special /\ A!Backslash = Backslash /\ A!CssChar = CssChar
  /\ A!RawChar = RawChar
  /\ B!Special = Special /\ B!Backslash = Backslash /\ B!CssChar = CssChar
  /\ B!RawChar = RawChar
BY Zenon DEF Special, A!Special, B!Special, Backslash, A!Backslash, B!Backslash,
   CssChar, A!CssChar, B!CssChar, RawChar, A!RawChar, B!RawChar,
   Char, A!Char, B!Char, Underscore, A!Underscore, B!Underscore, At, A!At, B!At,
   Percent, A!Percent, B!Percent, Dot, A!Dot, B!Dot, Dash, A!Dash, B!Dash,
   Dollar, A!Dollar, B!Dollar, Quote, A!Quote, B!Quote

\* Both loops write the words of IdAlphabet.
LEMMA SameCode ==
  /\ \A c : A!CodeWord(c) = CodeWord(c) /\ B!CodeWord(c) = CodeWord(c)
  /\ \A a, b : A!HexWord(a, b) = HexWord(a, b) /\ B!HexWord(a, b) = HexWord(a, b)
BY Zenon DEF CodeWord, A!CodeWord, B!CodeWord, HexWord, A!HexWord, B!HexWord,
   Underscore, A!Underscore, B!Underscore, At, A!At, B!At,
   Percent, A!Percent, B!Percent, Dot, A!Dot, B!Dot, Dash, A!Dash, B!Dash,
   Dollar, A!Dollar, B!Dollar, Quote, A!Quote, B!Quote

\* A step of the first call is a turn of the loop or its end.
LEMMA FirstStep ==
  ASSUME A!TypeOK, A!Next
  PROVE  /\ status1 = "running"
         /\ buf1' = buf1
         /\ \/ /\ status1' = "running"
               /\ \E w \in Seq(CssChar) : /\ out1' = out1 \o w
                                         /\ Turn(buf1, i1, w, i1')
            \/ /\ out1' = out1
               /\ i1' = i1
               /\ \/ status1' = "aborted"
                  \/ status1' = "done" /\ i1 > Len(buf1)
<1> USE DEF A!TypeOK, A!InLoop, A!Emit
<1>1. buf1 \in Seq(RawChar) /\ i1 \in 1 .. Len(buf1) + 1 /\ Len(buf1) \in Nat
  BY SameAlphabet
<1>2. CASE A!EscapeSpecial
  <2>1. buf1[i1] \in Special /\ i1 \in 1 .. Len(buf1)
    BY <1>1, <1>2, SameAlphabet DEF A!EscapeSpecial
  <2>2. Turn(buf1, i1, CodeWord(buf1[i1]), i1 + 1)
    BY <1>1, <2>1, CodeWordType DEF Turn
  <2> QED BY <1>2, <2>1, <2>2, SameCode, CodeWordType DEF A!EscapeSpecial
<1>3. CASE A!EscapeBackslash
  <2>1. /\ buf1[i1] = Backslash /\ i1 \in 1 .. Len(buf1)
        /\ i1 + 2 <= Len(buf1)
        /\ buf1[i1 + 1] \in Hex /\ buf1[i1 + 2] \in Hex
    BY <1>1, <1>3, SameAlphabet DEF A!EscapeBackslash, A!EscapeAt
  <2> DEFINE w == HexWord(buf1[i1 + 1], buf1[i1 + 2])
  <2>2. w \in Seq(CssChar) /\ Len(w) = 5
    BY <2>1, HexWordType
  <2>3. out1' = out1 \o w /\ i1' = i1 + 3 /\ buf1' = buf1 /\ status1' = status1
    BY <1>3, SameCode DEF A!EscapeBackslash
  <2>4. Turn(buf1, i1, w, i1 + 3)
    <3> HIDE DEF w
    <3>1. w = HexWord(buf1[i1 + 1], buf1[i1 + 2])
      BY DEF w
    <3> QED BY <1>1, <2>1, <2>2, <3>1 DEF Turn
  <2> HIDE DEF w
  <2> QED BY <1>3, <2>2, <2>3, <2>4 DEF A!EscapeBackslash
<1>4. CASE A!CopyPlain
  <2>1. buf1[i1] \in Alnum /\ i1 \in 1 .. Len(buf1)
    BY <1>1, <1>4 DEF A!CopyPlain
  <2>2. Turn(buf1, i1, <<buf1[i1]>>, i1 + 1)
    BY <1>1, <2>1, PlainWordType DEF Turn
  <2> QED BY <1>4, <2>1, <2>2, PlainWordType DEF A!CopyPlain
<1>5. CASE A!AssertFails
  BY <1>5 DEF A!AssertFails
<1>6. CASE A!Return
  BY <1>6 DEF A!Return
<1> QED BY <1>2, <1>3, <1>4, <1>5, <1>6 DEF A!Next

\* A step of the second call is a turn of the loop or its end.
LEMMA SecondStep ==
  ASSUME B!TypeOK, B!Next
  PROVE  /\ status2 = "running"
         /\ buf2' = buf2
         /\ \/ /\ status2' = "running"
               /\ \E w \in Seq(CssChar) : /\ out2' = out2 \o w
                                         /\ Turn(buf2, i2, w, i2')
            \/ /\ out2' = out2
               /\ i2' = i2
               /\ \/ status2' = "aborted"
                  \/ status2' = "done" /\ i2 > Len(buf2)
<1> USE DEF B!TypeOK, B!InLoop, B!Emit
<1>1. buf2 \in Seq(RawChar) /\ i2 \in 1 .. Len(buf2) + 1 /\ Len(buf2) \in Nat
  BY SameAlphabet
<1>2. CASE B!EscapeSpecial
  <2>1. buf2[i2] \in Special /\ i2 \in 1 .. Len(buf2)
    BY <1>1, <1>2, SameAlphabet DEF B!EscapeSpecial
  <2>2. Turn(buf2, i2, CodeWord(buf2[i2]), i2 + 1)
    BY <1>1, <2>1, CodeWordType DEF Turn
  <2> QED BY <1>2, <2>1, <2>2, SameCode, CodeWordType DEF B!EscapeSpecial
<1>3. CASE B!EscapeBackslash
  <2>1. /\ buf2[i2] = Backslash /\ i2 \in 1 .. Len(buf2)
        /\ i2 + 2 <= Len(buf2)
        /\ buf2[i2 + 1] \in Hex /\ buf2[i2 + 2] \in Hex
    BY <1>1, <1>3, SameAlphabet DEF B!EscapeBackslash, B!EscapeAt
  <2> DEFINE w == HexWord(buf2[i2 + 1], buf2[i2 + 2])
  <2>2. w \in Seq(CssChar) /\ Len(w) = 5
    BY <2>1, HexWordType
  <2>3. out2' = out2 \o w /\ i2' = i2 + 3 /\ buf2' = buf2 /\ status2' = status2
    BY <1>3, SameCode DEF B!EscapeBackslash
  <2>4. Turn(buf2, i2, w, i2 + 3)
    <3> HIDE DEF w
    <3>1. w = HexWord(buf2[i2 + 1], buf2[i2 + 2])
      BY DEF w
    <3> QED BY <1>1, <2>1, <2>2, <3>1 DEF Turn
  <2> HIDE DEF w
  <2> QED BY <1>3, <2>2, <2>3, <2>4 DEF B!EscapeBackslash
<1>4. CASE B!CopyPlain
  <2>1. buf2[i2] \in Alnum /\ i2 \in 1 .. Len(buf2)
    BY <1>1, <1>4 DEF B!CopyPlain
  <2>2. Turn(buf2, i2, <<buf2[i2]>>, i2 + 1)
    BY <1>1, <2>1, PlainWordType DEF Turn
  <2> QED BY <1>4, <2>1, <2>2, PlainWordType DEF B!CopyPlain
<1>5. CASE B!AssertFails
  BY <1>5 DEF B!AssertFails
<1>6. CASE B!Return
  BY <1>6 DEF B!Return
<1> QED BY <1>2, <1>3, <1>4, <1>5, <1>6 DEF B!Next

-----------------------------------------------------------------------------
(* The invariant.                                                          *)

IInv == TypeOK /\ buf1 # buf2 /\ PrefixFree

\* The copies begin in the same place with nothing written.
LEMMA IInvInit == Init => IInv
<1> SUFFICES ASSUME Init PROVE IInv
  OBVIOUS
<1>1. buf1 \in Seq(RawChar) /\ buf2 \in Seq(RawChar)
  BY PairNamesAssumption DEF Init, A!Init, B!Init
<1>2. TypeOK
  BY <1>1, SameAlphabet DEF Init, A!Init, B!Init, TypeOK, A!TypeOK, B!TypeOK
<1>3. Same
  BY <1>1 DEF Init, A!Init, B!Init, Same
<1> QED BY <1>2, <1>3 DEF Init, IInv, PrefixFree

\* Whatever a call does, its types hold and its output only grows.
LEMMA FirstGrows ==
  ASSUME A!TypeOK, A!Next
  PROVE  /\ A!TypeOK'
         /\ status1 = "running"
         /\ buf1' = buf1
         /\ \E v \in Seq(CssChar) : out1' = out1 \o v
<1>1. out1 \in Seq(CssChar) /\ buf1 \in Seq(RawChar)
  BY SameAlphabet DEF A!TypeOK
<1>2. CASE status1' # "running"
  <2>1. out1' = out1 \o <<>>
    BY <1>1, <1>2, FirstStep
  <2>2. status1 = "running" /\ buf1' = buf1 /\ out1' = out1 /\ i1' = i1
    BY <1>2, FirstStep
  <2>3. status1' \in {"done", "aborted"}
    BY <1>2, FirstStep
  <2>4. A!TypeOK'
    BY <2>2, <2>3 DEF A!TypeOK
  <2>5. <<>> \in Seq(CssChar)
    OBVIOUS
  <2> QED BY <2>1, <2>2, <2>4, <2>5
<1>3. CASE status1' = "running"
  <2>1. PICK w \in Seq(CssChar) : out1' = out1 \o w /\ Turn(buf1, i1, w, i1')
    BY <1>3, FirstStep
  <2>2. i1' \in 1 .. Len(buf1) + 1
    BY <2>1, <1>1 DEF Turn
  <2>3. buf1' = buf1 /\ status1 = "running"
    BY FirstStep
  <2>4. out1' \in Seq(CssChar)
    BY <1>1, <2>1
  <2>5. A!TypeOK'
    BY <1>3, <2>2, <2>3, <2>4, SameAlphabet DEF A!TypeOK
  <2> QED BY <2>1, <2>3, <2>5, Zenon
<1> QED BY <1>2, <1>3

\* The same for the second call.
LEMMA SecondGrows ==
  ASSUME B!TypeOK, B!Next
  PROVE  /\ B!TypeOK'
         /\ status2 = "running"
         /\ buf2' = buf2
         /\ \E v \in Seq(CssChar) : out2' = out2 \o v
<1>1. out2 \in Seq(CssChar) /\ buf2 \in Seq(RawChar)
  BY SameAlphabet DEF B!TypeOK
<1>2. CASE status2' # "running"
  <2>1. out2' = out2 \o <<>>
    BY <1>1, <1>2, SecondStep
  <2>2. status2 = "running" /\ buf2' = buf2 /\ out2' = out2 /\ i2' = i2
    BY <1>2, SecondStep
  <2>3. status2' \in {"done", "aborted"}
    BY <1>2, SecondStep
  <2>4. B!TypeOK'
    BY <2>2, <2>3 DEF B!TypeOK
  <2>5. <<>> \in Seq(CssChar)
    OBVIOUS
  <2> QED BY <2>1, <2>2, <2>4, <2>5
<1>3. CASE status2' = "running"
  <2>1. PICK w \in Seq(CssChar) : out2' = out2 \o w /\ Turn(buf2, i2, w, i2')
    BY <1>3, SecondStep
  <2>2. i2' \in 1 .. Len(buf2) + 1
    BY <2>1, <1>1 DEF Turn
  <2>3. buf2' = buf2 /\ status2 = "running"
    BY SecondStep
  <2>4. out2' \in Seq(CssChar)
    BY <1>1, <2>1
  <2>5. B!TypeOK'
    BY <1>3, <2>2, <2>3, <2>4, SameAlphabet DEF B!TypeOK
  <2> QED BY <2>1, <2>3, <2>5, Zenon
<1> QED BY <1>2, <1>3

\* Names and ids are sequences of their characters.
LEMMA OutTypes ==
  ASSUME TypeOK
  PROVE  /\ buf1 \in Seq(RawChar) /\ buf2 \in Seq(RawChar)
         /\ out1 \in Seq(CssChar) /\ out2 \in Seq(CssChar)
         /\ <<>> \in Seq(CssChar)
BY SameAlphabet DEF TypeOK, A!TypeOK, B!TypeOK

\* What was read before a turn, and what the turn reads.
LEMMA SplitRange ==
  ASSUME NEW i \in Nat, NEW j \in Nat, NEW m \in 1 .. j - 1
  PROVE  m \in 1 .. i - 1 \/ m \in i .. j - 1
OBVIOUS

\* From a state where both have read and written the same: they still have, or
\* what they have written differs, or one name ended inside the other.
LEMMA SameStep ==
  ASSUME TypeOK, buf1 # buf2, Same, A!Next, B!Next
  PROVE  PrefixFree'
<1> USE DEF TypeOK
<1>1. i1 = i2 /\ out1 = out2 /\ buf1' = buf1 /\ buf2' = buf2
  BY FirstStep, SecondStep DEF Same
<1>2. CASE status1' = "running" /\ status2' = "running"
  <2>1. PICK v \in Seq(CssChar) : out1' = out1 \o v /\ Turn(buf1, i1, v, i1')
    BY <1>2, FirstStep
  <2>2. PICK w \in Seq(CssChar) : out2' = out2 \o w /\ Turn(buf2, i2, w, i2')
    BY <1>2, SecondStep
  <2>3. CASE Differ(v, w)
    <3>1. Differ(out1 \o v, out1 \o w)
      BY <2>3, DifferAfter, OutTypes
    <3> QED BY <1>1, <2>1, <2>2, <3>1 DEF PrefixFree
  <2>4. CASE v = w /\ i1' = i2' /\ \A m \in i1 .. i1' - 1 : buf1[m] = buf2[m]
    <3>1. i1 \in Nat /\ i1' \in Nat
      <4>1. Len(buf1) \in Nat
        BY OutTypes
      <4>2. i1 \in 1 .. Len(buf1) /\ i1' \in i1 + 1 .. Len(buf1) + 1
        BY <2>1 DEF Turn
      <4> QED BY <4>1, <4>2
    <3>2. \A m \in 1 .. i1' - 1 : buf1[m] = buf2[m]
      <4> SUFFICES ASSUME NEW m \in 1 .. i1' - 1 PROVE buf1[m] = buf2[m]
        OBVIOUS
      <4>1. CASE m \in 1 .. i1 - 1
        BY <4>1 DEF Same
      <4>2. CASE m \in i1 .. i1' - 1
        BY <2>4, <4>2
      <4>3. m \in 1 .. i1 - 1 \/ m \in i1 .. i1' - 1
        BY <3>1, SplitRange
      <4> QED BY <4>1, <4>2, <4>3
    <3>3. i1' <= Len(buf1) + 1 /\ i2' <= Len(buf2) + 1
      BY <2>1, <2>2, OutTypes DEF Turn
    <3> QED BY <1>1, <1>2, <2>1, <2>2, <2>4, <3>2, <3>3 DEF PrefixFree, Same
  <2> QED BY <1>1, <2>1, <2>2, <2>3, <2>4, TurnsDiffer
<1>3. CASE status1' = "running" /\ status2' = "done"
  <2>1. PICK v \in Seq(CssChar) : out1' = out1 \o v /\ Turn(buf1, i1, v, i1')
    BY <1>3, FirstStep
  <2>2. out2' = out1
    BY <1>1, <1>3, SecondStep
  <2>3. Len(out2') < Len(out1')
    BY <2>1, <2>2, OutTypes DEF Turn
  <2> QED BY <1>3, <2>3 DEF SecondShorter, PrefixFree
<1>4. CASE status1' = "done" /\ status2' = "running"
  <2>1. PICK w \in Seq(CssChar) : out2' = out2 \o w /\ Turn(buf2, i2, w, i2')
    BY <1>4, SecondStep
  <2>2. out1' = out2
    BY <1>1, <1>4, FirstStep
  <2>3. Len(out1') < Len(out2')
    BY <2>1, <2>2, OutTypes DEF Turn
  <2> QED BY <1>4, <2>3 DEF FirstShorter, PrefixFree
<1>5. CASE status1' = "done" /\ status2' = "done"
  <2>1. i1 > Len(buf1) /\ i2 > Len(buf2)
    BY <1>5, FirstStep, SecondStep
  <2>2. i1 \in Nat /\ Len(buf1) \in Nat /\ Len(buf2) \in Nat
    BY OutTypes DEF A!TypeOK
  <2>3. Len(buf1) = Len(buf2) /\ \A k \in 1 .. Len(buf1) : buf1[k] = buf2[k]
    BY <1>1, <2>1, <2>2 DEF Same
  <2>4. buf1 = buf2
    BY <2>3, OutTypes, SeqEqual
  <2> QED BY <2>4
<1>6. CASE status1' = "aborted" \/ status2' = "aborted"
  BY <1>6 DEF Failed, PrefixFree
<1> QED BY <1>2, <1>3, <1>4, <1>5, <1>6, FirstStep, SecondStep

\* Every step keeps the invariant.
LEMMA IInvStep == IInv /\ [Next]_vars => IInv'
<1> SUFFICES ASSUME IInv, [Next]_vars PROVE IInv'
  OBVIOUS
<1> USE DEF IInv, TypeOK
<1>1. CASE Together
  <2>1. A!Next /\ B!Next
    BY <1>1 DEF Together
  <2>2. TypeOK' /\ buf1' = buf1 /\ buf2' = buf2
    BY <2>1, FirstGrows, SecondGrows
  <2>3. status1 = "running" /\ status2 = "running"
    BY <2>1, FirstGrows, SecondGrows
  <2>4. CASE Same
    BY <2>1, <2>2, <2>4, SameStep
  <2>5. CASE Differ(out1, out2)
    <3>1. PICK v \in Seq(CssChar) : out1' = out1 \o v
      BY <2>1, FirstGrows
    <3>2. PICK w \in Seq(CssChar) : out2' = out2 \o w
      BY <2>1, SecondGrows
    <3>3. Differ(out1', out2')
      BY <2>5, <3>1, <3>2, DifferStays, OutTypes
    <3> QED BY <2>2, <3>3 DEF PrefixFree
  <2> QED BY <2>3, <2>4, <2>5 DEF PrefixFree, FirstShorter, SecondShorter, Failed
<1>2. CASE FirstOnly
  <2>1. A!Next /\ status2 # "running" /\ UNCHANGED second
    BY <1>2 DEF FirstOnly
  <2>2. TypeOK' /\ buf1' = buf1 /\ buf2' = buf2 /\ status1 = "running"
    BY <2>1, FirstGrows DEF second, B!TypeOK
  <2>3. PICK v \in Seq(CssChar) : out1' = out1 \o v
    BY <2>1, FirstGrows
  <2>4. out2' = out2 /\ status2' = status2
    BY <2>1 DEF second
  <2>5. CASE Differ(out1, out2)
    <3>1. out2' = out2 \o <<>>
      BY <2>4, OutTypes
    <3> QED BY <2>2, <2>3, <2>5, <3>1, DifferStays, OutTypes DEF PrefixFree
  <2>6. CASE SecondShorter
    BY <2>1, <2>2, <2>3, <2>4, <2>6, OutTypes DEF SecondShorter, PrefixFree
  <2>7. CASE Failed
    BY <2>2, <2>4, <2>7 DEF Failed, PrefixFree
  <2> QED BY <2>1, <2>2, <2>5, <2>6, <2>7 DEF PrefixFree, Same, FirstShorter
<1>3. CASE SecondOnly
  <2>1. B!Next /\ status1 # "running" /\ UNCHANGED first
    BY <1>3 DEF SecondOnly
  <2>2. TypeOK' /\ buf1' = buf1 /\ buf2' = buf2 /\ status2 = "running"
    BY <2>1, SecondGrows DEF first, A!TypeOK
  <2>3. PICK w \in Seq(CssChar) : out2' = out2 \o w
    BY <2>1, SecondGrows
  <2>4. out1' = out1 /\ status1' = status1
    BY <2>1 DEF first
  <2>5. CASE Differ(out1, out2)
    <3>1. out1' = out1 \o <<>>
      BY <2>4, OutTypes
    <3> QED BY <2>2, <2>3, <2>5, <3>1, DifferStays, OutTypes DEF PrefixFree
  <2>6. CASE FirstShorter
    BY <2>1, <2>2, <2>3, <2>4, <2>6, OutTypes DEF FirstShorter, PrefixFree
  <2>7. CASE Failed
    BY <2>2, <2>4, <2>7 DEF Failed, PrefixFree
  <2> QED BY <2>1, <2>2, <2>5, <2>6, <2>7 DEF PrefixFree, Same, SecondShorter
<1>4. CASE UNCHANGED vars
  BY <1>4 DEF vars, first, second, A!TypeOK, B!TypeOK, PrefixFree, Same, Differ,
     FirstShorter, SecondShorter, Failed
<1> QED BY <1>1, <1>2, <1>3, <1>4 DEF Next

\* The strengthened invariant holds in every behaviour.
THEOREM Invariance == Spec => []IInv
BY IInvInit, IInvStep, PTL DEF Spec

\* Types: what is written has only the characters [a-zA-Z0-9_], as the doc of
\* getId promises for its result.
THEOREM TypeCorrect == Spec => []TypeOK
<1>1. IInv => TypeOK
  BY DEF IInv
<1> QED BY <1>1, Invariance, PTL

\* What getId writes for one character is never the start of what it writes for
\* another: two calls agree, differ for good, or one has ended with less.
THEOREM WordsArePrefixCode == Spec => []PrefixFree
<1>1. IInv => PrefixFree
  BY DEF IInv
<1> QED BY <1>1, Invariance, PTL

\* The doc's "unique ID": no two printed names get the same id.
THEOREM UniqueForEveryName == Spec => []DistinctIds
<1>1. IInv => DistinctIds
  <2> SUFFICES ASSUME IInv, status1 = "done", status2 = "done"
               PROVE  out1 # out2
    BY DEF DistinctIds
  <2> QED BY DifferMeansNotEqual
          DEF IInv, PrefixFree, Same, FirstShorter, SecondShorter, Failed
<1> QED BY <1>1, Invariance, PTL

-----------------------------------------------------------------------------
(* What the loop has written and read whenever it stands somewhere.        *)

\* The first n characters are ones the switch knows.
KnownUpTo(b, n) ==
  \A k \in 1 .. n : /\ b[k] \notin Other \cup Unprintable
                    /\ b[k] = Backslash => EscapeAt(b, k)

InOrder(b, i, out, status) ==
  /\ status # "aborted" => /\ Proper(b, i - 1)
                           /\ Start(b, i)
                           /\ KnownUpTo(b, i - 1)
                           /\ out = UpTo(b, i - 1)
  /\ status = "done" => i = Len(b) + 1
  /\ status = "aborted" => ~WellFormed(b)

\* A turn reads characters the switch knows.
LEMMA TurnKnows ==
  ASSUME NEW b \in Seq(RawChar), NEW i, NEW w, NEW j, Turn(b, i, w, j),
         KnownUpTo(b, i - 1)
  PROVE  KnownUpTo(b, j - 1)
<1>1. Len(b) \in Nat /\ i \in 1 .. Len(b) /\ j \in i + 1 .. Len(b) + 1
  BY DEF Turn
<1>2. \A c \in Alnum \cup Special : c \notin Other \cup Unprintable /\ c # Backslash
  BY CharAssumption, BackslashIs DEF CharAssumption, Char
<1>3. Backslash \notin Other \cup Unprintable
  BY CharAssumption DEF CharAssumption, Char
<1>4. SUFFICES ASSUME NEW k \in 1 .. j - 1
               PROVE  /\ b[k] \notin Other \cup Unprintable
                      /\ b[k] = Backslash => EscapeAt(b, k)
  BY DEF KnownUpTo
<1>5. CASE k \in 1 .. i - 1
  BY <1>5 DEF KnownUpTo
<1>6. CASE k = i /\ b[i] \in Alnum \cup Special
  BY <1>2, <1>6
<1>7. CASE k = i /\ b[i] = Backslash
  <2>1. j = i + 3 /\ b[i + 1] \in Hex /\ b[i + 2] \in Hex
    BY <1>7, BackslashIs DEF Turn
  <2>2. i + 2 <= Len(b)
    BY <1>1, <2>1
  <2> QED BY <1>3, <1>7, <2>1, <2>2 DEF EscapeAt
<1>8. CASE k \in i + 1 .. j - 1
  <2>1. b[i] = Backslash /\ j = i + 3 /\ b[i + 1] \in Hex /\ b[i + 2] \in Hex
    BY <1>1, <1>8 DEF Turn
  <2>2. k = i + 1 \/ k = i + 2
    BY <1>1, <1>8, <2>1
  <2>3. b[k] \in Alnum
    BY <2>1, <2>2, CharAssumption DEF CharAssumption
  <2> QED BY <1>2, <2>3
<1>9. k \in 1 .. i - 1 \/ k = i \/ k \in i + 1 .. j - 1
  BY <1>1
<1>10. b[i] \in Alnum \cup Special \/ b[i] = Backslash
  BY DEF Turn
<1> QED BY <1>5, <1>6, <1>7, <1>8, <1>9, <1>10

\* A turn keeps what is written in order.
LEMMA InOrderTurn ==
  ASSUME NEW b \in Seq(RawChar), NEW i, NEW out, NEW w, NEW j,
         InOrder(b, i, out, "running"), Turn(b, i, w, j)
  PROVE  InOrder(b, j, out \o w, "running")
<1>1. Proper(b, i - 1) /\ Start(b, i) /\ KnownUpTo(b, i - 1) /\ out = UpTo(b, i - 1)
  BY DEF InOrder
<1>2. Proper(b, j - 1) /\ Start(b, j) /\ UpTo(b, j - 1) = out \o w
  BY <1>1, TurnWrites
<1>3. KnownUpTo(b, j - 1)
  BY <1>1, TurnKnows
<1> QED BY <1>2, <1>3 DEF InOrder

\* A loop that has come to the end has written the id of a name it knows.
LEMMA InOrderAtEnd ==
  ASSUME NEW b \in Seq(RawChar), NEW i, NEW out, InOrder(b, i, out, "done")
  PROVE  WellFormed(b) /\ out = Escaped(b)
<1>1. /\ i = Len(b) + 1 /\ KnownUpTo(b, i - 1) /\ out = UpTo(b, i - 1)
      /\ Len(b) \in Nat /\ DOMAIN b = 1 .. Len(b)
  BY DEF InOrder
<1>2. i - 1 = Len(b)
  BY <1>1
<1> QED BY <1>1, <1>2, EscapedIs DEF KnownUpTo, WellFormed

\* Both copies have this module's idea of a name and of its id.
LEMMA SameIds ==
  /\ \A b : A!Escaped(b) = Escaped(b) /\ B!Escaped(b) = Escaped(b)
  /\ \A b : A!WellFormed(b) = WellFormed(b) /\ B!WellFormed(b) = WellFormed(b)
<1>1. \A b, k : A!Word(b, k) = Word(b, k) /\ B!Word(b, k) = Word(b, k)
  BY SameAlphabet, SameCode, Zenon DEF Word, A!Word, B!Word
<1>2. \A s : A!FlattenSeq(s) = FlattenSeq(s) /\ B!FlattenSeq(s) = FlattenSeq(s)
  BY Zenon DEF FlattenSeq, A!FlattenSeq, B!FlattenSeq
<1>3. \A b : A!Escaped(b) = Escaped(b) /\ B!Escaped(b) = Escaped(b)
  <2> SUFFICES ASSUME NEW b PROVE A!Escaped(b) = Escaped(b) /\ B!Escaped(b) = Escaped(b)
    OBVIOUS
  <2>1. /\ [k \in DOMAIN b |-> A!Word(b, k)] = [k \in DOMAIN b |-> Word(b, k)]
        /\ [k \in DOMAIN b |-> B!Word(b, k)] = [k \in DOMAIN b |-> Word(b, k)]
    BY <1>1
  <2> QED BY <1>2, <2>1 DEF Escaped, A!Escaped, B!Escaped
<1>4. \A b : A!WellFormed(b) = WellFormed(b) /\ B!WellFormed(b) = WellFormed(b)
  BY SameAlphabet, Zenon DEF WellFormed, A!WellFormed, B!WellFormed,
     EscapeAt, A!EscapeAt, B!EscapeAt
<1> QED BY <1>3, <1>4

\* A copy's own invariant, through any of its steps.
LEMMA FirstInOrder ==
  ASSUME A!TypeOK, A!Next, InOrder(buf1, i1, out1, status1)
  PROVE  InOrder(buf1, i1, out1, status1)'
<1>1. buf1 \in Seq(RawChar) /\ i1 \in 1 .. Len(buf1) + 1 /\ Len(buf1) \in Nat
  BY SameAlphabet DEF A!TypeOK
<1>2. buf1' = buf1 /\ status1 = "running"
  BY FirstStep
<1>3. CASE status1' = "running"
  <2>1. PICK w \in Seq(CssChar) : out1' = out1 \o w /\ Turn(buf1, i1, w, i1')
    BY <1>3, FirstStep
  <2>2. InOrder(buf1, i1', out1 \o w, "running")
    BY <1>1, <1>2, <2>1, InOrderTurn
  <2> QED BY <1>2, <1>3, <2>1, <2>2 DEF InOrder
<1>4. CASE status1' = "done"
  <2>1. out1' = out1 /\ i1' = i1 /\ i1 > Len(buf1)
    BY <1>4, FirstStep
  <2>2. i1 = Len(buf1) + 1
    BY <1>1, <2>1
  <2> QED BY <1>2, <1>4, <2>1, <2>2 DEF InOrder
<1>5. CASE status1' = "aborted"
  <2>1. A!AssertFails
    BY <1>2, <1>5 DEF A!Next, A!EscapeSpecial, A!EscapeBackslash, A!CopyPlain, A!Return, A!Emit
  <2>2. i1 \in DOMAIN buf1
    BY <1>1, <2>1 DEF A!AssertFails, A!InLoop
  <2>3. ~WellFormed(buf1)
    BY <2>1, <2>2, SameAlphabet DEF A!AssertFails, WellFormed, A!EscapeAt, EscapeAt
  <2> QED BY <1>2, <1>5, <2>3 DEF InOrder
<1> QED BY <1>3, <1>4, <1>5, FirstStep

\* The same of the second loop.
LEMMA SecondInOrder ==
  ASSUME B!TypeOK, B!Next, InOrder(buf2, i2, out2, status2)
  PROVE  InOrder(buf2, i2, out2, status2)'
<1>1. buf2 \in Seq(RawChar) /\ i2 \in 1 .. Len(buf2) + 1 /\ Len(buf2) \in Nat
  BY SameAlphabet DEF B!TypeOK
<1>2. buf2' = buf2 /\ status2 = "running"
  BY SecondStep
<1>3. CASE status2' = "running"
  <2>1. PICK w \in Seq(CssChar) : out2' = out2 \o w /\ Turn(buf2, i2, w, i2')
    BY <1>3, SecondStep
  <2>2. InOrder(buf2, i2', out2 \o w, "running")
    BY <1>1, <1>2, <2>1, InOrderTurn
  <2> QED BY <1>2, <1>3, <2>1, <2>2 DEF InOrder
<1>4. CASE status2' = "done"
  <2>1. out2' = out2 /\ i2' = i2 /\ i2 > Len(buf2)
    BY <1>4, SecondStep
  <2>2. i2 = Len(buf2) + 1
    BY <1>1, <2>1
  <2> QED BY <1>2, <1>4, <2>1, <2>2 DEF InOrder
<1>5. CASE status2' = "aborted"
  <2>1. B!AssertFails
    BY <1>2, <1>5 DEF B!Next, B!EscapeSpecial, B!EscapeBackslash, B!CopyPlain, B!Return, B!Emit
  <2>2. i2 \in DOMAIN buf2
    BY <1>1, <2>1 DEF B!AssertFails, B!InLoop
  <2>3. ~WellFormed(buf2)
    BY <2>1, <2>2, SameAlphabet DEF B!AssertFails, WellFormed, B!EscapeAt, EscapeAt
  <2> QED BY <1>2, <1>5, <2>3 DEF InOrder
<1> QED BY <1>3, <1>4, <1>5, SecondStep

BothInOrder ==
  /\ TypeOK
  /\ InOrder(buf1, i1, out1, status1)
  /\ InOrder(buf2, i2, out2, status2)

\* Both loops have read and written nothing.
LEMMA BothInOrderInit == Init => BothInOrder
<1> SUFFICES ASSUME Init PROVE BothInOrder
  OBVIOUS
<1>1. TypeOK
  BY IInvInit DEF IInv
<1>2. /\ i1 = 1 /\ out1 = <<>> /\ status1 = "running"
      /\ i2 = 1 /\ out2 = <<>> /\ status2 = "running"
  BY DEF Init, A!Init, B!Init
<1>3. \A b : InOrder(b, 1, <<>>, "running")
  <2>1. \A b : KnownUpTo(b, 0)
    BY DEF KnownUpTo
  <2>2. 1 - 1 = 0
    OBVIOUS
  <2> QED BY <2>1, <2>2, UpToNothing DEF InOrder
<1> QED BY <1>1, <1>2, <1>3 DEF BothInOrder

\* Whichever loop goes on, both stay in order.
LEMMA BothInOrderStep == BothInOrder /\ [Next]_vars => BothInOrder'
<1> SUFFICES ASSUME BothInOrder, [Next]_vars PROVE BothInOrder'
  OBVIOUS
<1> USE DEF BothInOrder, TypeOK
<1>1. CASE Together
  <2>1. A!Next /\ B!Next
    BY <1>1 DEF Together
  <2> QED BY <2>1, FirstGrows, SecondGrows, FirstInOrder, SecondInOrder
<1>2. CASE FirstOnly
  <2>1. A!Next /\ UNCHANGED second
    BY <1>2 DEF FirstOnly
  <2>2. InOrder(buf2, i2, out2, status2)' /\ B!TypeOK'
    BY <2>1 DEF second, InOrder, B!TypeOK
  <2> QED BY <2>1, <2>2, FirstGrows, FirstInOrder
<1>3. CASE SecondOnly
  <2>1. B!Next /\ UNCHANGED first
    BY <1>3 DEF SecondOnly
  <2>2. InOrder(buf1, i1, out1, status1)' /\ A!TypeOK'
    BY <2>1 DEF first, InOrder, A!TypeOK
  <2> QED BY <2>1, <2>2, SecondGrows, SecondInOrder
<1>4. CASE UNCHANGED vars
  BY <1>4 DEF vars, first, second, InOrder, A!TypeOK, B!TypeOK
<1> QED BY <1>1, <1>2, <1>3, <1>4 DEF Next

\* Each loop has written the escape of what it has read, whatever the other does.
THEOREM StaysInOrder == Spec => []BothInOrder
BY BothInOrderInit, BothInOrderStep, PTL DEF Spec

\* A finished loop has written the escape of every part of the name, once and
\* in order.
THEOREM EscapeIsComplete == Spec => []WritesEscapedName
<1>1. BothInOrder => WritesEscapedName
  <2> SUFFICES ASSUME BothInOrder PROVE WritesEscapedName
    OBVIOUS
  <2>1. status1 = "done" => out1 = A!Escaped(buf1)
    BY OutTypes, InOrderAtEnd, SameIds DEF BothInOrder
  <2>2. status2 = "done" => out2 = B!Escaped(buf2)
    BY OutTypes, InOrderAtEnd, SameIds DEF BothInOrder
  <2> QED BY <2>1, <2>2 DEF WritesEscapedName, A!WritesEscapedName, B!WritesEscapedName
<1> QED BY <1>1, StaysInOrder, PTL

\* The switch decides as the name demands: only a name whose characters it
\* knows gets an id, and only another one fails an assert.
VerdictFits ==
  /\ status1 = "done" => WellFormed(buf1)
  /\ status1 = "aborted" => ~WellFormed(buf1)
  /\ status2 = "done" => WellFormed(buf2)
  /\ status2 = "aborted" => ~WellFormed(buf2)

\* The safety half of EndsAsTheNameDemands, for every name.
THEOREM OnlyKnownNamesGetIds == Spec => []VerdictFits
<1>1. BothInOrder => VerdictFits
  <2> SUFFICES ASSUME BothInOrder PROVE VerdictFits
    OBVIOUS
  <2>1. status1 = "done" => WellFormed(buf1)
    BY OutTypes, InOrderAtEnd DEF BothInOrder
  <2>2. status2 = "done" => WellFormed(buf2)
    BY OutTypes, InOrderAtEnd DEF BothInOrder
  <2>3. /\ status1 = "aborted" => ~WellFormed(buf1)
        /\ status2 = "aborted" => ~WellFormed(buf2)
    BY DEF BothInOrder, InOrder
  <2> QED BY <2>1, <2>2, <2>3 DEF VerdictFits
<1> QED BY <1>1, StaysInOrder, PTL

=============================================================================
