-------------------------- MODULE IdAlphabetLemmas --------------------------
(***************************************************************************)
(* What getId's escape does to printed names of any length over any        *)
(* alphabet: its words are a prefix code, so it can be undone.             *)
(***************************************************************************)
EXTENDS IdAlphabet, SequenceLemmas, TLAPS

-----------------------------------------------------------------------------
(* The words of the code.                                                  *)

\* The underscore is not one of the letters of the codes.
LEMMA UnderscoreDiffers ==
  \A c \in CodeLetters : Underscore # c
BY Zenon DEF Underscore, CodeLetters

\* The underscore that starts a word is not in it.
LEMMA UnderscoreIsNoCodeLetter ==
  /\ Underscore # "a" /\ Underscore # "p" /\ Underscore # "q"
  /\ Underscore # "d" /\ Underscore # "x"
BY UnderscoreDiffers DEF CodeLetters

\* What the switch prints for each special character.
LEMMA CodeWordValue ==
  /\ CodeWord(Underscore)  = <<Underscore, Underscore, Underscore>>
  /\ CodeWord(At)  = <<Underscore, "a", "t", Underscore>>
  /\ CodeWord(Percent)  = <<Underscore, "p", "e", "r", "c", "e", "n", "t", Underscore>>
  /\ CodeWord(Dot)  = <<Underscore, "d", "o", "t", Underscore>>
  /\ CodeWord(Dash)  = <<Underscore, "d", "a", "s", "h", Underscore>>
  /\ CodeWord(Dollar)  = <<Underscore, "d", "o", "l", "l", "a", "r", Underscore>>
  /\ CodeWord(Quote) = <<Underscore, "q", "u", "o", "t", "e", Underscore>>
BY Zenon DEF CodeWord, Underscore, At, Percent, Dot, Dash, Dollar, Quote

\* The letters of the codes are characters of ids.
LEMMA CodeLettersAreCss ==
  /\ Underscore \in CssChar
  /\ \A c \in CodeLetters : c \in CssChar
  /\ \A c \in Hex : c \in CssChar
  /\ \A c \in Alnum : c \in CssChar
BY CharAssumption DEF CssChar, CharAssumption

\* Tuples of elements of S are sequences over S, for the lengths that occur.
LEMMA TuplesAreSequences ==
  ASSUME NEW S
  PROVE  /\ \A a \in S : <<a>> \in Seq(S)
         /\ \A a, b, c \in S : <<a, b, c>> \in Seq(S)
         /\ \A a, b, c, d \in S : <<a, b, c, d>> \in Seq(S)
         /\ \A a, b, c, d, e \in S : <<a, b, c, d, e>> \in Seq(S)
         /\ \A a, b, c, d, e, f \in S : <<a, b, c, d, e, f>> \in Seq(S)
         /\ \A a, b, c, d, e, f, g \in S : <<a, b, c, d, e, f, g>> \in Seq(S)
         /\ \A a, b, c, d, e, f, g, h \in S :
               <<a, b, c, d, e, f, g, h>> \in Seq(S)
         /\ \A a, b, c, d, e, f, g, h, k \in S :
               <<a, b, c, d, e, f, g, h, k>> \in Seq(S)
OBVIOUS

\* The word of a special character is a nonempty sequence of id characters.
LEMMA CodeWordType ==
  ASSUME NEW c \in Special
  PROVE  CodeWord(c) \in Seq(CssChar) /\ Len(CodeWord(c)) >= 3
<1>1. /\ Underscore \in CssChar /\ "a" \in CssChar /\ "t" \in CssChar
      /\ "p" \in CssChar /\ "e" \in CssChar /\ "r" \in CssChar
      /\ "c" \in CssChar /\ "n" \in CssChar /\ "d" \in CssChar
      /\ "o" \in CssChar /\ "s" \in CssChar /\ "h" \in CssChar
      /\ "l" \in CssChar /\ "q" \in CssChar /\ "u" \in CssChar
  BY CodeLettersAreCss DEF CodeLetters
<1>2. /\ <<Underscore, Underscore, Underscore>> \in Seq(CssChar)
      /\ <<Underscore, "a", "t", Underscore>> \in Seq(CssChar)
      /\ <<Underscore, "p", "e", "r", "c", "e", "n", "t", Underscore>> \in Seq(CssChar)
      /\ <<Underscore, "d", "o", "t", Underscore>> \in Seq(CssChar)
      /\ <<Underscore, "d", "a", "s", "h", Underscore>> \in Seq(CssChar)
      /\ <<Underscore, "d", "o", "l", "l", "a", "r", Underscore>> \in Seq(CssChar)
      /\ <<Underscore, "q", "u", "o", "t", "e", Underscore>> \in Seq(CssChar)
  BY <1>1, TuplesAreSequences, Zenon
<1>3. /\ Len(<<Underscore, Underscore, Underscore>>) >= 3
      /\ Len(<<Underscore, "a", "t", Underscore>>) >= 3
      /\ Len(<<Underscore, "p", "e", "r", "c", "e", "n", "t", Underscore>>) >= 3
      /\ Len(<<Underscore, "d", "o", "t", Underscore>>) >= 3
      /\ Len(<<Underscore, "d", "a", "s", "h", Underscore>>) >= 3
      /\ Len(<<Underscore, "d", "o", "l", "l", "a", "r", Underscore>>) >= 3
      /\ Len(<<Underscore, "q", "u", "o", "t", "e", Underscore>>) >= 3
  OBVIOUS
<1> QED BY <1>2, <1>3, CodeWordValue, Zenon DEF Special

\* The word for an escape of LLVM.
LEMMA HexWordType ==
  ASSUME NEW a \in Hex, NEW b \in Hex
  PROVE  HexWord(a, b) \in Seq(CssChar) /\ Len(HexWord(a, b)) = 5
<1>1. Underscore \in CssChar /\ a \in CssChar /\ b \in CssChar
  BY CodeLettersAreCss
<1>2. "x" \in CssChar
  BY CodeLettersAreCss DEF CodeLetters
<1>3. <<Underscore, "x", a, b, Underscore>> \in Seq(CssChar)
  BY <1>1, <1>2, TuplesAreSequences, Zenon
<1>4. Len(<<Underscore, "x", a, b, Underscore>>) = 5
  OBVIOUS
<1> QED BY <1>3, <1>4 DEF HexWord

\* The word for a letter is the letter.
LEMMA PlainWordType ==
  ASSUME NEW c \in Alnum
  PROVE  <<c>> \in Seq(CssChar) /\ Len(<<c>>) = 1
BY CodeLettersAreCss

\* Two sequences that differ at a place both have.
LEMMA DifferAt ==
  ASSUME NEW s, NEW t, NEW k, k \in 1 .. Len(s), k \in 1 .. Len(t), s[k] # t[k]
  PROVE  Differ(s, t) /\ Differ(t, s)
BY DEF Differ

\* The letters that tell the codes apart: the second, the third for '-', the
\* fourth for '.' and '$'.
LEMMA CodeWordLetters ==
  /\ \A c \in Special : CodeWord(c)[1] = Underscore
  /\ CodeWord(Underscore)[2]  = Underscore
  /\ CodeWord(At)[2]  = "a"
  /\ CodeWord(Percent)[2]  = "p"
  /\ CodeWord(Quote)[2] = "q"
  /\ CodeWord(Dot)[2]  = "d" /\ CodeWord(Dot)[3] = "o" /\ CodeWord(Dot)[4] = "t"
  /\ CodeWord(Dash)[2]  = "d" /\ CodeWord(Dash)[3] = "a"
  /\ CodeWord(Dollar)[2]  = "d" /\ CodeWord(Dollar)[3] = "o" /\ CodeWord(Dollar)[4] = "l"
  /\ Len(CodeWord(Dot)) = 5
  /\ Len(CodeWord(Dollar)) = 8
<1>1. /\ <<Underscore, Underscore, Underscore>>[1] = Underscore
      /\ <<Underscore, Underscore, Underscore>>[2] = Underscore
      /\ <<Underscore, "a", "t", Underscore>>[1] = Underscore
      /\ <<Underscore, "a", "t", Underscore>>[2] = "a"
      /\ <<Underscore, "p", "e", "r", "c", "e", "n", "t", Underscore>>[1] = Underscore
      /\ <<Underscore, "p", "e", "r", "c", "e", "n", "t", Underscore>>[2] = "p"
      /\ <<Underscore, "q", "u", "o", "t", "e", Underscore>>[1] = Underscore
      /\ <<Underscore, "q", "u", "o", "t", "e", Underscore>>[2] = "q"
  OBVIOUS
<1>2. /\ <<Underscore, "d", "o", "t", Underscore>>[1] = Underscore
      /\ <<Underscore, "d", "o", "t", Underscore>>[2] = "d"
      /\ <<Underscore, "d", "o", "t", Underscore>>[3] = "o"
      /\ <<Underscore, "d", "o", "t", Underscore>>[4] = "t"
      /\ <<Underscore, "d", "a", "s", "h", Underscore>>[1] = Underscore
      /\ <<Underscore, "d", "a", "s", "h", Underscore>>[2] = "d"
      /\ <<Underscore, "d", "a", "s", "h", Underscore>>[3] = "a"
      /\ <<Underscore, "d", "o", "l", "l", "a", "r", Underscore>>[1] = Underscore
      /\ <<Underscore, "d", "o", "l", "l", "a", "r", Underscore>>[2] = "d"
      /\ <<Underscore, "d", "o", "l", "l", "a", "r", Underscore>>[3] = "o"
      /\ <<Underscore, "d", "o", "l", "l", "a", "r", Underscore>>[4] = "l"
      /\ Len(<<Underscore, "d", "o", "t", Underscore>>) = 5
      /\ Len(<<Underscore, "d", "o", "l", "l", "a", "r", Underscore>>) = 8
  OBVIOUS
<1>3. \A c \in Special : CodeWord(c)[1] = Underscore
  BY <1>1, <1>2, CodeWordValue, Zenon DEF Special
<1>4. /\ CodeWord(Underscore)[2] = Underscore
      /\ CodeWord(At)[2] = "a" /\ CodeWord(Percent)[2] = "p" /\ CodeWord(Quote)[2] = "q"
  BY <1>1, CodeWordValue, Zenon
<1>5. /\ CodeWord(Dot)[2] = "d" /\ CodeWord(Dot)[3] = "o" /\ CodeWord(Dot)[4] = "t"
      /\ Len(CodeWord(Dot)) = 5
  BY <1>2, CodeWordValue, Zenon
<1>6. CodeWord(Dash)[2] = "d" /\ CodeWord(Dash)[3] = "a"
  BY <1>2, CodeWordValue, Zenon
<1>7. /\ CodeWord(Dollar)[2] = "d" /\ CodeWord(Dollar)[3] = "o" /\ CodeWord(Dollar)[4] = "l"
      /\ Len(CodeWord(Dollar)) = 8
  BY <1>2, CodeWordValue, Zenon
<1> QED BY <1>3, <1>4, <1>5, <1>6, <1>7, Zenon

\* Two different special characters have codes that differ at the second,
\* third or fourth letter.
LEMMA SpecialWordsDiffer ==
  ASSUME NEW c \in Special, NEW d \in Special, c # d
  PROVE  Differ(CodeWord(c), CodeWord(d))
<1>1. /\ 2 \in 1 .. Len(CodeWord(c)) /\ 2 \in 1 .. Len(CodeWord(d))
      /\ 3 \in 1 .. Len(CodeWord(c)) /\ 3 \in 1 .. Len(CodeWord(d))
  BY CodeWordType
<1>2. CASE CodeWord(c)[2] # CodeWord(d)[2]
  BY <1>1, <1>2, DifferAt, Zenon
<1>3. CASE CodeWord(c)[3] # CodeWord(d)[3]
  BY <1>1, <1>3, DifferAt, Zenon
<1>4. CASE \/ c = Dot /\ d = Dollar
           \/ c = Dollar /\ d = Dot
  <2>1. CodeWord(c)[4] # CodeWord(d)[4]
    BY <1>4, CodeWordLetters, "t" # "l", SMT
  <2>2. Len(CodeWord(c)) \in {5, 8} /\ Len(CodeWord(d)) \in {5, 8}
    BY <1>4, CodeWordLetters
  <2>3. \A n \in {5, 8} : 4 \in 1 .. n
    OBVIOUS
  <2>4. 4 \in 1 .. Len(CodeWord(c)) /\ 4 \in 1 .. Len(CodeWord(d))
    BY <2>2, <2>3, Zenon
  <2> QED BY <2>1, <2>4, DifferAt, Zenon
<1>5. \/ CodeWord(c)[2] # CodeWord(d)[2]
      \/ CodeWord(c)[3] # CodeWord(d)[3]
      \/ c = Dot /\ d = Dollar
      \/ c = Dollar /\ d = Dot
  BY CodeWordLetters, UnderscoreIsNoCodeLetter, SMT DEF Special
<1> QED BY <1>2, <1>3, <1>4, <1>5

\* No special character has the word of an escape: 'x' is not the second
\* letter of any code.
LEMMA SpecialIsNotHex ==
  ASSUME NEW c \in Special, NEW a \in Hex, NEW b \in Hex
  PROVE  Differ(CodeWord(c), HexWord(a, b)) /\ Differ(HexWord(a, b), CodeWord(c))
<1>1. HexWord(a, b)[2] = "x"
  BY DEF HexWord
<1>2. CodeWord(c)[2] # "x"
  BY CodeWordLetters, UnderscoreIsNoCodeLetter, SMT DEF Special
<1>3. 2 \in 1 .. Len(CodeWord(c)) /\ 2 \in 1 .. Len(HexWord(a, b))
  <2>1. Len(CodeWord(c)) \in Nat /\ Len(CodeWord(c)) >= 3 /\ Len(HexWord(a, b)) = 5
    BY CodeWordType, HexWordType
  <2> QED BY <2>1
<1>4. CodeWord(c)[2] # HexWord(a, b)[2]
  BY <1>1, <1>2
<1> QED BY <1>3, <1>4, DifferAt, Zenon

\* Every code begins with '_', no copied character is one.
LEMMA PlainIsNotCode ==
  ASSUME NEW p \in Alnum
  PROVE  /\ \A c \in Special : /\ Differ(CodeWord(c), <<p>>)
                               /\ Differ(<<p>>, CodeWord(c))
         /\ \A a, b \in Hex : /\ Differ(HexWord(a, b), <<p>>)
                             /\ Differ(<<p>>, HexWord(a, b))
<1>1. p # Underscore /\ <<p>>[1] = p /\ 1 \in 1 .. Len(<<p>>)
  BY CharAssumption DEF CharAssumption, Special
<1>2. ASSUME NEW c \in Special
      PROVE  Differ(CodeWord(c), <<p>>) /\ Differ(<<p>>, CodeWord(c))
  <2>1. CodeWord(c)[1] = Underscore /\ 1 \in 1 .. Len(CodeWord(c))
    BY CodeWordLetters, CodeWordType
  <2>2. CodeWord(c)[1] # <<p>>[1]
    BY <1>1, <2>1
  <2> QED BY <1>1, <2>1, <2>2, DifferAt, Zenon
<1>3. ASSUME NEW a \in Hex, NEW b \in Hex
      PROVE  Differ(HexWord(a, b), <<p>>) /\ Differ(<<p>>, HexWord(a, b))
  <2>1. HexWord(a, b)[1] = Underscore /\ 1 \in 1 .. Len(HexWord(a, b))
    BY HexWordType DEF HexWord
  <2>2. HexWord(a, b)[1] # <<p>>[1]
    BY <1>1, <2>1
  <2> QED BY <1>1, <2>1, <2>2, DifferAt, Zenon
<1> QED BY <1>2, <1>3

\* Two escapes or two copied characters differ if what they stand for does.
LEMMA SameKindDiffer ==
  /\ \A a, b, c, d \in Hex :
        <<a, b>> # <<c, d>> => Differ(HexWord(a, b), HexWord(c, d))
  /\ \A p, q \in Alnum : p # q => Differ(<<p>>, <<q>>)
<1>1. ASSUME NEW a \in Hex, NEW b \in Hex, NEW c \in Hex, NEW d \in Hex,
             <<a, b>> # <<c, d>>
      PROVE  Differ(HexWord(a, b), HexWord(c, d))
  <2>1. /\ HexWord(a, b)[3] = a /\ HexWord(a, b)[4] = b
        /\ HexWord(c, d)[3] = c /\ HexWord(c, d)[4] = d
    BY DEF HexWord
  <2>2. Len(HexWord(a, b)) = 5 /\ Len(HexWord(c, d)) = 5
    BY HexWordType
  <2>3. CASE a # c
    <3>1. 3 \in 1 .. Len(HexWord(a, b)) /\ 3 \in 1 .. Len(HexWord(c, d))
      BY <2>2
    <3>2. HexWord(a, b)[3] # HexWord(c, d)[3]
      BY <2>1, <2>3
    <3> QED BY <3>1, <3>2, DifferAt, Zenon
  <2>4. CASE b # d
    <3>1. 4 \in 1 .. Len(HexWord(a, b)) /\ 4 \in 1 .. Len(HexWord(c, d))
      BY <2>2
    <3>2. HexWord(a, b)[4] # HexWord(c, d)[4]
      BY <2>1, <2>4
    <3> QED BY <3>1, <3>2, DifferAt, Zenon
  <2> QED BY <1>1, <2>3, <2>4
<1>2. ASSUME NEW p \in Alnum, NEW q \in Alnum, p # q
      PROVE  Differ(<<p>>, <<q>>)
  <2>1. 1 \in 1 .. Len(<<p>>) /\ 1 \in 1 .. Len(<<q>>) /\ <<p>>[1] # <<q>>[1]
    BY <1>2
  <2> QED BY <2>1, DifferAt, Zenon
<1> QED BY <1>1, <1>2

-----------------------------------------------------------------------------
(* Sequences that differ.                                                  *)

\* A difference is not undone by what is written after it.
LEMMA DifferStays ==
  ASSUME NEW S, NEW s \in Seq(S), NEW t \in Seq(S), Differ(s, t),
         NEW v \in Seq(S), NEW w \in Seq(S)
  PROVE  Differ(s \o v, t \o w)
<1>1. PICK k \in 1 .. Len(s) : k <= Len(t) /\ s[k] # t[k]
  BY DEF Differ
<1>2. (s \o v)[k] = s[k] /\ (t \o w)[k] = t[k]
  BY <1>1
<1>3. Len(s \o v) = Len(s) + Len(v) /\ Len(t \o w) = Len(t) + Len(w)
  OBVIOUS
<1> QED BY <1>1, <1>2, <1>3 DEF Differ

\* Different words after the same beginning make different sequences.
LEMMA DifferAfter ==
  ASSUME NEW S, NEW s \in Seq(S), NEW v \in Seq(S), NEW w \in Seq(S),
         Differ(v, w)
  PROVE  Differ(s \o v, s \o w)
<1>1. PICK k \in 1 .. Len(v) : k <= Len(w) /\ v[k] # w[k]
  BY DEF Differ
<1>2. (s \o v)[Len(s) + k] = v[k] /\ (s \o w)[Len(s) + k] = w[k]
  BY <1>1
<1>3. Len(s \o v) = Len(s) + Len(v) /\ Len(s \o w) = Len(s) + Len(w)
  OBVIOUS
<1>4. /\ Len(s) + k \in 1 .. Len(s \o v)
      /\ Len(s) + k <= Len(s \o w)
  BY <1>1, <1>3
<1> QED BY <1>1, <1>2, <1>4 DEF Differ

\* Sequences that differ are not equal.
LEMMA DifferMeansNotEqual ==
  ASSUME NEW s, NEW t, Differ(s, t)
  PROVE  s # t
BY DEF Differ

-----------------------------------------------------------------------------
(* The turns of the loop.                                                  *)

\* One turn of the loop: the word w is written and the index moves to j.
Turn(b, i, w, j) ==
  /\ i \in 1 .. Len(b)
  /\ j \in i + 1 .. Len(b) + 1
  /\ w \in Seq(CssChar)
  /\ Len(w) >= 1
  /\ \/ b[i] \in Special /\ w = CodeWord(b[i]) /\ j = i + 1
     \/ b[i] \in Alnum /\ w = <<b[i]>> /\ j = i + 1
     \/ /\ b[i] = Backslash
        /\ b[i + 1] \in Hex
        /\ b[i + 2] \in Hex
        /\ w = HexWord(b[i + 1], b[i + 2])
        /\ j = i + 3

\* Turns of both loops at the same index either write words that differ or
\* read the same characters and write the same word.
LEMMA TurnsDiffer ==
  ASSUME NEW b1, NEW b2, NEW i, NEW v, NEW w, NEW j, NEW k,
         Turn(b1, i, v, j), Turn(b2, i, w, k)
  PROVE  \/ Differ(v, w)
         \/ v = w /\ j = k /\ \A m \in i .. j - 1 : b1[m] = b2[m]
<1>1. CASE b1[i] \in Special /\ v = CodeWord(b1[i]) /\ j = i + 1
  <2>1. CASE b2[i] \in Special /\ w = CodeWord(b2[i]) /\ k = i + 1
    BY <1>1, <2>1, SpecialWordsDiffer DEF Turn
  <2>2. CASE b2[i] \in Alnum /\ w = <<b2[i]>>
    BY <1>1, <2>2, PlainIsNotCode
  <2>3. CASE \E a, b \in Hex : w = HexWord(a, b)
    BY <1>1, <2>3, SpecialIsNotHex
  <2> QED BY <2>1, <2>2, <2>3 DEF Turn
<1>2. CASE b1[i] \in Alnum /\ v = <<b1[i]>> /\ j = i + 1
  <2>1. CASE b2[i] \in Special /\ w = CodeWord(b2[i])
    BY <1>2, <2>1, PlainIsNotCode
  <2>2. CASE b2[i] \in Alnum /\ w = <<b2[i]>> /\ k = i + 1
    <3>1. CASE b1[i] = b2[i]
      BY <1>2, <2>2, <3>1 DEF Turn
    <3>2. CASE b1[i] # b2[i]
      BY <1>2, <2>2, <3>2, SameKindDiffer
    <3> QED BY <3>1, <3>2
  <2>3. CASE \E a, b \in Hex : w = HexWord(a, b)
    BY <1>2, <2>3, PlainIsNotCode
  <2> QED BY <2>1, <2>2, <2>3 DEF Turn
<1>3. CASE /\ b1[i] = Backslash /\ b1[i + 1] \in Hex /\ b1[i + 2] \in Hex
           /\ v = HexWord(b1[i + 1], b1[i + 2])
           /\ j = i + 3
  <2>1. CASE b2[i] \in Special /\ w = CodeWord(b2[i])
    BY <1>3, <2>1, SpecialIsNotHex
  <2>2. CASE b2[i] \in Alnum /\ w = <<b2[i]>>
    BY <1>3, <2>2, PlainIsNotCode
  <2>3. CASE /\ b2[i] = Backslash /\ b2[i + 1] \in Hex /\ b2[i + 2] \in Hex
             /\ w = HexWord(b2[i + 1], b2[i + 2])
             /\ k = i + 3
    <3>1. CASE b1[i + 1] = b2[i + 1] /\ b1[i + 2] = b2[i + 2]
      <4>1. \A m \in i .. j - 1 : m = i \/ m = i + 1 \/ m = i + 2
        BY <1>3 DEF Turn
      <4> QED BY <1>3, <2>3, <3>1, <4>1
    <3>2. CASE b1[i + 1] # b2[i + 1] \/ b1[i + 2] # b2[i + 2]
      <4>1. <<b1[i + 1], b1[i + 2]>> # <<b2[i + 1], b2[i + 2]>>
        BY <3>2
      <4> QED BY <1>3, <2>3, <4>1, SameKindDiffer
    <3> QED BY <3>1, <3>2
  <2> QED BY <2>1, <2>2, <2>3 DEF Turn
<1> QED BY <1>1, <1>2, <1>3 DEF Turn

-----------------------------------------------------------------------------
(* The id as a whole.                                                      *)

\* What stands for the first n characters of a name, if all is in order; a turn
\* of the loop begins where no digits of an escape are.
Proper(b, n) == \A k \in 1 .. n : Word(b, k) \in Seq(CssChar)
UpTo(b, n)   == FlattenSeq([k \in 1 .. n |-> Word(b, k)])
Start(b, k)  == \A d \in 1 .. 2 : k > d => b[k - d] # Backslash

\* Nothing has been read.
LEMMA UpToNothing == \A b : Proper(b, 0) /\ UpTo(b, 0) = <<>> /\ Start(b, 1)
<1> SUFFICES ASSUME NEW b PROVE Proper(b, 0) /\ UpTo(b, 0) = <<>> /\ Start(b, 1)
  OBVIOUS
<1>1. [k \in 1 .. 0 |-> Word(b, k)] \in [1 .. 0 -> Seq(CssChar)]
  OBVIOUS
<1>2. UpTo(b, 0) = <<>>
  BY <1>1, FlattenNone DEF UpTo
<1> QED BY <1>2 DEF Proper, Start

\* One character more.
LEMMA UpToGrows ==
  ASSUME NEW b, NEW n \in Nat, Proper(b, n)
  PROVE  /\ UpTo(b, n) \in Seq(CssChar)
         /\ n > 0 => /\ Proper(b, n - 1)
                     /\ UpTo(b, n) = UpTo(b, n - 1) \o Word(b, n)
<1> DEFINE f == [k \in 1 .. n |-> Word(b, k)]
<1>1. f \in [1 .. n -> Seq(CssChar)]
  BY DEF Proper
<1>2. UpTo(b, n) \in Seq(CssChar)
  <2>1. FlattenSeq(f) \in Seq(CssChar)
    <3> HIDE DEF f
    <3> QED BY <1>1, FunctionIsSeq, FlattenType
  <2> QED BY <2>1 DEF UpTo
<1>3. ASSUME n > 0
      PROVE  Proper(b, n - 1) /\ UpTo(b, n) = UpTo(b, n - 1) \o Word(b, n)
  <2>1. Proper(b, n - 1)
    BY <1>3 DEF Proper
  <2>2. n - 1 \in Nat /\ (n - 1) + 1 = n
    BY <1>3
  <2>3. f[n] = Word(b, n) /\ [k \in 1 .. n - 1 |-> f[k]] = [k \in 1 .. n - 1 |-> Word(b, k)]
    BY <1>3
  <2> HIDE DEF f
  <2>4. f \in [1 .. (n - 1) + 1 -> Seq(CssChar)]
    BY <1>1, <2>2
  <2>5. FlattenSeq(f) = FlattenSeq([k \in 1 .. n - 1 |-> f[k]]) \o f[(n - 1) + 1]
    BY <2>2, <2>4, FlattenGrows
  <2>6. FlattenSeq(f) = FlattenSeq([k \in 1 .. n - 1 |-> Word(b, k)]) \o Word(b, n)
    BY <2>2, <2>3, <2>5
  <2>7. UpTo(b, n) = UpTo(b, n - 1) \o Word(b, n)
    BY <2>6 DEF UpTo, f
  <2> QED BY <2>1, <2>7
<1> QED BY <1>2, <1>3

\* The escape of a name is what has been written at its end.
LEMMA EscapedIs ==
  ASSUME NEW b \in Seq(RawChar)
  PROVE  Escaped(b) = UpTo(b, Len(b))
<1>1. DOMAIN b = 1 .. Len(b)
  BY LenProperties
<1> QED BY <1>1 DEF Escaped, UpTo

\* What Word says where a turn begins, and of the digits of an escape.
LEMMA BackslashIs ==
  /\ Backslash \notin Alnum /\ Backslash \notin Hex /\ Backslash \notin Special
BY CharAssumption
  DEF CharAssumption, Special, Underscore, At, Percent, Dot, Dash, Dollar, Quote, Backslash

\* The word for the character or escape that starts at i.
LEMMA WordAtStart ==
  ASSUME NEW b, NEW i \in Nat, Start(b, i)
  PROVE  /\ b[i] = Backslash => Word(b, i) = HexWord(b[i + 1], b[i + 2])
         /\ b[i] # Backslash => Word(b, i) = CodeWord(b[i])
BY DEF Word, Start

\* The digits of an escape have no words of their own.
LEMMA WordOfDigit ==
  ASSUME NEW b, NEW i \in Nat \ {0}, b[i] = Backslash
  PROVE  Word(b, i + 1) = <<>> /\ Word(b, i + 2) = <<>>
<1>1. i + 1 > 1 /\ b[(i + 1) - 1] = Backslash /\ 1 \in 1 .. 2
  OBVIOUS
<1>2. i + 2 > 2 /\ b[(i + 2) - 2] = Backslash /\ 2 \in 1 .. 2
  OBVIOUS
<1> QED BY <1>1, <1>2 DEF Word

\* Letters are copied.
LEMMA PlainWord ==
  ASSUME NEW c \in Alnum
  PROVE  CodeWord(c) = <<c>>
<1>1. c \notin Special
  BY CharAssumption DEF CharAssumption
<1> QED BY <1>1, Zenon DEF CodeWord, Special

\* A turn of the loop writes the words of what it reads.
LEMMA TurnWrites ==
  ASSUME NEW b \in Seq(RawChar), NEW i, NEW w, NEW j, Turn(b, i, w, j),
         Start(b, i), Proper(b, i - 1)
  PROVE  /\ Proper(b, j - 1)
         /\ Start(b, j)
         /\ Word(b, i) = w
         /\ UpTo(b, j - 1) = UpTo(b, i - 1) \o w
<1>1. /\ Len(b) \in Nat /\ i \in 1 .. Len(b) /\ i \in Nat \ {0} /\ i - 1 \in Nat
      /\ w \in Seq(CssChar) /\ UpTo(b, i - 1) \in Seq(CssChar)
  <2>1. i \in 1 .. Len(b) /\ w \in Seq(CssChar) /\ Len(b) \in Nat
    BY DEF Turn
  <2>2. i \in Nat \ {0} /\ i - 1 \in Nat
    BY <2>1
  <2> QED BY <2>1, <2>2, UpToGrows
<1>2. ASSUME Word(b, i) = w
      PROVE  Proper(b, i) /\ UpTo(b, i) = UpTo(b, i - 1) \o w
  <2>1. Proper(b, i)
    <3> SUFFICES ASSUME NEW k \in 1 .. i PROVE Word(b, k) \in Seq(CssChar)
      BY DEF Proper
    <3>1. CASE k \in 1 .. i - 1
      BY <3>1 DEF Proper
    <3>2. CASE k = i
      BY <1>1, <1>2, <3>2
    <3> QED BY <1>1, <3>1, <3>2
  <2>2. i \in Nat /\ i > 0
    BY <1>1
  <2>3. UpTo(b, i) = UpTo(b, i - 1) \o Word(b, i)
    BY <2>1, <2>2, UpToGrows
  <2> QED BY <1>2, <2>1, <2>3
<1>3. CASE b[i] \in Special \cup Alnum /\ j = i + 1 /\ w = CodeWord(b[i])
  <2>1. b[i] # Backslash
    BY <1>3, BackslashIs
  <2>2. Word(b, i) = w
    BY <1>1, <1>3, <2>1, WordAtStart
  <2>3. j - 1 = i
    BY <1>1, <1>3
  <2>4. Start(b, j)
    BY <1>1, <1>3, <2>1 DEF Start
  <2> QED BY <1>2, <2>2, <2>3, <2>4
<1>4. CASE /\ b[i] = Backslash /\ b[i + 1] \in Hex /\ b[i + 2] \in Hex
           /\ w = HexWord(b[i + 1], b[i + 2]) /\ j = i + 3
  <2>1. Word(b, i) = w
    BY <1>1, <1>4, WordAtStart
  <2>2. Proper(b, i) /\ UpTo(b, i) = UpTo(b, i - 1) \o w
    BY <1>2, <2>1
  <2>3. Word(b, i + 1) = <<>> /\ Word(b, i + 2) = <<>>
    BY <1>1, <1>4, WordOfDigit
  <2>4. Proper(b, i + 1) /\ Proper(b, i + 2)
    <3> SUFFICES ASSUME NEW k \in 1 .. i + 2 PROVE Word(b, k) \in Seq(CssChar)
      BY <1>1 DEF Proper
    <3>1. CASE k \in 1 .. i
      BY <2>2, <3>1 DEF Proper
    <3>2. CASE k = i + 1
      BY <2>3, <3>2, EmptySeq
    <3>3. CASE k = i + 2
      BY <2>3, <3>3, EmptySeq
    <3> QED BY <1>1, <3>1, <3>2, <3>3
  <2>5. UpTo(b, i + 1) = UpTo(b, i) \o <<>>
    <3>1. i + 1 \in Nat /\ i + 1 > 0 /\ (i + 1) - 1 = i
      BY <1>1
    <3> QED BY <2>3, <2>4, <3>1, UpToGrows
  <2>6. UpTo(b, i + 2) = UpTo(b, i + 1) \o <<>>
    <3>1. i + 2 \in Nat /\ i + 2 > 0 /\ (i + 2) - 1 = i + 1
      BY <1>1
    <3> QED BY <2>3, <2>4, <3>1, UpToGrows
  <2>7. UpTo(b, i) \in Seq(CssChar) /\ UpTo(b, i + 1) \in Seq(CssChar)
    BY <1>1, <2>2, <2>4, UpToGrows
  <2>8. UpTo(b, i + 2) = UpTo(b, i)
    BY <2>5, <2>6, <2>7
  <2>9. j - 1 = i + 2
    BY <1>1, <1>4
  <2>10. Start(b, j)
    BY <1>1, <1>4, BackslashIs DEF Start
  <2> QED BY <2>1, <2>2, <2>4, <2>8, <2>9, <2>10
<1>5. CASE b[i] \in Special /\ w = CodeWord(b[i]) /\ j = i + 1
  BY <1>3, <1>5
<1>6. CASE b[i] \in Alnum /\ w = <<b[i]>> /\ j = i + 1
  BY <1>3, <1>6, PlainWord
<1> QED BY <1>4, <1>5, <1>6 DEF Turn

\* A name the loop gets through, read from the start of a turn.
LEMMA StartHasTurn ==
  ASSUME NEW b \in Seq(RawChar), WellFormed(b), NEW i \in 1 .. Len(b), Start(b, i)
  PROVE  \E j \in i + 1 .. Len(b) + 1 : Turn(b, i, Word(b, i), j)
<1>1. /\ b[i] \in RawChar /\ b[i] \notin Other \cup Unprintable
      /\ b[i] = Backslash => EscapeAt(b, i)
      /\ Len(b) \in Nat /\ i \in Nat
  BY DEF WellFormed
<1>2. CASE b[i] \in Special
  <2>1. Word(b, i) = CodeWord(b[i])
    BY <1>1, <1>2, BackslashIs, WordAtStart
  <2>2. i + 1 \in i + 1 .. Len(b) + 1
    BY <1>1
  <2>3. Turn(b, i, Word(b, i), i + 1)
    BY <1>1, <1>2, <2>1, <2>2, CodeWordType DEF Turn
  <2> QED BY <2>2, <2>3
<1>3. CASE b[i] \in Alnum
  <2>1. Word(b, i) = <<b[i]>>
    BY <1>1, <1>3, BackslashIs, WordAtStart, PlainWord
  <2>2. i + 1 \in i + 1 .. Len(b) + 1
    BY <1>1
  <2>3. Turn(b, i, Word(b, i), i + 1)
    BY <1>1, <1>3, <2>1, <2>2, PlainWordType DEF Turn
  <2> QED BY <2>2, <2>3
<1>4. CASE b[i] = Backslash
  <2>1. i + 2 <= Len(b) /\ b[i + 1] \in Hex /\ b[i + 2] \in Hex
    BY <1>1, <1>4 DEF EscapeAt
  <2>2. Word(b, i) = HexWord(b[i + 1], b[i + 2])
    BY <1>1, <1>4, WordAtStart
  <2>3. i + 3 \in i + 1 .. Len(b) + 1
    BY <1>1, <2>1
  <2> DEFINE w == Word(b, i)
  <2>4. w \in Seq(CssChar) /\ Len(w) = 5 /\ w = HexWord(b[i + 1], b[i + 2])
    BY <2>1, <2>2, HexWordType
  <2> HIDE DEF w
  <2>5. Turn(b, i, w, i + 3)
    BY <1>1, <1>4, <2>1, <2>3, <2>4 DEF Turn
  <2> QED BY <2>3, <2>5 DEF w
<1> QED BY <1>1, <1>2, <1>3, <1>4 DEF RawChar, Char

\* Every id is made of characters of ids.
LEMMA AllProper ==
  ASSUME NEW b \in Seq(RawChar), WellFormed(b)
  PROVE  \A n \in 0 .. Len(b) : Proper(b, n)
<1>1. Len(b) \in Nat
  OBVIOUS
<1>2. ASSUME NEW k \in 1 .. Len(b)
      PROVE  Word(b, k) \in Seq(CssChar)
  <2>1. CASE Start(b, k)
    BY <2>1, StartHasTurn DEF Turn
  <2>2. CASE ~Start(b, k)
    <3>1. Word(b, k) = <<>>
      BY <2>2 DEF Word, Start
    <3> QED BY <3>1, EmptySeq
  <2> QED BY <2>1, <2>2
<1> QED BY <1>1, <1>2 DEF Proper

\* An id is made of the characters of ids.
LEMMA EscapedType ==
  ASSUME NEW b \in Seq(RawChar), WellFormed(b)
  PROVE  Escaped(b) \in Seq(CssChar)
<1>1. Len(b) \in Nat /\ Proper(b, Len(b))
  BY AllProper
<1> QED BY <1>1, EscapedIs, UpToGrows

\* The rest of an id after any beginning of it.
LEMMA EscapedFrom ==
  ASSUME NEW b \in Seq(RawChar), WellFormed(b), NEW n \in 0 .. Len(b)
  PROVE  \E rest \in Seq(CssChar) : Escaped(b) = UpTo(b, n) \o rest
<1>1. Len(b) \in Nat /\ n \in Nat /\ Len(b) - n \in Nat
  OBVIOUS
<1> DEFINE P(k) == \E rest \in Seq(CssChar) : UpTo(b, n + k) = UpTo(b, n) \o rest
           T == {k \in Nat : n + k <= Len(b) => P(k)}
<1>2. 0 \in T
  <2>1. UpTo(b, n) \in Seq(CssChar) /\ n + 0 = n
    BY <1>1, AllProper, UpToGrows
  <2>2. UpTo(b, n) = UpTo(b, n) \o <<>> /\ <<>> \in Seq(CssChar)
    BY <2>1
  <2>3. P(0)
    BY <2>1, <2>2
  <2> HIDE DEF P
  <2> QED BY <2>3
<1>3. ASSUME NEW k \in Nat, k \in T
      PROVE  k + 1 \in T
  <2> SUFFICES ASSUME n + (k + 1) <= Len(b) PROVE P(k + 1)
    OBVIOUS
  <2>1. /\ n + k <= Len(b) /\ n + (k + 1) \in 0 .. Len(b) /\ n + (k + 1) \in 1 .. Len(b)
        /\ n + (k + 1) \in Nat /\ n + (k + 1) > 0 /\ (n + (k + 1)) - 1 = n + k
    BY <1>1
  <2>2. PICK rest \in Seq(CssChar) : UpTo(b, n + k) = UpTo(b, n) \o rest
    BY <1>3, <2>1
  <2>3. Proper(b, n + (k + 1))
    BY <2>1, AllProper
  <2> DEFINE w == Word(b, n + (k + 1))
             u == UpTo(b, n)
  <2>4. w \in Seq(CssChar)
    BY <2>1, <2>3 DEF Proper
  <2>5. UpTo(b, n + (k + 1)) = UpTo(b, n + k) \o w
    BY <2>1, <2>3, UpToGrows
  <2>6. u \in Seq(CssChar)
    BY <1>1, AllProper, UpToGrows
  <2> HIDE DEF w, u
  <2>7. (u \o rest) \o w = u \o (rest \o w)
    <3>1. ConcatAssociates(CssChar)
      BY Associative
    <3> QED BY <2>4, <2>6, <3>1, Zenon DEF ConcatAssociates
  <2>8. rest \o w \in Seq(CssChar)
    BY <2>4, ConcatProperties
  <2>9. UpTo(b, n + (k + 1)) = u \o (rest \o w)
    BY <2>2, <2>5, <2>7 DEF u
  <2> QED BY <2>8, <2>9 DEF u
<1>4. Len(b) - n \in T
  <2> HIDE DEF T
  <2> QED BY <1>1, <1>2, <1>3, InductionOverSet
<1>5. P(Len(b) - n) /\ n + (Len(b) - n) = Len(b)
  <2> HIDE DEF P
  <2> QED BY <1>1, <1>4
<1> QED BY <1>5, EscapedIs

-----------------------------------------------------------------------------
(* The escape can be undone.                                               *)

\* Where both loops stand at the same place with the same written.
Agree(a, b, i) ==
  /\ i \in 1 .. Len(a) + 1
  /\ i \in 1 .. Len(b) + 1
  /\ \A m \in 1 .. i - 1 : a[m] = b[m]
  /\ Start(a, i)
  /\ Start(b, i)
  /\ UpTo(a, i - 1) = UpTo(b, i - 1)

\* From there on a name that still goes on adds to its id.
LEMMA TurnAhead ==
  ASSUME NEW b \in Seq(RawChar), WellFormed(b), NEW i \in 1 .. Len(b), Start(b, i)
  PROVE  \E j \in i + 1 .. Len(b) + 1 : \E w, rest \in Seq(CssChar) :
            /\ Turn(b, i, w, j)
            /\ Start(b, j)
            /\ UpTo(b, i - 1) \in Seq(CssChar)
            /\ UpTo(b, j - 1) = UpTo(b, i - 1) \o w
            /\ Escaped(b) = (UpTo(b, i - 1) \o w) \o rest
<1>1. Len(b) \in Nat /\ i - 1 \in Nat /\ i - 1 \in 0 .. Len(b)
  OBVIOUS
<1>2. Proper(b, i - 1)
  BY <1>1, AllProper
<1>3. PICK j \in i + 1 .. Len(b) + 1 : Turn(b, i, Word(b, i), j)
  BY StartHasTurn
<1> DEFINE w == Word(b, i)
<1>4. Turn(b, i, w, j) /\ w \in Seq(CssChar)
  BY <1>3 DEF Turn
<1> HIDE DEF w
<1>5. Start(b, j) /\ UpTo(b, j - 1) = UpTo(b, i - 1) \o w
  BY <1>2, <1>4, TurnWrites
<1>6. j - 1 \in 0 .. Len(b)
  BY <1>1
<1>7. PICK rest \in Seq(CssChar) : Escaped(b) = UpTo(b, j - 1) \o rest
  BY <1>6, EscapedFrom
<1>8. UpTo(b, i - 1) \in Seq(CssChar)
  BY <1>1, <1>2, UpToGrows
<1> QED BY <1>4, <1>5, <1>7, <1>8

\* Names with the same id go on agreeing.
LEMMA AgreeOn ==
  ASSUME NEW a \in Seq(RawChar), WellFormed(a), NEW b \in Seq(RawChar), WellFormed(b),
         Escaped(a) = Escaped(b), NEW i \in Nat, Agree(a, b, i),
         i <= Len(a), i <= Len(b)
  PROVE  \E j \in Nat : j > i /\ Agree(a, b, j)
<1>1. i \in 1 .. Len(a) /\ i \in 1 .. Len(b) /\ Len(a) \in Nat /\ Len(b) \in Nat
  BY DEF Agree
<1>2. PICK j \in i + 1 .. Len(a) + 1, v \in Seq(CssChar), r \in Seq(CssChar) :
          /\ Turn(a, i, v, j)
          /\ Start(a, j)
          /\ UpTo(a, i - 1) \in Seq(CssChar)
          /\ UpTo(a, j - 1) = UpTo(a, i - 1) \o v
          /\ Escaped(a) = (UpTo(a, i - 1) \o v) \o r
  BY <1>1, TurnAhead DEF Agree
<1>3. PICK k \in i + 1 .. Len(b) + 1, w \in Seq(CssChar), s \in Seq(CssChar) :
          /\ Turn(b, i, w, k)
          /\ Start(b, k)
          /\ UpTo(b, k - 1) = UpTo(b, i - 1) \o w
          /\ Escaped(b) = (UpTo(b, i - 1) \o w) \o s
  BY <1>1, TurnAhead DEF Agree
<1> DEFINE u == UpTo(a, i - 1)
<1>4. u \in Seq(CssChar) /\ u = UpTo(b, i - 1)
  BY <1>2 DEF Agree
<1>5. ~Differ(v, w)
  <2> HIDE DEF u
  <2> SUFFICES ASSUME Differ(v, w) PROVE FALSE
    OBVIOUS
  <2>1. Differ(u \o v, u \o w)
    BY <1>4, DifferAfter
  <2>2. u \o v \in Seq(CssChar) /\ u \o w \in Seq(CssChar)
    BY <1>4, ConcatProperties
  <2>3. Differ((u \o v) \o r, (u \o w) \o s)
    BY <2>1, <2>2, DifferStays
  <2>4. (u \o v) \o r # (u \o w) \o s
    BY <2>3, DifferMeansNotEqual
  <2>5. Escaped(a) = (u \o v) \o r
    BY <1>2 DEF u
  <2>6. Escaped(b) = (u \o w) \o s
    BY <1>3, <1>4
  <2> QED BY <2>4, <2>5, <2>6
<1>6. v = w /\ j = k /\ \A m \in i .. j - 1 : a[m] = b[m]
  <2>1. Turn(a, i, v, j) /\ Turn(b, i, w, k)
    BY <1>2, <1>3
  <2>2. \/ Differ(v, w)
        \/ v = w /\ j = k /\ \A m \in i .. j - 1 : a[m] = b[m]
    BY <2>1, TurnsDiffer
  <2> QED BY <1>5, <2>2
<1>7. \A m \in 1 .. j - 1 : a[m] = b[m]
  <2> SUFFICES ASSUME NEW m \in 1 .. j - 1 PROVE a[m] = b[m]
    OBVIOUS
  <2>1. m \in 1 .. i - 1 \/ m \in i .. j - 1
    BY <1>1
  <2> QED BY <1>6, <2>1 DEF Agree
<1>8. UpTo(a, j - 1) = UpTo(b, j - 1)
  BY <1>2, <1>3, <1>4, <1>6
<1>9. /\ j \in Nat /\ j > i
      /\ j \in 1 .. Len(a) + 1 /\ j \in 1 .. Len(b) + 1
  BY <1>1, <1>6
<1>10. Agree(a, b, j)
  BY <1>2, <1>3, <1>6, <1>7, <1>8, <1>9 DEF Agree
<1> QED BY <1>9, <1>10

\* A name that goes on has a longer id than one that has ended.
LEMMA LongerId ==
  ASSUME NEW a \in Seq(RawChar), WellFormed(a), NEW b \in Seq(RawChar), WellFormed(b),
         Start(b, Len(a) + 1), Len(a) + 1 \in 1 .. Len(b),
         UpTo(a, Len(a)) = UpTo(b, Len(a))
  PROVE  Escaped(a) # Escaped(b)
<1>1. Len(a) \in Nat /\ (Len(a) + 1) - 1 = Len(a)
  OBVIOUS
<1>2. PICK j \in (Len(a) + 1) + 1 .. Len(b) + 1, w \in Seq(CssChar), r \in Seq(CssChar) :
          /\ Turn(b, Len(a) + 1, w, j)
          /\ UpTo(b, (Len(a) + 1) - 1) \in Seq(CssChar)
          /\ Escaped(b) = (UpTo(b, (Len(a) + 1) - 1) \o w) \o r
  BY TurnAhead
<1>3. Len(w) >= 1
  BY <1>2 DEF Turn
<1> DEFINE u == Escaped(a)
<1>4. u = UpTo(a, Len(a))
  BY EscapedIs
<1>5. u \in Seq(CssChar) /\ Escaped(b) = (u \o w) \o r
  BY <1>1, <1>2, <1>4
<1>6. Len((u \o w) \o r) # Len(u)
  <2> HIDE DEF u
  <2>1. /\ u \o w \in Seq(CssChar) /\ Len(u \o w) = Len(u) + Len(w)
        /\ Len(u) \in Nat /\ Len(w) \in Nat /\ Len(r) \in Nat
    BY <1>5, ConcatProperties
  <2>2. Len((u \o w) \o r) = Len(u) + Len(w) + Len(r)
    BY <2>1, ConcatProperties
  <2> QED BY <1>3, <2>1, <2>2
<1> HIDE DEF u
<1>7. Escaped(b) # u
  BY <1>5, <1>6
<1> QED BY <1>7 DEF u

\* Names the loop gets through have different ids: the id tells the name.
LEMMA EscapedTellsName ==
  ASSUME NEW a \in Seq(RawChar), WellFormed(a), NEW b \in Seq(RawChar), WellFormed(b),
         Escaped(a) = Escaped(b)
  PROVE  a = b
<1> DEFINE T == {n \in Nat : n <= Len(a) + 1 /\ Agree(a, b, Len(a) + 1 - n)}
<1>1. Len(a) \in Nat /\ Len(b) \in Nat
  OBVIOUS
<1>2. Len(a) \in T
  <2>1. Agree(a, b, 1)
    BY <1>1, UpToNothing DEF Agree
  <2>2. Len(a) + 1 - Len(a) = 1
    BY <1>1
  <2> QED BY <1>1, <2>1, <2>2
<1>3. PICK n \in T : \A m \in T : n <= m
  <2> HIDE DEF T
  <2>1. T \subseteq Nat
    BY DEF T
  <2> QED BY <1>2, <2>1, LeastNatural
<1> DEFINE i == Len(a) + 1 - n
<1>4. i \in Nat /\ Agree(a, b, i) /\ n \in Nat /\ i \in 1 .. Len(a) + 1 /\ i \in 1 .. Len(b) + 1
  BY <1>1, <1>3 DEF Agree
<1>5. \A j \in Nat : Agree(a, b, j) => j <= i
  <2> SUFFICES ASSUME NEW j \in Nat, Agree(a, b, j) PROVE j <= i
    OBVIOUS
  <2>1. j \in 1 .. Len(a) + 1
    BY DEF Agree
  <2>2. Len(a) + 1 - j \in Nat /\ Len(a) + 1 - j <= Len(a) + 1 /\ Len(a) + 1 - (Len(a) + 1 - j) = j
    BY <1>1, <2>1
  <2>3. Len(a) + 1 - j \in T
    BY <2>2
  <2>4. n <= Len(a) + 1 - j
    BY <1>3, <2>3
  <2> QED BY <1>1, <1>4, <2>4
<1> HIDE DEF i
<1>6. ~(i <= Len(a) /\ i <= Len(b))
  <2> SUFFICES ASSUME i <= Len(a), i <= Len(b) PROVE FALSE
    OBVIOUS
  <2>1. PICK j \in Nat : j > i /\ Agree(a, b, j)
    BY <1>4, AgreeOn
  <2> QED BY <1>4, <1>5, <2>1
<1>7. CASE i = Len(a) + 1 /\ i <= Len(b)
  <2>1. Start(b, Len(a) + 1) /\ UpTo(a, Len(a)) = UpTo(b, Len(a))
    <3>1. i - 1 = Len(a)
      BY <1>1, <1>7
    <3> QED BY <1>4, <1>7, <3>1 DEF Agree
  <2>2. Len(a) + 1 \in 1 .. Len(b)
    BY <1>1, <1>7
  <2> QED BY <2>1, <2>2, LongerId
<1>8. CASE i = Len(b) + 1 /\ i <= Len(a)
  <2>1. Start(a, Len(b) + 1) /\ UpTo(b, Len(b)) = UpTo(a, Len(b))
    <3>1. i - 1 = Len(b)
      BY <1>1, <1>8
    <3> QED BY <1>4, <1>8, <3>1 DEF Agree
  <2>2. Len(b) + 1 \in 1 .. Len(a)
    BY <1>1, <1>8
  <2> QED BY <2>1, <2>2, LongerId
<1>9. CASE i = Len(a) + 1 /\ i = Len(b) + 1
  <2>1. Len(a) = Len(b)
    BY <1>1, <1>9
  <2>2. \A m \in 1 .. Len(a) : a[m] = b[m]
    BY <1>1, <1>4, <1>9 DEF Agree
  <2> QED BY <2>1, <2>2, SeqEqual
<1> QED BY <1>1, <1>4, <1>6, <1>7, <1>8, <1>9

-----------------------------------------------------------------------------
(* Codes in general: words that differ make texts that can be read back.   *)

\* The text that the words of a code make of a sequence.
Coded(code, a) == FlattenSeq([k \in 1 .. Len(a) |-> code[a[k]]])

\* A coded text is a text.
LEMMA CodedType ==
  ASSUME NEW S, NEW T, NEW code \in [S -> Seq(T)], NEW a \in Seq(S)
  PROVE  /\ Coded(code, a) \in Seq(T)
         /\ Len(a) = 0 => Coded(code, a) = <<>>
<1> DEFINE f == [k \in 1 .. Len(a) |-> code[a[k]]]
<1>1. Len(a) \in Nat /\ f \in [1 .. Len(a) -> Seq(T)]
  OBVIOUS
<1>2. FlattenSeq(f) \in Seq(T)
  <2> HIDE DEF f
  <2>1. f \in Seq(Seq(T))
    BY <1>1, FunctionIsSeq
  <2> QED BY <2>1, FlattenType
<1>3. ASSUME Len(a) = 0
      PROVE  FlattenSeq(f) = <<>>
  <2>2. f \in [1 .. 0 -> Seq(T)]
    BY <1>1, <1>3
  <2> HIDE DEF f
  <2> QED BY <2>2, FlattenNone
<1> QED BY <1>2, <1>3 DEF Coded

\* It starts with the code of the first character.
LEMMA CodedFirst ==
  ASSUME NEW S, NEW T, NEW code \in [S -> Seq(T)], NEW a \in Seq(S), a # <<>>
  PROVE  /\ Tail(a) \in Seq(S) /\ Len(Tail(a)) + 1 = Len(a) /\ a[1] \in S
         /\ \A k \in 1 .. Len(Tail(a)) : Tail(a)[k] = a[k + 1]
         /\ Coded(code, a) = code[a[1]] \o Coded(code, Tail(a))
<1> DEFINE f == [k \in 1 .. Len(a) |-> code[a[k]]]
           n == Len(Tail(a))
<1>1. /\ Tail(a) \in Seq(S) /\ n + 1 = Len(a) /\ a[1] \in S /\ n \in Nat
      /\ \A k \in 1 .. n : Tail(a)[k] = a[k + 1]
  OBVIOUS
<1>2. f[1] = code[a[1]] /\ f \in [1 .. n + 1 -> Seq(T)]
  BY <1>1
<1>3. [k \in 1 .. n |-> f[k + 1]] = [k \in 1 .. n |-> code[Tail(a)[k]]]
  <2>1. \A k \in 1 .. n : f[k + 1] = code[Tail(a)[k]]
    BY <1>1
  <2> HIDE DEF f, n
  <2> QED BY <2>1
<1> HIDE DEF f, n
<1>4. FlattenSeq(f) = f[1] \o FlattenSeq([k \in 1 .. n |-> f[k + 1]])
  BY <1>1, <1>2, FlattenFirst
<1>5. Coded(code, a) = code[a[1]] \o Coded(code, Tail(a))
  BY <1>2, <1>3, <1>4 DEF Coded, f, n
<1> QED BY <1>1, <1>5 DEF n

\* Words that differ make a code that can be read back.
LEMMA PrefixCode ==
  ASSUME NEW S, NEW T, NEW code \in [S -> Seq(T)],
         \A x \in S : Len(code[x]) >= 1,
         \A x, y \in S : x # y => Differ(code[x], code[y]),
         NEW a \in Seq(S), NEW b \in Seq(S), Coded(code, a) = Coded(code, b)
  PROVE  a = b
<1> DEFINE Tells(n) == \A c, d \in Seq(S) :
                          Len(c) = n /\ Coded(code, c) = Coded(code, d) => c = d
           N == {n \in Nat : Tells(n)}
<1>0. ASSUME NEW c \in Seq(S), c # <<>>
      PROVE  Coded(code, c) # <<>>
  <2> DEFINE u == code[c[1]]
             v == Coded(code, Tail(c))
  <2>1. Coded(code, c) = u \o v /\ Tail(c) \in Seq(S) /\ c[1] \in S
    BY <1>0, CodedFirst
  <2>2. u \in Seq(T) /\ Len(u) >= 1 /\ v \in Seq(T)
    BY <2>1, CodedType
  <2> HIDE DEF u, v
  <2>3. Len(u \o v) = Len(u) + Len(v) /\ Len(u) \in Nat /\ Len(v) \in Nat
    BY <2>2, ConcatProperties
  <2>4. Len(u \o v) # 0
    BY <2>2, <2>3
  <2>5. u \o v # <<>>
    BY <2>4
  <2> QED BY <2>1, <2>5
<1>a. \A e \in Seq(S) : Len(e) = 0 => Coded(code, e) = <<>>
  BY CodedType
<1>1. 0 \in N
  <2> SUFFICES ASSUME NEW c \in Seq(S), NEW d \in Seq(S), Len(c) = 0,
                      Coded(code, c) = Coded(code, d)
               PROVE  c = d
    OBVIOUS
  <2>1. c = <<>>
    OBVIOUS
  <2>2. Coded(code, d) = <<>>
    BY <1>a
  <2> QED BY <1>0, <2>1, <2>2
<1>2. ASSUME NEW n \in Nat, n \in N
      PROVE  n + 1 \in N
  <2>0. Tells(n)
    BY <1>2
  <2> SUFFICES ASSUME NEW c \in Seq(S), NEW d \in Seq(S), Len(c) = n + 1,
                      Coded(code, c) = Coded(code, d)
               PROVE  c = d
    OBVIOUS
  <2>1. c # <<>>
    OBVIOUS
  <2>2. d # <<>>
    <3> SUFFICES ASSUME d = <<>> PROVE FALSE
      OBVIOUS
    <3>1. Len(d) = 0
      OBVIOUS
    <3>2. Coded(code, d) = <<>>
      BY <1>a, <3>1
    <3> QED BY <1>0, <2>1, <3>2
  <2> DEFINE v == Coded(code, Tail(c))
             w == Coded(code, Tail(d))
             x == code[c[1]]
             y == code[d[1]]
  <2>3. /\ Tail(c) \in Seq(S) /\ Len(Tail(c)) + 1 = Len(c) /\ c[1] \in S
        /\ \A k \in 1 .. Len(Tail(c)) : Tail(c)[k] = c[k + 1]
        /\ Coded(code, c) = x \o v
    BY <2>1, CodedFirst, ZenonT(30)
  <2>4. /\ Tail(d) \in Seq(S) /\ Len(Tail(d)) + 1 = Len(d) /\ d[1] \in S
        /\ \A k \in 1 .. Len(Tail(d)) : Tail(d)[k] = d[k + 1]
        /\ Coded(code, d) = y \o w
    BY <2>2, CodedFirst, ZenonT(30)
  <2>5. x \in Seq(T) /\ y \in Seq(T) /\ v \in Seq(T) /\ w \in Seq(T)
    BY <2>3, <2>4, CodedType
  <2>6. c[1] = d[1]
    <3> SUFFICES ASSUME c[1] # d[1] PROVE FALSE
      OBVIOUS
    <3>1. Differ(x, y)
      BY <2>3, <2>4
    <3> HIDE DEF x, y, v, w
    <3>2. Differ(x \o v, y \o w)
      BY <2>5, <3>1, DifferStays
    <3>3. x \o v # y \o w
      BY <3>2, DifferMeansNotEqual
    <3> QED BY <2>3, <2>4, <3>3
  <2>7. x = y
    BY <2>6
  <2>8. v = w
    <3> HIDE DEF x, y, v, w
    <3>1. x \o v = x \o w
      BY <2>3, <2>4, <2>7
    <3> QED BY <2>5, <3>1, CancelLeft
  <2>9. Tail(c) = Tail(d)
    <3>1. Len(Tail(c)) = n
      <4>1. Len(Tail(c)) \in Nat
        BY <2>3, LenProperties
      <4> QED BY <2>3, <4>1
    <3>2. Coded(code, Tail(c)) = Coded(code, Tail(d))
      BY <2>8
    <3> HIDE DEF v, w
    <3> QED BY <2>0, <2>3, <2>4, <3>1, <3>2
  <2>10. Len(c) = Len(d)
    BY <2>3, <2>4, <2>9
  <2>11. \A k \in 1 .. Len(c) : c[k] = d[k]
    <3> SUFFICES ASSUME NEW k \in 1 .. Len(c) PROVE c[k] = d[k]
      OBVIOUS
    <3>1. CASE k = 1
      BY <2>6, <3>1
    <3>2. CASE k # 1
      <4> DEFINE m == k - 1
      <4>1. m \in 1 .. Len(Tail(c)) /\ m \in 1 .. Len(Tail(d)) /\ m + 1 = k
        BY <2>3, <2>4, <2>10, <3>2
      <4> HIDE DEF m
      <4> QED BY <2>3, <2>4, <2>9, <4>1
    <3> QED BY <3>1, <3>2
  <2> QED BY <2>10, <2>11, SeqEqual
<1>3. Len(a) \in N
  <2> HIDE DEF N
  <2>1. Len(a) \in Nat
    OBVIOUS
  <2> QED BY <1>1, <1>2, <2>1, InductionOverSet
<1> QED BY <1>3

=============================================================================
