-------------------------- MODULE EmbeddingProofs --------------------------
(***************************************************************************)
(* Proofs about the way of a file into a page, for files of any length and *)
(* a buffer of any size.                                                   *)
(***************************************************************************)
EXTENDS Embedding, SequenceLemmas

-----------------------------------------------------------------------------
(* The names of Getline and LongStringLiteral mean what they mean here.    *)

\* The operators of Getline and LongStringLiteral are those of the composition.
LEMMA SameNames ==
  /\ \A s : S!FlattenSeq(s) = FlattenSeq(s)
  /\ \A s : P!FlattenSeq(s) = FlattenSeq(s)
  /\ \A c : S!EscapeToken(c) = EscapeToken(c)
  /\ \A l : S!Meaning(l) = Meaning(l)
  /\ \A l : S!StringOf(l) = StringOf(l)
  /\ \A l : S!Last(l) = Last(l)
  /\ S!TextChar = TextChar
  /\ S!FileChar = FileChar
  /\ S!Token = Token
  /\ S!NL = NL
  /\ S!NUL = NUL
  /\ S!Garbled = Garbled
  /\ P!NL = NL
<1>1. /\ \A s : S!FlattenSeq(s) = FlattenSeq(s)
      /\ \A s : P!FlattenSeq(s) = FlattenSeq(s)
  BY Zenon DEF FlattenSeq, S!FlattenSeq, P!FlattenSeq
<1>2. S!NL = NL /\ S!NUL = NUL /\ S!Garbled = Garbled /\ P!NL = NL
  BY DEF NL, S!NL, NUL, S!NUL, Garbled, S!Garbled, P!NL
<1>3. \A c : S!EscapeToken(c) = EscapeToken(c)
  BY <1>2, Zenon DEF EscapeToken, S!EscapeToken
<1>4. \A l : S!Last(l) = Last(l)
  BY DEF Last, S!Last
<1>5. S!TextChar = TextChar
  BY <1>2 DEF TextChar, S!TextChar
<1>6. S!FileChar = FileChar
  BY <1>2, <1>5 DEF FileChar, S!FileChar
<1>7. S!Token = Token
  BY <1>6 DEF Token, S!Token
<1>8. \A l, k : S!Misread(l, k) <=> Misread(l, k)
  BY <1>2 DEF Misread, S!Misread
<1>9. \A l : S!Meaning(l) = Meaning(l)
  BY <1>2, <1>8, Zenon DEF Meaning, S!Meaning
<1>10. \A l : S!StringOf(l) = StringOf(l)
  BY <1>1, <1>9, Zenon DEF StringOf, S!StringOf
<1> QED BY <1>1, <1>2, <1>3, <1>4, <1>5, <1>6, <1>7, <1>9, <1>10

-----------------------------------------------------------------------------
(* Literals and what they mean.                                            *)

Read == FileChar \cup {Garbled}

\* The literal of a line.
Literal(l) == [k \in DOMAIN l |-> EscapeToken(l[k])]

\* What escape writes says which character it stands for.
LEMMA TokenIs ==
  ASSUME NEW c \in FileChar
  PROVE  /\ EscapeToken(c) \in Token
         /\ EscapeToken(c)[2] = c
         /\ c \in Named \cup {NL} => EscapeToken(c) = <<"letter", c>>
         /\ c \in Printable => EscapeToken(c) = <<"plain", c>>
         /\ c \notin Named \cup {NL} /\ c \notin Printable => EscapeToken(c) = <<"hex", c>>
<1>1. CASE c \in Named \cup {NL}
  <2>1. c \notin Printable
    BY <1>1, LiteralAssumption DEF LiteralAssumption
  <2>2. EscapeToken(c) = <<"letter", c>>
    BY <1>1, <2>1, Zenon DEF EscapeToken
  <2> QED BY <1>1, <2>1, <2>2 DEF Token
<1>2. CASE c \in Printable
  <2>1. c \notin Named \cup {NL}
    BY <1>2, LiteralAssumption DEF LiteralAssumption
  <2>2. EscapeToken(c) = <<"plain", c>>
    BY <1>2, <2>1, Zenon DEF EscapeToken
  <2> QED BY <1>2, <2>1, <2>2 DEF Token
<1>3. CASE c \notin Named \cup {NL} /\ c \notin Printable
  <2>1. EscapeToken(c) = <<"hex", c>>
    BY <1>3, Zenon DEF EscapeToken
  <2> QED BY <1>3, <2>1 DEF Token
<1> QED BY <1>1, <1>2, <1>3

\* A literal has one token for each character.
LEMMA LiteralType ==
  ASSUME NEW l \in Seq(FileChar)
  PROVE  /\ Literal(l) \in Seq(Token)
         /\ Len(Literal(l)) = Len(l)
         /\ DOMAIN Literal(l) = 1 .. Len(l)
         /\ \A k \in 1 .. Len(l) : Literal(l)[k] = EscapeToken(l[k])
<1> DEFINE t == [k \in 1 .. Len(l) |-> EscapeToken(l[k])]
<1>1. Len(l) \in Nat /\ DOMAIN l = 1 .. Len(l)
  OBVIOUS
<1>2. t \in [1 .. Len(l) -> Token]
  <2> SUFFICES ASSUME NEW k \in 1 .. Len(l) PROVE EscapeToken(l[k]) \in Token
    OBVIOUS
  <2>1. l[k] \in FileChar
    OBVIOUS
  <2> QED BY <2>1, TokenIs
<1>3. Literal(l) = t
  BY <1>1 DEF Literal
<1>4. \A k \in 1 .. Len(l) : t[k] = EscapeToken(l[k])
  OBVIOUS
<1> HIDE DEF t
<1>5. t \in Seq(Token) /\ Len(t) = Len(l) /\ DOMAIN t = 1 .. Len(l)
  <2>1. t \in Seq(Token) /\ Len(t) = Len(l)
    BY <1>1, <1>2, FunctionIsSeq
  <2> QED BY <1>2, <2>1
<1> QED BY <1>3, <1>4, <1>5

\* A compiler reads one character for each token.
LEMMA MeaningType ==
  ASSUME NEW l \in Seq(Token)
  PROVE  Meaning(l) \in Seq(Read) /\ Len(Meaning(l)) = Len(l)
<1> DEFINE t == [k \in 1 .. Len(l) |-> IF Misread(l, k) THEN Garbled ELSE l[k][2]]
<1>1. Len(l) \in Nat /\ DOMAIN l = 1 .. Len(l)
  OBVIOUS
<1>2. t \in [1 .. Len(l) -> Read]
  <2> SUFFICES ASSUME NEW k \in 1 .. Len(l), ~Misread(l, k) PROVE l[k][2] \in Read
    BY DEF Read
  <2>1. l[k] \in Token
    OBVIOUS
  <2>2. l[k] \in {"plain", "letter", "hex"} \X FileChar
    BY <2>1 DEF Token
  <2> QED BY <2>2 DEF Read
<1>3. Meaning(l) = t
  BY <1>1 DEF Meaning
<1> HIDE DEF t
<1>4. t \in Seq(Read) /\ Len(t) = Len(l)
  BY <1>1, <1>2, FunctionIsSeq
<1> QED BY <1>3, <1>4

Literals == Seq(Seq(Token))

\* The string of well-typed literals is a text.
LEMMA StringOfType ==
  ASSUME NEW ls \in Literals
  PROVE  StringOf(ls) \in Seq(Read)
<1> DEFINE t == [k \in 1 .. Len(ls) |-> Meaning(ls[k])]
<1>1. Len(ls) \in Nat /\ DOMAIN ls = 1 .. Len(ls) /\ \A k \in 1 .. Len(ls) : ls[k] \in Seq(Token)
  BY DEF Literals
<1>2. t \in [1 .. Len(ls) -> Seq(Read)]
  BY <1>1, MeaningType
<1>3. StringOf(ls) = FlattenSeq(t)
  BY <1>1 DEF StringOf
<1> HIDE DEF t
<1>4. t \in Seq(Seq(Read))
  BY <1>1, <1>2, FunctionIsSeq
<1> QED BY <1>3, <1>4, FlattenType

\* No literals are the empty string.
LEMMA NoLiterals ==
  /\ <<>> \in Literals
  /\ StringOf(<<>>) = <<>>
<1>1. <<>> \in Literals
  BY EmptySeq DEF Literals
<1> DEFINE e == <<>>
           t == [k \in DOMAIN e |-> Meaning(e[k])]
<1>2. DOMAIN e = 1 .. 0
  OBVIOUS
<1>3. t \in [1 .. 0 -> Seq(Read)]
  BY <1>2
<1>4. StringOf(e) = FlattenSeq(t)
  BY DEF StringOf
<1> HIDE DEF t, e
<1>5. FlattenSeq(t) = <<>>
  BY <1>3, FlattenNone
<1>6. StringOf(e) = <<>>
  BY <1>4, <1>5
<1> QED BY <1>1, <1>6 DEF e

\* One literal more.
LEMMA StringOfMore ==
  ASSUME NEW ls \in Literals, NEW l \in Seq(Token)
  PROVE  /\ Append(ls, l) \in Literals
         /\ StringOf(Append(ls, l)) = StringOf(ls) \o Meaning(l)
<1> DEFINE n == Len(ls)
           more == Append(ls, l)
           f == [k \in 1 .. n + 1 |-> Meaning(more[k])]
           g == [k \in 1 .. n |-> Meaning(ls[k])]
           h == [k \in 1 .. n |-> f[k]]
<1>1. /\ n \in Nat /\ DOMAIN ls = 1 .. n
      /\ \A k \in 1 .. n : ls[k] \in Seq(Token)
  BY DEF Literals
<1>2. /\ more \in Literals /\ DOMAIN more = 1 .. n + 1
      /\ more[n + 1] = l
      /\ \A k \in 1 .. n : more[k] = ls[k]
  BY DEF Literals
<1>3. StringOf(ls) = FlattenSeq(g)
  BY <1>1 DEF StringOf
<1>4. StringOf(more) = FlattenSeq(f)
  BY <1>2 DEF StringOf
<1> HIDE DEF n, more
<1>5. \A k \in 1 .. n + 1 : f[k] = Meaning(more[k])
  OBVIOUS
<1>6. f[n + 1] = Meaning(l)
  BY <1>1, <1>2
<1>7. h = g
  BY <1>1, <1>2, <1>5
<1>8. f \in [1 .. n + 1 -> Seq(Read)]
  <2> SUFFICES ASSUME NEW k \in 1 .. n + 1 PROVE Meaning(more[k]) \in Seq(Read)
    OBVIOUS
  <2>1. k = n + 1 \/ k \in 1 .. n
    BY <1>1
  <2>2. more[k] \in Seq(Token)
    BY <1>1, <1>2, <2>1
  <2> QED BY <2>2, MeaningType
<1> HIDE DEF f, g
<1>9. FlattenSeq(f) = FlattenSeq(h) \o f[n + 1]
  BY <1>1, <1>8, FlattenGrows
<1> HIDE DEF h
<1>10. StringOf(more) = StringOf(ls) \o Meaning(l)
  BY <1>3, <1>4, <1>6, <1>7, <1>9
<1> QED BY <1>2, <1>10 DEF more

\* A text whose literal means what it says.
Clean(l) ==
  /\ l \in Seq(FileChar)
  /\ \A k \in 1 .. Len(l) :
        /\ l[k] \in TextChar \ Negative
        /\ l[k] \in Control /\ k < Len(l) => l[k + 1] \notin HexDigit

\* Nothing in the literal of a clean line is misread.
LEMMA CleanIsReadWell ==
  ASSUME NEW l, Clean(l), NEW k \in 1 .. Len(l)
  PROVE  ~Misread(Literal(l), k)
<1>1. /\ l \in Seq(FileChar) /\ l[k] \in FileChar
      /\ l[k] \in TextChar \ Negative
      /\ l[k] \in Control /\ k < Len(l) => l[k + 1] \notin HexDigit
  BY DEF Clean
<1>2. /\ Len(Literal(l)) = Len(l)
      /\ Literal(l)[k] = EscapeToken(l[k])
      /\ k < Len(l) => Literal(l)[k + 1] = EscapeToken(l[k + 1]) /\ l[k + 1] \in FileChar
  BY <1>1, LiteralType
<1>3. Literal(l)[k][2] = l[k]
  BY <1>1, <1>2, TokenIs
<1>4. Literal(l)[k] \notin {"hex"} \X Negative
  BY <1>1, <1>3
<1>5. ASSUME Literal(l)[k][1] = "hex", k < Len(l),
             Literal(l)[k + 1] \in {"plain"} \X HexDigit
      PROVE  FALSE
  <2>1. l[k] \notin Named \cup {NL} /\ l[k] \notin Printable
    BY <1>1, <1>2, <1>5, TokenIs
  <2>2. l[k] \in Control
    BY <1>1, <2>1 DEF TextChar
  <2>3. Literal(l)[k + 1][2] = l[k + 1]
    BY <1>2, <1>5, TokenIs
  <2> QED BY <1>1, <1>5, <2>2, <2>3
<1>6. Literal(l)[k] # <<"plain", NL>>
  <2> SUFFICES ASSUME Literal(l)[k] = <<"plain", NL>> PROVE FALSE
    OBVIOUS
  <2>1. l[k] = NL
    BY <1>3
  <2>2. EscapeToken(l[k]) = <<"letter", l[k]>>
    BY <1>1, <2>1, TokenIs
  <2> QED BY <1>2, <2>2
<1> QED BY <1>2, <1>4, <1>5, <1>6 DEF Misread

\* The literal of a clean line means the line.
LEMMA CleanMeans ==
  ASSUME NEW l, Clean(l)
  PROVE  Meaning(Literal(l)) = l
<1>1. l \in Seq(FileChar)
  BY DEF Clean
<1>2. DOMAIN l = 1 .. Len(l) /\ l = [k \in DOMAIN l |-> l[k]]
  BY <1>1
<1>3. /\ DOMAIN Literal(l) = 1 .. Len(l)
      /\ \A k \in 1 .. Len(l) : Literal(l)[k][2] = l[k]
  <2>1. \A k \in 1 .. Len(l) : l[k] \in FileChar
    BY <1>1
  <2> QED BY <1>1, <2>1, LiteralType, TokenIs
<1>4. \A k \in 1 .. Len(l) : ~Misread(Literal(l), k)
  BY CleanIsReadWell
<1>5. Meaning(Literal(l)) = [k \in 1 .. Len(l) |-> l[k]]
  BY <1>3, <1>4 DEF Meaning
<1> QED BY <1>2, <1>5

-----------------------------------------------------------------------------
(* What fgets reads.                                                       *)

\* The first element of a set of numbers.
LEMMA FirstIs ==
  ASSUME NEW T \in SUBSET Nat, T # {}
  PROVE  /\ (CHOOSE k \in T : \A l \in T : k <= l) \in T
         /\ \A l \in T : (CHOOSE k \in T : \A m \in T : k <= m) <= l
BY LeastNatural

\* A part of a text.
LEMMA PartIs ==
  ASSUME NEW X, NEW s \in Seq(X), NEW m \in Nat, NEW n \in Nat, m <= n, n <= Len(s)
  PROVE  /\ SubSeq(s, m + 1, n) \in Seq(X)
         /\ Len(SubSeq(s, m + 1, n)) = n - m
         /\ \A k \in 1 .. n - m : SubSeq(s, m + 1, n)[k] = s[m + k]
<1>1. \A j \in m + 1 .. n : s[j] \in X
  OBVIOUS
<1>2. /\ SubSeq(s, m + 1, n) \in Seq(X)
      /\ Len(SubSeq(s, m + 1, n)) = IF m + 1 <= n THEN n - (m + 1) + 1 ELSE 0
      /\ \A k \in 1 .. n - (m + 1) + 1 : SubSeq(s, m + 1, n)[k] = s[m + 1 + k - 1]
  BY <1>1, SubSeqProperties
<1> QED BY <1>2

\* The first n characters of a text.
LEMMA StartIs ==
  ASSUME NEW X, NEW s \in Seq(X), NEW n \in Nat, n <= Len(s)
  PROVE  /\ SubSeq(s, 1, n) \in Seq(X)
         /\ Len(SubSeq(s, 1, n)) = n
         /\ \A k \in 1 .. n : SubSeq(s, 1, n)[k] = s[k]
<1>1. \A j \in 1 .. n : s[j] \in X
  OBVIOUS
<1>2. /\ SubSeq(s, 1, n) \in Seq(X)
      /\ Len(SubSeq(s, 1, n)) = IF 1 <= n THEN n - 1 + 1 ELSE 0
      /\ \A k \in 1 .. n - 1 + 1 : SubSeq(s, 1, n)[k] = s[1 + k - 1]
  BY <1>1, SubSeqProperties
<1> QED BY <1>2

\* fgets reads to a line break, to the end of the file or to that of buf.
LEMMA ChunkIs ==
  ASSUME file \in Seq(FileChar), pos \in 0 .. Len(file), S!Rest # <<>>
  PROVE  \E n \in 1 .. BufSize - 1 :
           /\ n <= Len(file) - pos
           /\ S!Chunk \in Seq(FileChar)
           /\ Len(S!Chunk) = n
           /\ \A k \in 1 .. n : S!Chunk[k] = file[pos + k]
           /\ \A k \in 1 .. n - 1 : S!Chunk[k] # NL
           /\ n = Len(file) - pos \/ n = BufSize - 1 \/ S!Chunk[n] = NL
<1>1. BufSize \in Nat /\ BufSize >= 2
  BY EmbeddingAssumption DEF EmbeddingAssumption
<1> DEFINE r == S!Rest
           m == S!Lesser(BufSize - 1, Len(r))
           s == SubSeq(r, 1, m)
           T == {k \in DOMAIN s : s[k] = NL}
           first == CHOOSE k \in T : \A l \in T : k <= l
           n == IF T = {} THEN m ELSE first
           c == S!Chunk
<1>2. /\ r \in Seq(FileChar) /\ Len(r) = Len(file) - pos
      /\ \A k \in 1 .. Len(r) : r[k] = file[pos + k]
      /\ Len(file) \in Nat /\ pos \in Nat
  BY PartIs DEF S!Rest
<1> HIDE DEF r
<1>3. r # <<>> /\ Len(r) >= 1 /\ Len(r) \in Nat
  <2>1. r # <<>>
    BY DEF r
  <2> QED BY <1>2, <2>1
<1>4. m \in Nat /\ 1 <= m /\ m <= Len(r) /\ m <= BufSize - 1 /\ (m = Len(r) \/ m = BufSize - 1)
  BY <1>1, <1>3 DEF S!Lesser
<1> HIDE DEF m
<1>5. /\ s \in Seq(FileChar) /\ Len(s) = m
      /\ \A k \in 1 .. m : s[k] = r[k]
  BY <1>2, <1>4, StartIs
<1>6. c = IF T = {} THEN s ELSE SubSeq(s, 1, first)
  <2>1. S!NL = NL
    BY SameNames
  <2> QED BY <2>1 DEF S!Chunk, r, m
<1> HIDE DEF s, c
<1>7. DOMAIN s = 1 .. m
  BY <1>5
<1>8. /\ n \in 1 .. m
      /\ c \in Seq(FileChar) /\ Len(c) = n
      /\ \A k \in 1 .. n : c[k] = s[k]
      /\ \A k \in 1 .. n - 1 : s[k] # NL
      /\ n = m \/ s[n] = NL
  <2>1. CASE T = {}
    <3>1. \A k \in 1 .. m : s[k] # NL
      BY <1>7, <2>1
    <3> QED BY <1>4, <1>5, <1>6, <2>1, <3>1
  <2>2. CASE T # {}
    <3>1. T \in SUBSET Nat
      BY <1>7
    <3>2. first \in T /\ \A l \in T : first <= l
      <4> HIDE DEF T
      <4> QED BY <2>2, <3>1, FirstIs
    <3>3. first \in 1 .. m /\ s[first] = NL
      BY <1>7, <3>2
    <3> HIDE DEF first
    <3>4. \A k \in 1 .. first - 1 : s[k] # NL
      <4> SUFFICES ASSUME NEW k \in 1 .. first - 1, s[k] = NL PROVE FALSE
        OBVIOUS
      <4>1. k \in T
        BY <1>4, <1>7, <3>3
      <4> QED BY <3>2, <3>3, <4>1
    <3>5. c = SubSeq(s, 1, first) /\ n = first
      BY <1>6, <2>2
    <3>6. /\ SubSeq(s, 1, first) \in Seq(FileChar) /\ Len(SubSeq(s, 1, first)) = first
          /\ \A k \in 1 .. first : SubSeq(s, 1, first)[k] = s[k]
      BY <1>5, <3>3, StartIs
    <3> QED BY <3>3, <3>4, <3>5, <3>6
  <2> QED BY <2>1, <2>2
<1> HIDE DEF n, T
<1>9. /\ n \in 1 .. BufSize - 1 /\ n <= Len(file) - pos
      /\ \A k \in 1 .. n : c[k] = file[pos + k]
      /\ \A k \in 1 .. n - 1 : c[k] # NL
      /\ n = Len(file) - pos \/ n = BufSize - 1 \/ c[n] = NL
  <2>1. \A k \in 1 .. n : c[k] = s[k] /\ s[k] = r[k] /\ r[k] = file[pos + k]
    BY <1>2, <1>4, <1>5, <1>8
  <2>2. n \in Nat /\ n <= m /\ n \in 1 .. n
    BY <1>8
  <2>3. n \in 1 .. BufSize - 1 /\ n <= Len(file) - pos
    BY <1>1, <1>2, <1>4, <1>8
  <2>4. \A k \in 1 .. n - 1 : c[k] # NL
    BY <1>8, <2>1, <2>2
  <2>5. n = Len(file) - pos \/ n = BufSize - 1 \/ c[n] = NL
    BY <1>2, <1>4, <1>8, <2>1, <2>2
  <2> QED BY <2>1, <2>3, <2>4, <2>5
<1> QED BY <1>8, <1>9 DEF c

\* What of it is in buf: all of it, if it has no NUL.
LEMMA CStringIs ==
  ASSUME NEW s \in Seq(FileChar)
  PROVE  \E n \in 0 .. Len(s) :
           /\ S!CString(s) \in Seq(FileChar)
           /\ Len(S!CString(s)) = n
           /\ \A k \in 1 .. n : S!CString(s)[k] = s[k]
           /\ (\A k \in 1 .. Len(s) : s[k] # NUL) => S!CString(s) = s
<1> DEFINE T == {k \in DOMAIN s : s[k] = NUL}
           first == CHOOSE k \in T : \A l \in T : k <= l
           c == S!CString(s)
<1>1. DOMAIN s = 1 .. Len(s) /\ Len(s) \in Nat
  OBVIOUS
<1>2. c = IF T = {} THEN s ELSE SubSeq(s, 1, first - 1)
  <2>1. S!NUL = NUL
    BY SameNames
  <2> QED BY <2>1 DEF S!CString
<1> HIDE DEF c
<1>3. CASE T = {}
  <2>1. c = s /\ Len(s) \in 0 .. Len(s)
    BY <1>1, <1>2, <1>3
  <2>2. c \in Seq(FileChar) /\ Len(c) = Len(s) /\ \A k \in 1 .. Len(s) : c[k] = s[k]
    BY <2>1
  <2> QED BY <2>1, <2>2 DEF c
<1>4. CASE T # {}
  <2>1. T \in SUBSET Nat
    BY <1>1
  <2>2. first \in T
    <3> HIDE DEF T
    <3> QED BY <1>4, <2>1, FirstIs
  <2>3. first \in 1 .. Len(s) /\ s[first] = NUL
    BY <1>1, <2>2
  <2> HIDE DEF first
  <2> DEFINE n == first - 1
  <2>4. n \in 0 .. Len(s) /\ n \in Nat /\ n <= Len(s)
    BY <1>1, <2>3
  <2>5. c = SubSeq(s, 1, n)
    BY <1>2, <1>4
  <2> HIDE DEF n
  <2>6. /\ c \in Seq(FileChar) /\ Len(c) = n
        /\ \A k \in 1 .. n : c[k] = s[k]
    BY <2>4, <2>5, StartIs
  <2> QED BY <2>3, <2>4, <2>6 DEF c
<1> QED BY <1>3, <1>4

-----------------------------------------------------------------------------
(* The inductive invariant of stringify.                                   *)

Working == pc \in {"main", "getline", "return"}

ReadingOK ==
  /\ file \in Files
  /\ pos \in 0 .. Len(file)
  /\ buf \in Seq(Read)
  /\ Len(buf) < BufSize
  /\ pc \in {"main", "getline", "return", "done", "failed", "aborted"}
  /\ line \in Seq(Read)
  /\ Working => line \in Seq(FileChar)
  /\ cpp \in Literals

\* A line break ends the line and is nowhere else in it.
OneLine(l) ==
  /\ l \in Seq(FileChar)
  /\ Len(l) >= 1
  /\ l[Len(l)] = NL
  /\ \A k \in 1 .. Len(l) - 1 : l[k] # NL

\* Every literal is one of a line, and so will be the one of the line in hand.
LinesOK ==
  /\ pc = "main" => line = <<>>
  /\ pc = "getline" => \A k \in 1 .. Len(line) : line[k] # NL
  /\ pc = "return" => OneLine(line)
  /\ \A k \in 1 .. Len(cpp) : \E l : OneLine(l) /\ cpp[k] = Literal(l)

\* The first n characters of the file.
IsStart(t, n) ==
  /\ t \in Seq(Read)
  /\ Len(t) = n
  /\ \A k \in 1 .. n : t[k] = file[k]

Written == StringOf(cpp)

TextOK ==
  /\ Working => Len(Written) + Len(line) <= pos
  /\ Len(Written) <= Len(file)
  /\ S!Ordinary =>
       /\ Working => IsStart(Written \o line, pos)
       /\ Written # <<>> => Written[Len(Written)] = NL
       /\ pc = "done" => Written = SubSeq(file, 1, S!LastBreak)

SInv == ReadingOK /\ LinesOK /\ TextOK

\* The file that is read is one of the files.
LEMMA FilesAre ==
  ASSUME ReadingOK
  PROVE  file \in Seq(FileChar) /\ Len(file) \in Nat /\ file \in Seq(Read)
<1>1. file \in Seq(FileChar)
  BY EmbeddingAssumption DEF EmbeddingAssumption, ReadingOK
<1> QED BY <1>1 DEF Read

\* Only one text is the start of the file.
LEMMA StartEquals ==
  ASSUME file \in Seq(Read), NEW n \in Nat, n <= Len(file), NEW t, IsStart(t, n)
  PROVE  t = SubSeq(file, 1, n)
<1> DEFINE u == SubSeq(file, 1, n)
<1>1. /\ u \in Seq(Read) /\ Len(u) = n
      /\ \A k \in 1 .. n : u[k] = file[k]
  BY StartIs
<1>2. /\ t \in Seq(Read) /\ Len(t) = n
      /\ \A k \in 1 .. n : t[k] = file[k]
  BY DEF IsStart
<1> HIDE DEF u
<1>3. t = u
  BY <1>1, <1>2, SeqEqual
<1> QED BY <1>3 DEF u

\* The string written so far is a text.
LEMMA WrittenIs ==
  ASSUME ReadingOK
  PROVE  Written \in Seq(Read) /\ Len(Written) \in Nat
<1>1. Written \in Seq(Read)
  BY StringOfType DEF ReadingOK, Written
<1> QED BY <1>1

\* In an ordinary file the line in hand means what it says.
LEMMA LineIsClean ==
  ASSUME ReadingOK, TextOK, S!Ordinary, pc = "return"
  PROVE  Clean(line)
<1> DEFINE w == Written
           n == Len(w)
<1>1. /\ line \in Seq(FileChar) /\ pos \in 0 .. Len(file)
      /\ IsStart(w \o line, pos)
  BY DEF ReadingOK, TextOK, Working
<1>2. /\ w \in Seq(Read) /\ n \in Nat /\ line \in Seq(Read)
      /\ file \in Seq(FileChar) /\ Len(file) \in Nat
  BY FilesAre, WrittenIs DEF ReadingOK
<1>3. \A k \in 1 .. Len(file) :
        /\ file[k] \in TextChar \ Negative
        /\ file[k] \in Control /\ k < Len(file) => file[k + 1] \notin HexDigit
  BY <1>2, SameNames DEF S!Ordinary
<1> HIDE DEF w
<1>4. /\ n + Len(line) = pos
      /\ \A k \in 1 .. Len(line) : line[k] = file[n + k]
  <2>1. /\ Len(w \o line) = n + Len(line)
        /\ \A k \in 1 .. Len(line) : (w \o line)[n + k] = line[k]
    BY <1>2, ConcatAt
  <2>2. n + Len(line) = pos
    BY <1>1, <2>1 DEF IsStart
  <2>3. \A k \in 1 .. Len(line) : (w \o line)[n + k] = file[n + k]
    BY <1>1, <1>2, <2>2, SMTT(30) DEF IsStart
  <2> QED BY <2>1, <2>2, <2>3
<1> HIDE DEF n
<1>5. ASSUME NEW k \in 1 .. Len(line)
      PROVE  /\ line[k] \in TextChar \ Negative
             /\ line[k] \in Control /\ k < Len(line) => line[k + 1] \notin HexDigit
  <2>1. n + k \in 1 .. Len(file) /\ line[k] = file[n + k]
    BY <1>1, <1>2, <1>4
  <2>2. line[k] \in TextChar \ Negative
    BY <1>3, <2>1
  <2>3. ASSUME line[k] \in Control, k < Len(line)
        PROVE  line[k + 1] \notin HexDigit
    <3>1. k + 1 \in 1 .. Len(line) /\ n + k < Len(file) /\ n + (k + 1) = (n + k) + 1
      BY <1>1, <1>2, <1>4, <2>3
    <3>2. line[k + 1] = file[(n + k) + 1]
      BY <1>4, <3>1
    <3> QED BY <1>3, <2>1, <2>3, <3>1, <3>2
  <2> QED BY <2>2, <2>3
<1> QED BY <1>1, <1>5 DEF Clean

\* Nothing has been read or written yet.
LEMMA SInvAtStart ==
  ASSUME S!Init
  PROVE  SInv
<1>1. /\ file \in Files /\ pos = 0 /\ buf = <<>> /\ line = <<>> /\ cpp = <<>> /\ pc = "main"
  BY DEF S!Init
<1>2. BufSize \in Nat /\ BufSize >= 2 /\ file \in Seq(FileChar)
  BY <1>1, EmbeddingAssumption DEF EmbeddingAssumption
<1>3. Len(file) \in Nat
  BY <1>2
<1>4. <<>> \in Seq(Read) /\ <<>> \in Seq(FileChar) /\ <<>> \in Literals /\ Len(<<>>) = 0
  BY NoLiterals
<1>5. ReadingOK
  BY <1>1, <1>2, <1>3, <1>4 DEF ReadingOK
<1>6. LinesOK
  BY <1>1, <1>4 DEF LinesOK
<1>7. Written = <<>>
  BY <1>1, NoLiterals DEF Written
<1>8. IsStart(<<>> \o <<>>, 0)
  BY <1>4 DEF IsStart
<1>9. TextOK
  BY <1>1, <1>3, <1>4, <1>7, <1>8 DEF TextOK
<1> QED BY <1>5, <1>6, <1>9 DEF SInv

\* Steps that leave the text alone.
LEMMA WrittenStays ==
  ASSUME UNCHANGED <<file, cpp>>
  PROVE  /\ Written' = Written
         /\ S!Ordinary' = S!Ordinary
         /\ S!LastBreak' = S!LastBreak
         /\ \A t, n : IsStart(t, n)' <=> IsStart(t, n)
<1>1. Written' = Written
  BY DEF Written
<1>2. S!Ordinary' = S!Ordinary
  BY DEF S!Ordinary
<1>3. S!LastBreak' = S!LastBreak
  <2> DEFINE B == {k \in DOMAIN file : file[k] = S!NL}
             last == CHOOSE k \in B : \A l \in B : l <= k
  <2>1. B' = B
    OBVIOUS
  <2>2. S!LastBreak = IF B = {} THEN 0 ELSE last
    BY Zenon DEF S!LastBreak
  <2>3. S!LastBreak' = IF B' = {} THEN 0 ELSE last'
    BY Zenon DEF S!LastBreak
  <2>4. last' = last
    <3> HIDE DEF B
    <3> QED BY <2>1, Zenon
  <2> HIDE DEF B, last
  <2> QED BY <2>1, <2>2, <2>3, <2>4
<1>4. \A t, n : IsStart(t, n)' <=> IsStart(t, n)
  BY DEF IsStart
<1> QED BY <1>1, <1>2, <1>3, <1>4

\* getline is called: only buf changes.
LEMMA CallKeeps ==
  ASSUME SInv, S!Call
  PROVE  SInv'
<1> USE DEF SInv
<1>1. /\ pc = "main" /\ pc' = "getline" /\ buf' \in {<<>>, <<Garbled>>}
      /\ UNCHANGED <<file, pos, line, cpp>>
  BY SameNames DEF S!Call
<1>2. Garbled \in Read /\ BufSize \in Nat /\ BufSize >= 2
  BY EmbeddingAssumption DEF EmbeddingAssumption, Read
<1>3. buf' \in Seq(Read) /\ Len(buf') < BufSize
  <2> DEFINE g == Garbled
  <2>1. g \in Read
    BY <1>2
  <2> HIDE DEF g
  <2>2. /\ <<>> \in Seq(Read) /\ Len(<<>>) = 0
        /\ <<g>> \in Seq(Read) /\ Len(<<g>>) = 1
    BY <2>1
  <2>3. buf' = <<>> \/ buf' = <<g>>
    BY <1>1 DEF g
  <2>4. CASE buf' = <<>>
    BY <1>2, <2>2, <2>4
  <2>5. CASE buf' = <<g>>
    BY <1>2, <2>2, <2>5
  <2> QED BY <2>3, <2>4, <2>5
<1>4. ReadingOK'
  BY <1>1, <1>3 DEF ReadingOK, Working
<1>5. LinesOK'
  <2>1. \A k \in 1 .. Len(line') : line'[k] # NL
    BY <1>1 DEF LinesOK
  <2> QED BY <1>1, <2>1 DEF LinesOK
<1>6. TextOK'
  BY <1>1, WrittenStays DEF TextOK, Working
<1> QED BY <1>4, <1>5, <1>6

\* The program ends; what was written stays.
LEMMA EndingKeepsText ==
  ASSUME SInv, UNCHANGED <<file, pos, buf, line, cpp>>, pc' \in {"failed", "aborted"}
  PROVE  SInv'
<1>1. ReadingOK'
  BY DEF SInv, ReadingOK, Working
<1>2. LinesOK'
  BY DEF SInv, LinesOK
<1>3. TextOK'
  BY WrittenStays DEF SInv, TextOK, Working
<1> QED BY <1>1, <1>2, <1>3 DEF SInv

\* A failed assert or read leaves the texts alone.
LEMMA EndsAreKept ==
  ASSUME SInv, S!BackFails \/ S!ReadError
  PROVE  SInv'
BY EndingKeepsText DEF S!BackFails, S!ReadError

\* A chunk of fgets goes to the end of the line in hand.
LEMMA ReadChunkKeeps ==
  ASSUME SInv, S!ReadChunk
  PROVE  SInv'
<1> DEFINE c == S!Chunk
           b == S!CString(c)
           w == Written
<1>1. /\ pc = "getline" /\ S!Rest # <<>> /\ b # <<>>
      /\ pos' = pos + Len(c) /\ buf' = b /\ line' = line \o b
      /\ pc' = IF b[Len(b)] = NL THEN "return" ELSE "getline"
      /\ UNCHANGED <<file, cpp>>
  BY SameNames DEF S!ReadChunk, Last
<1>2. /\ file \in Seq(FileChar) /\ Len(file) \in Nat /\ pos \in 0 .. Len(file)
      /\ line \in Seq(FileChar) /\ w \in Seq(Read) /\ Len(w) \in Nat
      /\ Len(w) + Len(line) <= pos
      /\ \A k \in 1 .. Len(line) : line[k] # NL
  BY <1>1, FilesAre, WrittenIs DEF SInv, ReadingOK, LinesOK, TextOK, Working
<1>3. PICK n \in 1 .. BufSize - 1 :
           /\ n <= Len(file) - pos
           /\ c \in Seq(FileChar)
           /\ Len(c) = n
           /\ \A k \in 1 .. n : c[k] = file[pos + k]
           /\ \A k \in 1 .. n - 1 : c[k] # NL
  BY <1>1, <1>2, ChunkIs
<1>4. BufSize \in Nat /\ BufSize >= 2
  BY EmbeddingAssumption DEF EmbeddingAssumption
<1> HIDE DEF c
<1>5. PICK m \in 0 .. Len(c) :
           /\ b \in Seq(FileChar)
           /\ Len(b) = m
           /\ \A k \in 1 .. m : b[k] = c[k]
           /\ (\A k \in 1 .. Len(c) : c[k] # NUL) => b = c
  BY <1>3, CStringIs
<1> HIDE DEF b, w
<1>6. m \in 1 .. n
  <2>1. b # <<>> /\ Len(b) = m /\ b \in Seq(FileChar) /\ m \in Nat
    BY <1>1, <1>3, <1>5
  <2>2. m # 0
    BY <2>1
  <2> QED BY <1>3, <1>5, <2>1, <2>2
<1> DEFINE l == line \o b
<1>7. /\ l \in Seq(FileChar) /\ Len(l) = Len(line) + m /\ Len(line) \in Nat
      /\ \A k \in 1 .. Len(line) : l[k] = line[k]
      /\ \A k \in 1 .. m : l[Len(line) + k] = b[k]
  <2>1. Len(line) \in Nat
    BY <1>2
  <2>2. /\ \A k \in 1 .. Len(line) : l[k] = line[k]
        /\ \A k \in 1 .. Len(b) : l[Len(line) + k] = b[k]
    BY <1>2, <1>5, <2>1, ConcatAt
  <2>3. l \in Seq(FileChar) /\ Len(l) = Len(line) + Len(b)
    BY <1>2, <1>5, ConcatProperties
  <2> QED BY <1>5, <2>1, <2>2, <2>3
<1>8. line' = l
  BY <1>1
<1> HIDE DEF l
<1>9. ReadingOK'
  <2>1. FileChar \subseteq Read
    BY DEF Read
  <2>2. b \in Seq(Read) /\ l \in Seq(Read)
    BY <1>5, <1>7, <2>1
  <2>3. pos' \in 0 .. Len(file) /\ Len(b) < BufSize
    BY <1>1, <1>2, <1>3, <1>4, <1>5, <1>6
  <2> QED BY <1>1, <1>7, <1>8, <2>2, <2>3 DEF SInv, ReadingOK
<1>10. \A k \in 1 .. Len(l) - 1 : l[k] # NL
  <2> SUFFICES ASSUME NEW k \in 1 .. Len(l) - 1 PROVE l[k] # NL
    OBVIOUS
  <2>1. CASE k \in 1 .. Len(line)
    BY <1>2, <1>7, <2>1
  <2>2. CASE k \notin 1 .. Len(line)
    <3> DEFINE j == k - Len(line)
    <3>1. j \in 1 .. m /\ j \in 1 .. n - 1 /\ k = Len(line) + j
      BY <1>3, <1>6, <1>7, <2>2
    <3> HIDE DEF j
    <3> QED BY <1>3, <1>5, <1>7, <3>1
  <2> QED BY <2>1, <2>2
<1>11. l[Len(l)] = b[Len(b)] /\ Len(l) >= 1 /\ Len(l) \in Nat
  BY <1>5, <1>6, <1>7
<1>12. LinesOK'
  <2>1. CASE b[Len(b)] = NL
    <3>1. OneLine(l)
      BY <1>7, <1>10, <1>11, <2>1 DEF OneLine
    <3> QED BY <1>1, <1>8, <2>1, <3>1 DEF SInv, LinesOK
  <2>2. CASE b[Len(b)] # NL
    <3>1. \A k \in 1 .. Len(l) : l[k] # NL
      BY <1>10, <1>11, <2>2
    <3> QED BY <1>1, <1>8, <2>2, <3>1 DEF SInv, LinesOK
  <2> QED BY <2>1, <2>2
<1>13. ASSUME S!Ordinary
       PROVE  IsStart(w \o l, pos')
  <2>1. b = c
    <3>1. \A k \in 1 .. Len(file) : file[k] # NUL
      <4>1. \A k \in 1 .. Len(file) : file[k] \in TextChar
        BY <1>2, <1>13, SameNames DEF S!Ordinary
      <4>2. NUL \notin TextChar
        BY LiteralAssumption DEF LiteralAssumption, TextChar
      <4> QED BY <4>1, <4>2
    <3>2. \A k \in 1 .. Len(c) : c[k] # NUL
      <4>1. \A k \in 1 .. n : pos + k \in 1 .. Len(file)
        BY <1>2, <1>3
      <4> QED BY <1>3, <3>1, <4>1
    <3> QED BY <1>5, <3>2
  <2>2. m = n
    BY <1>3, <1>5, <2>1
  <2>3. IsStart(w \o line, pos)
    BY <1>1, <1>13 DEF SInv, TextOK, Working, w
  <2> DEFINE v == w \o line
  <2>4. v \in Seq(Read) /\ Len(v) = pos /\ \A k \in 1 .. pos : v[k] = file[k]
    BY <2>3 DEF IsStart
  <2>5. w \o l = v \o b
    <3>1. ConcatAssociates(Read)
      BY Associative
    <3>2. w \in Seq(Read) /\ line \in Seq(Read) /\ b \in Seq(Read)
      BY <1>2, <1>5 DEF Read
    <3> QED BY <3>1, <3>2, Zenon DEF ConcatAssociates, l
  <2> HIDE DEF v
  <2>6. /\ v \o b \in Seq(Read) /\ Len(v \o b) = pos + n
        /\ \A k \in 1 .. pos : (v \o b)[k] = v[k]
        /\ \A k \in pos + 1 .. pos + n : (v \o b)[k] = b[k - pos]
    <3>1. b \in Seq(Read)
      BY <1>5 DEF Read
    <3>2. v \o b \in Seq(Read) /\ Len(v \o b) = pos + n
      <4>1. v \o b \in Seq(Read) /\ Len(v \o b) = Len(v) + Len(b)
        BY <2>4, <3>1, ConcatProperties
      <4>2. Len(b) = n /\ Len(v) = pos
        BY <1>5, <2>2, <2>4
      <4> QED BY <4>1, <4>2
    <3>3. pos \in Nat
      BY <1>2
    <3>4. /\ \A k \in 1 .. pos : (v \o b)[k] = v[k]
          /\ \A k \in pos + 1 .. pos + Len(b) : (v \o b)[k] = b[k - pos]
      BY <2>4, <3>1, <3>3, ConcatAt
    <3> QED BY <1>5, <2>2, <3>2, <3>4
  <2>7. \A k \in pos + 1 .. pos + n : b[k - pos] = file[k]
    <3> SUFFICES ASSUME NEW k \in pos + 1 .. pos + n PROVE b[k - pos] = file[k]
      OBVIOUS
    <3> DEFINE j == k - pos
    <3>1. j \in 1 .. n /\ pos + j = k
      BY <1>2, <1>3
    <3> HIDE DEF j
    <3> QED BY <1>3, <2>1, <3>1 DEF j
  <2>8. \A k \in 1 .. pos + n : (v \o b)[k] = file[k]
    <3>1. \A k \in 1 .. pos + n : k \in 1 .. pos \/ k \in pos + 1 .. pos + n
      BY <1>2
    <3> QED BY <2>4, <2>6, <2>7, <3>1
  <2> QED BY <1>1, <1>3, <2>5, <2>6, <2>8 DEF IsStart
<1>14. TextOK'
  <2>1. Len(w) + Len(l) <= pos'
    BY <1>1, <1>2, <1>3, <1>6, <1>7
  <2>2. pc' \in {"getline", "return"}
    BY <1>1
  <2>3. Written' = w /\ S!Ordinary' = S!Ordinary
    BY <1>1, WrittenStays DEF w
  <2>4. (Written \o line)' = w \o l
    BY <1>8, <2>3
  <2>5. ASSUME S!Ordinary
        PROVE  IsStart(Written \o line, pos)'
    <3>1. IsStart(w \o l, pos')
      BY <1>13, <2>5
    <3> HIDE DEF w, l
    <3> QED BY <1>1, <2>4, <3>1 DEF IsStart
  <2>6. (Working => Len(Written) + Len(line) <= pos)'
    BY <1>8, <2>1, <2>3
  <2>7. (Len(Written) <= Len(file))'
    BY <1>1, <2>3 DEF SInv, TextOK, w
  <2>8. (Written # <<>> => Written[Len(Written)] = NL)' \/ ~S!Ordinary
    BY <2>3 DEF SInv, TextOK, w
  <2> QED BY <2>2, <2>3, <2>5, <2>6, <2>7, <2>8 DEF TextOK
<1> QED BY <1>9, <1>12, <1>14 DEF SInv

\* A line break after which there is none is the last one.
LEMMA LastBreakIs ==
  ASSUME file \in Seq(FileChar), NEW n \in 0 .. Len(file),
         n # 0 => file[n] = NL,
         \A k \in n + 1 .. Len(file) : file[k] # NL
  PROVE  S!LastBreak = n
<1> DEFINE B == {k \in DOMAIN file : file[k] = S!NL}
           last == CHOOSE k \in B : \A l \in B : l <= k
<1>1. S!LastBreak = IF B = {} THEN 0 ELSE last
  BY Zenon DEF S!LastBreak
<1>2. DOMAIN file = 1 .. Len(file) /\ Len(file) \in Nat /\ S!NL = NL
  BY SameNames
<1>3. \A l \in B : l <= n /\ l \in Nat /\ l >= 1
  BY <1>2
<1>4. CASE n = 0
  <2>1. B = {}
    BY <1>3, <1>4
  <2> QED BY <1>1, <1>4, <2>1
<1>5. CASE n # 0
  <2>1. n \in B
    BY <1>2, <1>5
  <2> HIDE DEF B
  <2>2. last \in B /\ \A l \in B : l <= last
    BY <1>3, <2>1
  <2>3. last = n
    <3> HIDE DEF last
    <3>1. last \in Nat /\ last <= n /\ n <= last
      BY <1>3, <2>1, <2>2
    <3> QED BY <3>1
  <2> QED BY <1>1, <2>1, <2>3
<1> QED BY <1>4, <1>5

\* At the end of the file, what is written has all lines that end with a break.
LEMMA ReadEndKeeps ==
  ASSUME SInv, S!ReadEnd
  PROVE  SInv'
<1> DEFINE w == Written
<1>1. /\ pc = "getline" /\ S!Rest = <<>> /\ line' = line \o buf /\ pc' = "done"
      /\ UNCHANGED <<file, pos, buf, cpp>>
  BY DEF S!ReadEnd
<1>2. /\ file \in Seq(FileChar) /\ Len(file) \in Nat /\ pos \in 0 .. Len(file)
      /\ line \in Seq(Read) /\ buf \in Seq(Read)
      /\ w \in Seq(Read) /\ Len(w) \in Nat /\ Len(w) <= Len(file)
      /\ \A k \in 1 .. Len(line) : line[k] # NL
  BY <1>1, FilesAre, WrittenIs DEF SInv, ReadingOK, LinesOK, TextOK
<1>3. pos = Len(file)
  <2>1. Len(S!Rest) = Len(file) - pos
    BY <1>2, PartIs DEF S!Rest
  <2>2. Len(S!Rest) = 0
    BY <1>1
  <2> QED BY <1>2, <2>1, <2>2
<1>4. line' \in Seq(Read)
  BY <1>1, <1>2, ConcatProperties
<1>5. ReadingOK'
  BY <1>1, <1>4 DEF SInv, ReadingOK, Working
<1>6. LinesOK'
  BY <1>1 DEF SInv, LinesOK
<1> HIDE DEF w
<1>7. ASSUME S!Ordinary
      PROVE  w = SubSeq(file, 1, S!LastBreak)
  <2> DEFINE n == Len(w)
  <2>1. /\ IsStart(w \o line, pos)
        /\ w # <<>> => w[Len(w)] = NL
    BY <1>1, <1>7 DEF SInv, TextOK, Working, w
  <2>2. n \in Nat /\ w \in Seq(Read) /\ Len(line) \in Nat
    BY <1>2
  <2>3. /\ Len(w \o line) = n + Len(line)
        /\ \A k \in 1 .. n : (w \o line)[k] = w[k]
        /\ \A k \in 1 .. Len(line) : (w \o line)[n + k] = line[k]
    BY <1>2, <2>2, ConcatAt
  <2> HIDE DEF n
  <2>4. n + Len(line) = Len(file)
    BY <1>3, <2>1, <2>3 DEF IsStart
  <2>5. /\ \A k \in 1 .. n : w[k] = file[k]
        /\ \A k \in 1 .. Len(line) : file[n + k] = line[k]
    <3>1. \A k \in 1 .. Len(file) : (w \o line)[k] = file[k]
      BY <1>3, <2>1 DEF IsStart
    <3>2. /\ \A k \in 1 .. n : k \in 1 .. Len(file)
          /\ \A k \in 1 .. Len(line) : n + k \in 1 .. Len(file)
      BY <1>2, <2>2, <2>4
    <3> QED BY <2>3, <3>1, <3>2
  <2>6. \A k \in n + 1 .. Len(file) : file[k] # NL
    <3> SUFFICES ASSUME NEW k \in n + 1 .. Len(file) PROVE file[k] # NL
      OBVIOUS
    <3> DEFINE j == k - n
    <3>1. j \in 1 .. Len(line) /\ n + j = k
      BY <2>2, <2>4
    <3> HIDE DEF j
    <3> QED BY <1>2, <2>5, <3>1
  <2>7. n # 0 => file[n] = NL
    <3> SUFFICES ASSUME n # 0 PROVE file[n] = NL
      OBVIOUS
    <3>1. w # <<>> /\ n \in 1 .. n
      BY <2>2 DEF n
    <3> QED BY <2>1, <2>5, <3>1 DEF n
  <2>8. n \in 0 .. Len(file)
    BY <1>2, <2>2, <2>4
  <2>9. S!LastBreak = n
    BY <1>2, <2>6, <2>7, <2>8, LastBreakIs
  <2>10. IsStart(w, n)
    BY <2>2, <2>5 DEF IsStart, n
  <2>11. file \in Seq(Read)
    BY <1>2 DEF Read
  <2>12. w = SubSeq(file, 1, n)
    BY <2>2, <2>8, <2>10, <2>11, StartEquals
  <2> QED BY <2>9, <2>12
<1>8. TextOK'
  <2>1. Written' = w /\ S!Ordinary' = S!Ordinary /\ S!LastBreak' = S!LastBreak
    BY <1>1, WrittenStays DEF w
  <2>2. ~Working'
    BY <1>1 DEF Working
  <2>3. (Len(Written) <= Len(file))'
    BY <1>1, <1>2, <2>1
  <2>4. ASSUME S!Ordinary
        PROVE  (Written # <<>> => Written[Len(Written)] = NL)'
    BY <2>1, <2>4 DEF SInv, TextOK, w
  <2>5. ASSUME S!Ordinary
        PROVE  (Written = SubSeq(file, 1, S!LastBreak))'
    BY <1>1, <1>7, <2>1, <2>5
  <2> QED BY <2>1, <2>2, <2>3, <2>4, <2>5 DEF TextOK
<1> QED BY <1>5, <1>6, <1>8 DEF SInv

\* The line in hand becomes the last literal.
LEMMA WriteLineKeeps ==
  ASSUME SInv, S!WriteLine
  PROVE  SInv'
<1> DEFINE w == Written
           t == Literal(line)
           e == <<>>
<1>1. /\ pc = "return" /\ cpp' = Append(cpp, t) /\ line' = e /\ pc' = "main"
      /\ UNCHANGED <<file, pos, buf>>
  BY SameNames, Zenon DEF S!WriteLine, Literal
<1>2. /\ file \in Seq(FileChar) /\ Len(file) \in Nat /\ pos \in 0 .. Len(file)
      /\ line \in Seq(FileChar) /\ cpp \in Literals
      /\ w \in Seq(Read) /\ Len(w) \in Nat /\ Len(w) + Len(line) <= pos
      /\ OneLine(line)
  BY <1>1, FilesAre, WrittenIs DEF SInv, ReadingOK, LinesOK, TextOK, Working
<1>3. /\ t \in Seq(Token) /\ Len(t) = Len(line)
  BY <1>2, LiteralType
<1>4. /\ cpp' \in Literals
      /\ Written' = w \o Meaning(t)
  BY <1>1, <1>2, <1>3, StringOfMore DEF Written
<1>5. Meaning(t) \in Seq(Read) /\ Len(Meaning(t)) = Len(line)
  BY <1>3, MeaningType
<1>6. S!Ordinary => Meaning(t) = line
  BY <1>1, LineIsClean, CleanMeans DEF SInv
<1>7. e \in Seq(Read) /\ e \in Seq(FileChar) /\ Len(e) = 0
  OBVIOUS
<1> HIDE DEF e
<1>8. ReadingOK'
  BY <1>1, <1>4, <1>7 DEF SInv, ReadingOK
<1>9. LinesOK'
  <2>1. /\ Len(cpp) \in Nat /\ Len(cpp') = Len(cpp) + 1
        /\ cpp'[Len(cpp) + 1] = t
        /\ \A k \in 1 .. Len(cpp) : cpp'[k] = cpp[k]
    <3> HIDE DEF t
    <3> QED BY <1>1, <1>2, <1>3 DEF Literals
  <2>2. ASSUME NEW k \in 1 .. Len(cpp')
        PROVE  \E l : OneLine(l) /\ cpp'[k] = Literal(l)
    <3>1. CASE k = Len(cpp) + 1
      BY <1>2, <2>1, <3>1
    <3>2. CASE k \in 1 .. Len(cpp)
      BY <2>1, <3>2 DEF SInv, LinesOK
    <3> QED BY <2>1, <3>1, <3>2
  <2> QED BY <1>1, <2>2 DEF LinesOK, e
<1> DEFINE v == Meaning(t)
           z == w \o v
<1>10. /\ z \in Seq(Read) /\ Len(z) = Len(w) + Len(line)
       /\ \A k \in 1 .. Len(v) : z[Len(w) + k] = v[k]
  <2> HIDE DEF v, w, t
  <2>1. w \o v \in Seq(Read) /\ Len(w \o v) = Len(w) + Len(v)
    BY <1>2, <1>5, ConcatProperties DEF v
  <2>2. \A k \in 1 .. Len(v) : (w \o v)[Len(w) + k] = v[k]
    BY <1>2, <1>5, ConcatAt DEF v
  <2> QED BY <1>5, <2>1, <2>2 DEF v
<1>11. Len(line) >= 1 /\ Len(line) \in Nat /\ line[Len(line)] = NL
  BY <1>2 DEF OneLine
<1>12. Written' = z
  BY <1>4
<1> HIDE DEF w, v, z
<1>13. z \o e = z
  BY <1>10 DEF e
<1>14. ASSUME S!Ordinary
       PROVE  IsStart(z \o e, pos) /\ z[Len(z)] = NL
  <2>1. v = line
    BY <1>6, <1>14 DEF v
  <2>2. IsStart(z, pos)
    BY <1>1, <1>14, <2>1 DEF SInv, TextOK, Working, w, z
  <2>3. Len(line) \in 1 .. Len(v) /\ Len(z) = Len(w) + Len(line)
    BY <1>10, <1>11, <2>1
  <2>4. z[Len(w) + Len(line)] = v[Len(line)]
    BY <1>10, <2>3
  <2> QED BY <1>11, <1>13, <2>1, <2>2, <2>3, <2>4
<1>15. TextOK'
  <2>1. S!Ordinary' = S!Ordinary
    BY <1>1 DEF S!Ordinary
  <2>2. (Working => Len(Written) + Len(line) <= pos)'
    BY <1>1, <1>2, <1>7, <1>10, <1>11, <1>12
  <2>3. (Len(Written) <= Len(file))'
    BY <1>1, <1>2, <1>10, <1>11, <1>12
  <2>4. (Written \o line)' = z \o e
    BY <1>1, <1>12
  <2>5. ASSUME S!Ordinary
        PROVE  IsStart(Written \o line, pos)'
    <3>1. IsStart(z \o e, pos)
      BY <1>14, <2>5
    <3> QED BY <1>1, <2>4, <3>1 DEF IsStart
  <2>6. ASSUME S!Ordinary
        PROVE  (Written # <<>> => Written[Len(Written)] = NL)'
    BY <1>12, <1>14, <2>6
  <2>7. (pc # "done")'
    BY <1>1
  <2> QED BY <2>1, <2>2, <2>3, <2>5, <2>6, <2>7 DEF TextOK
<1> QED BY <1>8, <1>9, <1>15 DEF SInv

\* Every step of stringify keeps the invariant.
LEMMA StringifyKeeps ==
  ASSUME SInv, S!Next
  PROVE  SInv'
BY CallKeeps, ReadChunkKeeps, EndsAreKept, ReadEndKeeps, WriteLineKeeps DEF S!Next

\* And so does every step that is not one of stringify.
LEMMA ReadingStays ==
  ASSUME SInv, UNCHANGED reading
  PROVE  SInv'
<1>1. UNCHANGED <<file, pos, buf, line, cpp, pc>>
  BY DEF reading
<1>2. ReadingOK' /\ LinesOK'
  BY <1>1 DEF SInv, ReadingOK, LinesOK, Working
<1>3. TextOK'
  BY <1>1, WrittenStays DEF SInv, TextOK, Working
<1> QED BY <1>2, <1>3 DEF SInv

\* What Getline states follows.
LEMMA SInvGives ==
  ASSUME SInv
  PROVE  S!TypeOK /\ NothingLostOrDoubled /\ OneLiteralPerLine
<1>1. S!TypeOK
  <2>1. \A k \in DOMAIN cpp : cpp[k] \in Seq(Token)
    BY DEF SInv, ReadingOK, Literals
  <2> QED BY <2>1, SameNames DEF SInv, ReadingOK, S!TypeOK, Read
<1>2. NothingLostOrDoubled
  <2> SUFFICES ASSUME S!Ordinary, Working
               PROVE  Written \o line = SubSeq(file, 1, pos)
    BY SameNames DEF NothingLostOrDoubled, S!NothingLostOrDoubled, Working, Written
  <2>1. IsStart(Written \o line, pos)
    BY DEF SInv, TextOK
  <2>2. pos \in Nat /\ pos <= Len(file) /\ file \in Seq(Read)
    BY FilesAre DEF SInv, ReadingOK
  <2> QED BY <2>1, <2>2, StartEquals
<1>3. OneLiteralPerLine
  <2> SUFFICES ASSUME NEW k \in DOMAIN cpp
               PROVE  /\ Last(cpp[k]) = <<"letter", NL>>
                      /\ \A j \in 1 .. Len(cpp[k]) - 1 : cpp[k][j][2] # NL
    BY SameNames DEF OneLiteralPerLine, S!OneLiteralPerLine
  <2>1. k \in 1 .. Len(cpp)
    BY DEF SInv, ReadingOK, Literals
  <2>2. PICK l : OneLine(l) /\ cpp[k] = Literal(l)
    BY <2>1 DEF SInv, LinesOK
  <2>3. /\ l \in Seq(FileChar) /\ Len(l) \in Nat /\ Len(l) >= 1 /\ l[Len(l)] = NL
        /\ \A j \in 1 .. Len(l) - 1 : l[j] # NL
    BY <2>2 DEF OneLine
  <2>4. /\ Len(Literal(l)) = Len(l)
        /\ \A j \in 1 .. Len(l) : Literal(l)[j] = EscapeToken(l[j])
    BY <2>3, LiteralType
  <2>5. \A j \in 1 .. Len(l) : l[j] \in FileChar
    BY <2>3
  <2>6. Literal(l)[Len(l)] = <<"letter", NL>>
    <3>1. Len(l) \in 1 .. Len(l)
      BY <2>3
    <3>2. EscapeToken(NL) = <<"letter", NL>>
      BY <2>3, <2>5, <3>1, TokenIs
    <3> QED BY <2>3, <2>4, <3>1, <3>2
  <2>7. \A j \in 1 .. Len(l) - 1 : Literal(l)[j][2] # NL
    <3> SUFFICES ASSUME NEW j \in 1 .. Len(l) - 1 PROVE Literal(l)[j][2] # NL
      OBVIOUS
    <3>1. j \in 1 .. Len(l) /\ l[j] # NL
      BY <2>3
    <3>2. EscapeToken(l[j])[2] = l[j]
      BY <2>5, <3>1, TokenIs
    <3> QED BY <2>4, <3>1, <3>2
  <2> QED BY <2>2, <2>4, <2>6, <2>7 DEF Last
<1> QED BY <1>1, <1>2, <1>3

-----------------------------------------------------------------------------
(* The lines of a text and their leading spaces.                           *)

Spaces(s) == P!LeadingSpaces(s)

\* The leading spaces are spaces, and no space follows them.
LEMMA SpacesAre ==
  ASSUME NEW X, NEW s \in Seq(X)
  PROVE  /\ Spaces(s) \in 0 .. Len(s)
         /\ \A k \in 1 .. Spaces(s) : s[k] = P!Space
         /\ Spaces(s) < Len(s) => s[Spaces(s) + 1] # P!Space
<1> DEFINE T == {n \in 0 .. Len(s) : n < Len(s) => s[n + 1] # P!Space}
           Leads(n) == /\ \A k \in 1 .. n : s[k] = P!Space
                       /\ n < Len(s) => s[n + 1] # P!Space
<1>1. Len(s) \in Nat
  OBVIOUS
<1>2. T \subseteq Nat /\ T # {}
  <2>1. Len(s) \in T
    BY <1>1
  <2> QED BY <1>1, <2>1
<1>3. PICK n \in T : \A l \in T : n <= l
  <2> HIDE DEF T
  <2> QED BY <1>2, LeastNatural
<1>4. \A k \in 1 .. n : s[k] = P!Space
  <2> SUFFICES ASSUME NEW k \in 1 .. n, s[k] # P!Space PROVE FALSE
    OBVIOUS
  <2> DEFINE j == k - 1
  <2>1. j \in 0 .. Len(s) /\ j + 1 = k /\ j < n /\ n \in Nat
    BY <1>1, <1>3
  <2> HIDE DEF j
  <2>2. j \in T
    BY <2>1
  <2> QED BY <1>3, <2>1, <2>2
<1>5. \E m \in 0 .. Len(s) : Leads(m)
  BY <1>3, <1>4
<1>6. Spaces(s) = CHOOSE m \in 0 .. Len(s) : Leads(m)
  BY Zenon DEF Spaces, P!LeadingSpaces
<1>7. Spaces(s) \in 0 .. Len(s) /\ Leads(Spaces(s))
  <2> HIDE DEF Leads
  <2> QED BY <1>5, <1>6
<1> QED BY <1>7

\* Only one number is that of the leading spaces.
LEMMA SpacesIs ==
  ASSUME NEW X, NEW s \in Seq(X), NEW n \in 0 .. Len(s),
         \A k \in 1 .. n : s[k] = P!Space,
         n < Len(s) => s[n + 1] # P!Space
  PROVE  Spaces(s) = n
<1>1. /\ Spaces(s) \in 0 .. Len(s)
      /\ \A k \in 1 .. Spaces(s) : s[k] = P!Space
      /\ Spaces(s) < Len(s) => s[Spaces(s) + 1] # P!Space
  BY SpacesAre
<1>2. Len(s) \in Nat
  OBVIOUS
<1>3. ASSUME Spaces(s) < n
      PROVE  FALSE
  <2>1. Spaces(s) + 1 \in 1 .. n /\ Spaces(s) < Len(s)
    BY <1>1, <1>2, <1>3
  <2> QED BY <1>1, <2>1
<1>4. ASSUME n < Spaces(s)
      PROVE  FALSE
  <2>1. n + 1 \in 1 .. Spaces(s) /\ n < Len(s)
    BY <1>1, <1>2, <1>4
  <2> QED BY <1>1, <2>1
<1> QED BY <1>1, <1>2, <1>3, <1>4

\* Where the line that ends at k starts.
LineStart(s, k) ==
  LET before == {0} \cup {j \in 1 .. k - 1 : s[j] = NL}
  IN CHOOSE j \in before : \A l \in before : l <= j

\* A line starts after the last line break before its end.
LEMMA LineStartIs ==
  ASSUME NEW s, NEW k \in Nat, k >= 1, NEW p \in 0 .. k - 1,
         p # 0 => s[p] = NL,
         \A j \in p + 1 .. k - 1 : s[j] # NL
  PROVE  LineStart(s, k) = p
<1> DEFINE B == {0} \cup {j \in 1 .. k - 1 : s[j] = NL}
           last == CHOOSE j \in B : \A l \in B : l <= j
<1>1. p \in B
  OBVIOUS
<1>2. \A l \in B : l \in Nat /\ l <= p
  OBVIOUS
<1>3. LineStart(s, k) = last
  BY Zenon DEF LineStart
<1> HIDE DEF B
<1>4. last \in B /\ \A l \in B : l <= last
  BY <1>1, <1>2
<1> HIDE DEF last
<1>5. last \in Nat /\ last <= p /\ p <= last
  BY <1>1, <1>2, <1>4
<1> QED BY <1>3, <1>5

\* It starts within the text.
LEMMA LineStartType ==
  ASSUME NEW s, NEW k \in Nat, k >= 1
  PROVE  LineStart(s, k) \in 0 .. k - 1
<1> DEFINE B == {0} \cup {j \in 1 .. k - 1 : s[j] = NL}
           N == {n \in Nat : k - 1 - n \in B}
           last == CHOOSE j \in B : \A l \in B : l <= j
<1>1. B \subseteq 0 .. k - 1 /\ 0 \in B
  OBVIOUS
<1>2. LineStart(s, k) = last
  BY Zenon DEF LineStart
<1> HIDE DEF B
<1>3. k - 1 \in N
  BY <1>1
<1>4. PICK n \in N : \A l \in N : n <= l
  <2> HIDE DEF N
  <2> QED BY <1>3, LeastNatural DEF N
<1>5. k - 1 - n \in B /\ n \in Nat
  BY <1>4
<1>6. \A l \in B : l <= k - 1 - n
  <2> SUFFICES ASSUME NEW l \in B PROVE l <= k - 1 - n
    OBVIOUS
  <2>1. k - 1 - l \in N
    BY <1>1
  <2>2. n <= k - 1 - l
    BY <1>4, <2>1
  <2> QED BY <1>1, <1>5, <2>2
<1>7. last \in B
  BY <1>5, <1>6
<1> QED BY <1>1, <1>2, <1>7

LineAt(s, k) == P!LineAt(s, k)

\* There is a line for each line break and for nothing else.
LEMMA LineAtIs ==
  ASSUME NEW s \in Seq(Read), NEW k \in 1 .. Len(s)
  PROVE  /\ s[k] = NL => LineAt(s, k) = <<SubSeq(s, LineStart(s, k) + 1, k - 1)>>
         /\ s[k] # NL => LineAt(s, k) = <<>>
         /\ LineAt(s, k) \in Seq(Seq(Read))
<1>1. LineStart(s, k) \in 0 .. k - 1 /\ k - 1 \in Nat /\ k - 1 <= Len(s) /\ Len(s) \in Nat
  BY LineStartType
<1>2. LineAt(s, k) = IF s[k] = NL THEN <<SubSeq(s, LineStart(s, k) + 1, k - 1)>> ELSE <<>>
  BY Zenon DEF LineAt, P!LineAt, LineStart, P!NL, NL
<1>3. SubSeq(s, LineStart(s, k) + 1, k - 1) \in Seq(Read)
  BY <1>1, PartIs
<1>4. LineAt(s, k) \in Seq(Seq(Read))
  BY <1>2, <1>3
<1> QED BY <1>2, <1>4

\* The lines of the first n characters.
LinesTo(s, n) == FlattenSeq([k \in 1 .. n |-> LineAt(s, k)])

\* No characters have no lines.
LEMMA LinesToStart ==
  ASSUME NEW s
  PROVE  LinesTo(s, 0) = <<>>
<1> DEFINE f == [k \in 1 .. 0 |-> LineAt(s, k)]
<1>1. f \in [1 .. 0 -> Seq(Read)]
  OBVIOUS
<1> HIDE DEF f
<1>2. FlattenSeq(f) = <<>>
  BY <1>1, FlattenNone
<1> QED BY <1>2 DEF LinesTo, f

\* The next character adds the line it ends, if any.
LEMMA LinesToGrows ==
  ASSUME NEW s \in Seq(Read), NEW n \in Nat, n < Len(s)
  PROVE  LinesTo(s, n + 1) = LinesTo(s, n) \o LineAt(s, n + 1)
<1> DEFINE f == [k \in 1 .. n + 1 |-> LineAt(s, k)]
           g == [k \in 1 .. n |-> LineAt(s, k)]
           h == [k \in 1 .. n |-> f[k]]
<1>1. f \in [1 .. n + 1 -> Seq(Seq(Read))]
  <2> SUFFICES ASSUME NEW k \in 1 .. n + 1 PROVE LineAt(s, k) \in Seq(Seq(Read))
    OBVIOUS
  <2>1. k \in 1 .. Len(s)
    OBVIOUS
  <2> QED BY <2>1, LineAtIs
<1>2. h = g /\ f[n + 1] = LineAt(s, n + 1)
  OBVIOUS
<1> HIDE DEF f
<1>3. FlattenSeq(f) = FlattenSeq(h) \o f[n + 1]
  BY <1>1, FlattenGrows
<1> QED BY <1>2, <1>3 DEF LinesTo, f

\* Lines are texts.
LEMMA LinesToType ==
  ASSUME NEW s \in Seq(Read), NEW n \in Nat, n <= Len(s)
  PROVE  LinesTo(s, n) \in Seq(Seq(Read))
<1> DEFINE f == [k \in 1 .. n |-> LineAt(s, k)]
<1>1. f \in [1 .. n -> Seq(Seq(Read))]
  <2> SUFFICES ASSUME NEW k \in 1 .. n PROVE LineAt(s, k) \in Seq(Seq(Read))
    OBVIOUS
  <2>1. k \in 1 .. Len(s)
    OBVIOUS
  <2> QED BY <2>1, LineAtIs
<1> HIDE DEF f
<1>2. f \in Seq(Seq(Seq(Read)))
  BY <1>1, FunctionIsSeq
<1>3. FlattenSeq(f) \in Seq(Seq(Read))
  BY <1>2, FlattenType
<1> QED BY <1>3 DEF LinesTo, f

\* Without a line break there is no new line.
LEMMA LinesToStays ==
  ASSUME NEW s \in Seq(Read), NEW m \in Nat, NEW n \in Nat, m <= n, n <= Len(s),
         \A k \in m + 1 .. n : s[k] # NL
  PROVE  LinesTo(s, n) = LinesTo(s, m)
<1> DEFINE T == {j \in Nat : LinesTo(s, m + j) = LinesTo(s, m)}
<1>1. 0 \in T
  OBVIOUS
<1>2. ASSUME NEW j \in 0 .. (n - m) - 1, j \in T
      PROVE  j + 1 \in T
  <2>1. m + j \in Nat /\ m + j < Len(s) /\ m + j + 1 \in 1 .. Len(s) /\ m + j + 1 \in m + 1 .. n
        /\ m + (j + 1) = m + j + 1
    OBVIOUS
  <2>2. LinesTo(s, m + j + 1) = LinesTo(s, m + j) \o LineAt(s, m + j + 1)
    BY <2>1, LinesToGrows
  <2>3. LineAt(s, m + j + 1) = <<>>
    BY <2>1, LineAtIs
  <2>4. LinesTo(s, m + j) \in Seq(Seq(Read))
    BY <2>1, LinesToType
  <2>5. LinesTo(s, m + j) \o <<>> = LinesTo(s, m + j)
    BY <2>4
  <2>6. LinesTo(s, m + (j + 1)) = LinesTo(s, m)
    BY <1>2, <2>1, <2>2, <2>3, <2>5
  <2> QED BY <2>6
<1>3. n - m \in Nat
  OBVIOUS
<1> HIDE DEF T
<1>4. \A j \in 0 .. n - m : j \in T
  BY <1>1, <1>2, <1>3, InductionUpTo
<1>5. n - m \in T /\ m + (n - m) = n
  BY <1>3, <1>4
<1> QED BY <1>5 DEF T

\* One line more at the next line break.
LEMMA NextLine ==
  ASSUME NEW s \in Seq(Read), NEW p \in Nat, NEW b \in Nat, p < b, b <= Len(s),
         p # 0 => s[p] = NL,
         \A k \in p + 1 .. b - 1 : s[k] # NL,
         s[b] = NL
  PROVE  LinesTo(s, b) = Append(LinesTo(s, p), SubSeq(s, p + 1, b - 1))
<1> DEFINE l == SubSeq(s, p + 1, b - 1)
           t == LinesTo(s, p)
<1>1. b - 1 \in Nat /\ p <= b - 1 /\ b - 1 < Len(s) /\ b - 1 + 1 = b /\ b \in 1 .. Len(s)
      /\ p \in 0 .. b - 1 /\ b >= 1
  OBVIOUS
<1>2. LinesTo(s, b - 1) = t
  BY <1>1, LinesToStays
<1>3. LineAt(s, b) = <<l>>
  <2>1. LineStart(s, b) = p
    BY <1>1, LineStartIs
  <2> QED BY <1>1, <2>1, LineAtIs
<1>4. LinesTo(s, b) = LinesTo(s, b - 1) \o LineAt(s, b)
  <2>1. LinesTo(s, b - 1 + 1) = LinesTo(s, b - 1) \o LineAt(s, b - 1 + 1)
    BY <1>1, LinesToGrows
  <2> QED BY <1>1, <2>1
<1>5. t \in Seq(Seq(Read)) /\ l \in Seq(Read)
  <2>1. p <= Len(s)
    BY <1>1
  <2> QED BY <1>1, <2>1, LinesToType, PartIs
<1> HIDE DEF t, l
<1>6. t \o <<l>> = Append(t, l)
  BY <1>5, AppendIsConcat
<1> QED BY <1>2, <1>3, <1>4, <1>6 DEF t, l

-----------------------------------------------------------------------------
(* What the loop over the lines finds out about them.                      *)

Filled(ls) == {k \in 1 .. Len(ls) : ls[k] # <<>>}

\* The first line counts from 0 and is "not set" when it is 0: it is the first
\* that is not empty after the very first.
FirstOf(ls, first) ==
  IF Filled(ls) \ {1} = {} THEN first = 0
  ELSE first + 1 \in Filled(ls) \ {1} /\ \A k \in Filled(ls) \ {1} : first + 1 <= k

LastOf(ls, last) ==
  IF Filled(ls) = {} THEN last = 0
  ELSE last + 1 \in Filled(ls) /\ \A k \in Filled(ls) : k <= last + 1

FewestOf(ls, common) ==
  IF Filled(ls) = {} THEN common = SizeMax
  ELSE /\ \E k \in Filled(ls) : common = Spaces(ls[k])
       /\ \A k \in Filled(ls) : common <= Spaces(ls[k])

Summary(ls, common, first, last) ==
  /\ common \in 0 .. SizeMax
  /\ first \in Nat
  /\ last \in Nat
  /\ FirstOf(ls, first)
  /\ LastOf(ls, last)
  /\ FewestOf(ls, common)

Lines == Seq(Seq(Read))

\* SizeMax is a number.
LEMMA SizeMaxType == SizeMax \in Nat
BY EmbeddingAssumption DEF EmbeddingAssumption

\* The values the loop starts with are right for no lines.
LEMMA NothingFound ==
  Summary(<<>>, SizeMax, 0, 0)
<1>1. Filled(<<>>) = {}
  BY DEF Filled
<1> QED BY <1>1, SizeMaxType DEF Summary, FirstOf, LastOf, FewestOf

\* The first line comes before the last, and both exist.
LEMMA SummaryOrder ==
  ASSUME NEW ls \in Lines, NEW common, NEW first, NEW last, Summary(ls, common, first, last)
  PROVE  /\ first <= last
         /\ last <= Len(ls)
         /\ Len(ls) # 0 => last < Len(ls)
<1>1. first \in Nat /\ last \in Nat /\ Len(ls) \in Nat
  BY DEF Summary, Lines
<1>2. CASE Filled(ls) \ {1} = {}
  <2>1. first = 0
    BY <1>2 DEF Summary, FirstOf
  <2>2. CASE Filled(ls) = {}
    <3>1. last = 0
      BY <2>2 DEF Summary, LastOf
    <3> QED BY <1>1, <2>1, <2>2, <3>1
  <2>3. CASE Filled(ls) # {}
    <3>1. last + 1 \in 1 .. Len(ls)
      BY <2>3 DEF Summary, LastOf, Filled
    <3> QED BY <1>1, <2>1, <3>1
  <2> QED BY <2>2, <2>3
<1>3. CASE Filled(ls) \ {1} # {}
  <2>1. first + 1 \in Filled(ls)
    BY <1>3 DEF Summary, FirstOf
  <2>2. last + 1 \in 1 .. Len(ls) /\ first + 1 <= last + 1
    BY <2>1 DEF Summary, LastOf, Filled
  <2> QED BY <1>1, <2>2
<1> QED BY <1>2, <1>3

\* What a further line does to the lines that are not empty.
LEMMA FilledGrows ==
  ASSUME NEW ls \in Lines, NEW l \in Seq(Read)
  PROVE  /\ Append(ls, l) \in Lines
         /\ Len(Append(ls, l)) = Len(ls) + 1
         /\ \A k \in 1 .. Len(ls) : Append(ls, l)[k] = ls[k]
         /\ Append(ls, l)[Len(ls) + 1] = l
         /\ l = <<>> => Filled(Append(ls, l)) = Filled(ls)
         /\ l # <<>> => Filled(Append(ls, l)) = Filled(ls) \cup {Len(ls) + 1}
         /\ Filled(ls) \subseteq 1 .. Len(ls)
         /\ Len(ls) \in Nat
<1> DEFINE m == Append(ls, l)
           n == Len(ls)
<1>1. /\ m \in Lines /\ Len(m) = n + 1 /\ n \in Nat
      /\ \A k \in 1 .. n : m[k] = ls[k]
      /\ m[n + 1] = l
  BY DEF Lines
<1> HIDE DEF m, n
<1>2. l = <<>> => Filled(m) = Filled(ls)
  BY <1>1 DEF Filled, n
<1>3. l # <<>> => Filled(m) = Filled(ls) \cup {n + 1}
  BY <1>1 DEF Filled, n
<1>4. Filled(ls) \subseteq 1 .. n
  BY DEF Filled, n
<1> QED BY <1>1, <1>2, <1>3, <1>4 DEF m, n

\* An empty line changes nothing.
LEMMA EmptyLineFound ==
  ASSUME NEW ls \in Lines, NEW common, NEW first, NEW last, Summary(ls, common, first, last)
  PROVE  Summary(Append(ls, <<>>), common, first, last)
<1> DEFINE e == <<>>
           m == Append(ls, e)
<1>1. e \in Seq(Read)
  OBVIOUS
<1>2. /\ Filled(m) = Filled(ls) /\ Filled(ls) \subseteq 1 .. Len(ls)
      /\ \A k \in 1 .. Len(ls) : m[k] = ls[k]
  <2>1. e = <<>>
    OBVIOUS
  <2> HIDE DEF e
  <2> QED BY <1>1, <2>1, FilledGrows
<1> HIDE DEF m
<1>3. FewestOf(m, common)
  BY <1>2 DEF Summary, FewestOf
<1> QED BY <1>2, <1>3 DEF Summary, FirstOf, LastOf, m

\* What NoteLine makes of another one.
LEMMA LineFound ==
  ASSUME NEW ls \in Lines, NEW common, NEW first, NEW last, Summary(ls, common, first, last),
         NEW l \in Seq(Read), l # <<>>, Len(l) < SizeMax
  PROVE  Summary(Append(ls, l), P!Lesser(common, Spaces(l)),
                 IF first = 0 THEN Len(ls) ELSE first, Len(ls))
<1> DEFINE m == Append(ls, l)
           n == Len(ls)
           c == P!Lesser(common, Spaces(l))
           f == IF first = 0 THEN n ELSE first
<1>1. /\ m \in Lines
      /\ \A k \in 1 .. n : m[k] = ls[k]
      /\ m[n + 1] = l
      /\ Filled(m) = Filled(ls) \cup {n + 1}
      /\ Filled(ls) \subseteq 1 .. n
      /\ n \in Nat
  BY FilledGrows
<1> HIDE DEF m, n
<1>2. Spaces(l) \in 0 .. Len(l) /\ Len(l) \in Nat /\ SizeMax \in Nat
  BY SpacesAre, SizeMaxType
<1>3. common \in 0 .. SizeMax /\ first \in Nat
  BY DEF Summary
<1>4. c \in 0 .. SizeMax /\ f \in Nat
  BY <1>1, <1>2, <1>3 DEF P!Lesser
<1>5. FirstOf(m, f)
  <2>1. CASE Filled(ls) \ {1} = {}
    <3>1. first = 0 /\ f = n
      BY <2>1 DEF Summary, FirstOf
    <3>2. CASE n = 0
      <4>1. Filled(m) \ {1} = {}
        BY <1>1, <2>1, <3>2
      <4> QED BY <3>1, <3>2, <4>1 DEF FirstOf
    <3>3. CASE n # 0
      <4>1. Filled(m) \ {1} = {n + 1}
        BY <1>1, <2>1, <3>3
      <4>2. n + 1 \in Filled(m) \ {1} /\ \A k \in Filled(m) \ {1} : n + 1 <= k
        BY <1>1, <4>1, SMTT(30)
      <4> HIDE DEF f
      <4> QED BY <3>1, <4>2 DEF FirstOf
    <3> QED BY <3>2, <3>3
  <2>2. CASE Filled(ls) \ {1} # {}
    <3>1. first + 1 \in Filled(ls) \ {1} /\ \A k \in Filled(ls) \ {1} : first + 1 <= k
      BY <2>2 DEF Summary, FirstOf
    <3>2. first # 0 /\ f = first
      BY <1>3, <3>1
    <3>3. first + 1 <= n + 1
      BY <1>1, <1>3, <3>1
    <3>4. first + 1 \in Filled(m) \ {1} /\ \A k \in Filled(m) \ {1} : first + 1 <= k
      BY <1>1, <3>1, <3>3
    <3> HIDE DEF f
    <3> QED BY <3>2, <3>4 DEF FirstOf
  <2> QED BY <2>1, <2>2
<1>6. LastOf(m, n)
  BY <1>1 DEF LastOf
<1>7. FewestOf(m, c)
  <2>1. CASE Filled(ls) = {}
    <3>1. common = SizeMax /\ Filled(m) = {n + 1}
      BY <1>1, <2>1 DEF Summary, FewestOf
    <3>2. c = Spaces(l)
      BY <1>2, <3>1 DEF P!Lesser
    <3>3. c = Spaces(m[n + 1]) /\ c <= Spaces(m[n + 1])
      BY <1>1, <1>2, <3>2
    <3> HIDE DEF c
    <3> QED BY <3>1, <3>3 DEF FewestOf
  <2>2. CASE Filled(ls) # {}
    <3>1. PICK k \in Filled(ls) : common = Spaces(ls[k])
      BY <2>2 DEF Summary, FewestOf
    <3>2. \A j \in Filled(ls) : common <= Spaces(ls[j])
      BY <2>2 DEF Summary, FewestOf
    <3>3. \A j \in Filled(ls) : Spaces(m[j]) = Spaces(ls[j]) /\ Spaces(ls[j]) \in Nat
      <4> SUFFICES ASSUME NEW j \in Filled(ls)
                   PROVE  Spaces(m[j]) = Spaces(ls[j]) /\ Spaces(ls[j]) \in Nat
        OBVIOUS
      <4>1. m[j] = ls[j] /\ ls[j] \in Seq(Read)
        BY <1>1 DEF Lines, n
      <4>2. Spaces(ls[j]) \in 0 .. Len(ls[j])
        BY <4>1, SpacesAre
      <4> QED BY <4>1, <4>2
    <3>4. c = common \/ c = Spaces(l)
      BY DEF P!Lesser
    <3>5. c <= common /\ c <= Spaces(l) /\ c \in Nat
      BY <1>2, <1>3 DEF P!Lesser
    <3> HIDE DEF c
    <3>6. \E j \in Filled(m) : c = Spaces(m[j])
      BY <1>1, <3>1, <3>3, <3>4
    <3>7. \A j \in Filled(m) : c <= Spaces(m[j])
      <4> SUFFICES ASSUME NEW j \in Filled(m) PROVE c <= Spaces(m[j])
        OBVIOUS
      <4>1. CASE j = n + 1
        BY <1>1, <3>5, <4>1
      <4>2. CASE j \in Filled(ls)
        BY <1>3, <3>2, <3>3, <3>5, <4>2
      <4> QED BY <1>1, <4>1, <4>2
    <3>8. Filled(m) # {}
      BY <1>1
    <3> QED BY <3>6, <3>7, <3>8 DEF FewestOf
  <2> QED BY <2>1, <2>2
<1> QED BY <1>1, <1>4, <1>5, <1>6, <1>7 DEF Summary, m, n

-----------------------------------------------------------------------------
(* The inductive invariant of the tag.                                     *)

\* No tag has been printed yet.
Untouched ==
  /\ str = <<>>
  /\ prev = 0
  /\ lineno = 0
  /\ lines = <<>>
  /\ num_common_spaces = SizeMax
  /\ first_line = 0
  /\ last_line = 0
  /\ i = 0
  /\ out = <<>>

\* The lines that the text has up to prev are in lines.
SplitOK ==
  /\ str \in Seq(Read)
  /\ Len(str) < SizeMax
  /\ prev \in 0 .. Len(str)
  /\ prev # 0 => str[prev] = NL
  /\ lines = LinesTo(str, prev)
  /\ lineno = Len(lines)
  /\ printer \in {"print", "done"} =>
       /\ \A k \in prev + 1 .. Len(str) : str[k] # NL
       /\ Len(lines) # 0

SummaryOK == Summary(lines, num_common_spaces, first_line, last_line)

Character == Read \cup {P!Space}

\* The lines from first_line up to the one before i are printed.
OutOK ==
  /\ i \in Nat
  /\ out \in Seq(Seq(Character))
  /\ printer = "split" => i = 0 /\ out = <<>>
  /\ printer \in {"print", "done"} =>
       /\ first_line <= i
       /\ i <= last_line + 1
       /\ i <= Len(lines)
       /\ Len(out) = i - first_line
       /\ \A n \in 1 .. Len(out) : out[n] = P!Printed(lines[first_line + n])
  /\ printer = "done" => i = last_line + 1

HasBreak(s) == \E k \in 1 .. Len(s) : s[k] = NL

PInv ==
  /\ printer \in {"waiting", "split", "print", "done"}
  /\ printer = "waiting" => Untouched
  /\ printer # "waiting" => pc = "done" /\ str = Written /\ HasBreak(str)
  /\ SplitOK
  /\ SummaryOK
  /\ OutOK

\* The lines found are lines.
LEMMA LinesAre ==
  ASSUME SplitOK
  PROVE  lines \in Lines /\ Len(lines) \in Nat /\ Len(str) \in Nat
<1>1. prev \in Nat /\ prev <= Len(str) /\ str \in Seq(Read)
  BY DEF SplitOK
<1>2. lines \in Lines
  BY <1>1, LinesToType DEF SplitOK, Lines
<1> QED BY <1>1, <1>2 DEF Lines

\* The invariant of the tag holds before it is printed.
LEMMA UntouchedIsFine ==
  ASSUME ReadingOK, Untouched, printer = "waiting"
  PROVE  SplitOK /\ SummaryOK /\ OutOK
<1>1. SizeMax \in Nat /\ \A f \in Files : Len(f) < SizeMax
  BY EmbeddingAssumption DEF EmbeddingAssumption
<1>2. \A f \in Files : Len(f) \in Nat
  BY EmbeddingAssumption DEF EmbeddingAssumption
<1>3. <<>> \in Seq(Read) /\ <<>> \in Seq(Seq(Character)) /\ Len(<<>>) = 0
  OBVIOUS
<1>4. SummaryOK
  BY NothingFound DEF Untouched, SummaryOK
<1>5. OutOK
  BY <1>3 DEF Untouched, OutOK
<1>6. 0 < SizeMax
  BY <1>1, <1>2 DEF ReadingOK
<1>7. SplitOK
  BY <1>3, <1>6, LinesToStart DEF Untouched, SplitOK
<1> QED BY <1>4, <1>5, <1>7

\* A literal ends with the escape of a line break, which a compiler reads as one.
LEMMA WrittenHasBreak ==
  ASSUME ReadingOK, LinesOK, cpp # <<>>
  PROVE  HasBreak(Written)
<1> DEFINE t == [k \in 1 .. Len(cpp) |-> Meaning(cpp[k])]
<1>1. Len(cpp) \in Nat /\ DOMAIN cpp = 1 .. Len(cpp) /\ 1 \in 1 .. Len(cpp)
      /\ \A k \in 1 .. Len(cpp) : cpp[k] \in Seq(Token)
  BY DEF ReadingOK, Literals
<1>2. PICK l : OneLine(l) /\ cpp[1] = Literal(l)
  BY <1>1 DEF LinesOK
<1>3. l \in Seq(FileChar) /\ Len(l) \in Nat /\ Len(l) \in 1 .. Len(l) /\ l[Len(l)] = NL /\ NL \in FileChar
  BY <1>2 DEF OneLine
<1>4. /\ DOMAIN Literal(l) = 1 .. Len(l) /\ Len(Literal(l)) = Len(l)
      /\ Literal(l)[Len(l)] = <<"letter", NL>>
  <2>1. Len(Literal(l)) = Len(l) /\ Literal(l)[Len(l)] = EscapeToken(NL)
    BY <1>3, LiteralType
  <2>2. EscapeToken(NL) = <<"letter", NL>>
    BY <1>3, TokenIs
  <2>3. DOMAIN Literal(l) = 1 .. Len(l)
    BY <1>3 DEF Literal
  <2> QED BY <2>1, <2>2, <2>3
<1>5. Meaning(Literal(l))[Len(l)] = NL /\ Meaning(Literal(l)) \in Seq(Read)
      /\ Len(l) \in DOMAIN Meaning(Literal(l))
  <2>1. ~Misread(Literal(l), Len(l))
    BY <1>4 DEF Misread
  <2>2. Meaning(Literal(l)) \in Seq(Read)
    BY <1>1, <1>2, MeaningType
  <2> QED BY <1>3, <1>4, <2>1, <2>2 DEF Meaning
<1>6. t \in Seq(Seq(Read)) /\ Len(t) = Len(cpp) /\ t[1] = Meaning(Literal(l))
  <2>1. t \in [1 .. Len(cpp) -> Seq(Read)]
    BY <1>1, MeaningType
  <2>2. t[1] = Meaning(Literal(l))
    BY <1>1, <1>2
  <2> HIDE DEF t
  <2> QED BY <1>1, <2>1, <2>2, FunctionIsSeq
<1>7. Written = FlattenSeq(t)
  BY <1>1 DEF Written, StringOf
<1> HIDE DEF t
<1>8. NL \in Range(t[1])
  BY <1>5, <1>6 DEF Range
<1>9. NL \in Range(Written)
  BY <1>1, <1>6, <1>7, <1>8, FlattenRange
<1>10. Written \in Seq(Read)
  BY WrittenIs
<1> QED BY <1>9, <1>10 DEF Range, HasBreak

\* The tag gets the string of the literals.
LEMMA PrintTagKeeps ==
  ASSUME SInv, PInv, PrintTag
  PROVE  PInv'
<1>1. /\ pc = "done" /\ printer = "waiting" /\ cpp # <<>> /\ str' = Written /\ printer' = "split"
      /\ UNCHANGED <<file, cpp, pc>>
      /\ UNCHANGED <<prev, lineno, lines, num_common_spaces, first_line, last_line, i, out>>
  BY DEF PrintTag, reading, Written
<1>2. Written' = Written
  BY <1>1, WrittenStays
<1>3. Untouched
  BY <1>1 DEF PInv
<1>4. Written \in Seq(Read) /\ Len(Written) \in Nat /\ Len(Written) <= Len(file)
      /\ file \in Files /\ Len(file) \in Nat /\ Len(file) < SizeMax /\ SizeMax \in Nat
  BY WrittenIs, FilesAre, EmbeddingAssumption
     DEF EmbeddingAssumption, SInv, ReadingOK, TextOK
<1>5. SplitOK'
  <2>1. /\ str' \in Seq(Read) /\ Len(str') \in Nat /\ Len(str') < SizeMax
    BY <1>1, <1>4
  <2>2. prev' = 0 /\ lines' = <<>> /\ lineno' = 0 /\ Len(<<>>) = 0
    BY <1>1, <1>3 DEF Untouched
  <2>3. LinesTo(str', 0) = <<>>
    BY LinesToStart
  <2>4. lines' = LinesTo(str', prev')
    BY <2>2, <2>3
  <2>5. prev' \in 0 .. Len(str')
    BY <2>1, <2>2
  <2>6. printer' \notin {"print", "done"}
    BY <1>1
  <2> QED BY <2>1, <2>2, <2>4, <2>5, <2>6 DEF SplitOK
<1>6. SummaryOK'
  BY <1>1 DEF PInv, SummaryOK
<1>7. OutOK'
  BY <1>1, <1>3 DEF PInv, OutOK, Untouched
<1>8. HasBreak(Written)
  BY <1>1, WrittenHasBreak DEF SInv
<1>9. HasBreak(str')
  BY <1>1, <1>8
<1> QED BY <1>1, <1>2, <1>5, <1>6, <1>7, <1>9 DEF PInv

\* find gives the first line break after prev.
LEMMA NextBreakIs ==
  ASSUME str \in Seq(Read), prev \in 0 .. Len(str), P!Breaks # {}
  PROVE  /\ P!NextBreak \in prev + 1 .. Len(str)
         /\ str[P!NextBreak] = NL
         /\ \A k \in prev + 1 .. P!NextBreak - 1 : str[k] # NL
<1> DEFINE B == P!Breaks
           b == CHOOSE k \in B : \A l \in B : k <= l
<1>1. /\ Len(str) \in Nat
      /\ \A k : k \in B <=> k \in prev + 1 .. Len(str) /\ str[k] = NL
  BY SameNames DEF P!Breaks
<1>2. P!NextBreak = b
  BY Zenon DEF P!NextBreak
<1> HIDE DEF B
<1>3. B \in SUBSET Nat /\ B # {}
  BY <1>1 DEF B
<1>4. b \in B /\ \A l \in B : b <= l
  BY <1>3, FirstIs
<1> HIDE DEF b
<1>5. b \in prev + 1 .. Len(str) /\ str[b] = NL
  BY <1>1, <1>4
<1>6. \A k \in prev + 1 .. b - 1 : str[k] # NL
  <2> SUFFICES ASSUME NEW k \in prev + 1 .. b - 1, str[k] = NL PROVE FALSE
    OBVIOUS
  <2>1. k \in prev + 1 .. Len(str) /\ k < b
    BY <1>5
  <2>2. k \in B
    BY <1>1, <2>1
  <2> QED BY <1>4, <1>5, <2>1, <2>2
<1> QED BY <1>2, <1>5, <1>6

\* A line is split off and noted.
LEMMA SplitLineKeeps ==
  ASSUME PInv, P!SplitLine, UNCHANGED reading
  PROVE  PInv'
<1> DEFINE b == P!NextBreak
           l == SubSeq(str, prev + 1, b - 1)
<1>1. /\ printer = "split" /\ P!Breaks # {}
      /\ lines' = Append(lines, l) /\ P!NoteLine(l)
      /\ prev' = b /\ lineno' = lineno + 1
      /\ UNCHANGED <<str, printer, i, out>>
  BY DEF P!SplitLine
<1>2. UNCHANGED <<file, cpp, pc>> /\ Written' = Written
  BY WrittenStays DEF reading
<1>3. /\ str \in Seq(Read) /\ Len(str) \in Nat /\ Len(str) < SizeMax /\ SizeMax \in Nat
      /\ prev \in 0 .. Len(str) /\ lines = LinesTo(str, prev) /\ lineno = Len(lines)
      /\ prev # 0 => str[prev] = NL
      /\ lines \in Lines /\ Len(lines) \in Nat
  BY LinesAre, SizeMaxType DEF PInv, SplitOK
<1>4. /\ b \in prev + 1 .. Len(str)
      /\ str[b] = NL
      /\ \A k \in prev + 1 .. b - 1 : str[k] # NL
  BY <1>1, <1>3, NextBreakIs
<1> HIDE DEF b
<1>5. l \in Seq(Read) /\ Len(l) \in Nat /\ Len(l) < SizeMax
  <2>1. prev \in Nat /\ b - 1 \in Nat /\ prev <= b - 1 /\ b - 1 <= Len(str)
    BY <1>3, <1>4
  <2>2. l \in Seq(Read) /\ Len(l) = b - 1 - prev
    BY <1>3, <2>1, PartIs
  <2> HIDE DEF l
  <2> QED BY <1>3, <2>1, <2>2
<1>6. LinesTo(str, b) = Append(lines, l)
  <2>1. prev \in Nat /\ b \in Nat /\ prev < b /\ b <= Len(str)
    BY <1>3, <1>4
  <2> QED BY <1>3, <1>4, <2>1, NextLine
<1> HIDE DEF l
<1>7. SplitOK'
  <2>1. Len(Append(lines, l)) = Len(lines) + 1
    BY <1>3, <1>5, FilledGrows
  <2>2. prev' \in 0 .. Len(str') /\ str'[prev'] = NL
    BY <1>1, <1>3, <1>4
  <2>3. lines' = LinesTo(str', prev') /\ lineno' = Len(lines')
    BY <1>1, <1>3, <1>6, <2>1
  <2>4. printer' \notin {"print", "done"}
    BY <1>1
  <2> QED BY <1>1, <1>3, <2>2, <2>3, <2>4 DEF SplitOK
<1>8. SummaryOK'
  <2>1. Summary(lines, num_common_spaces, first_line, last_line)
    BY DEF PInv, SummaryOK
  <2>2. CASE l = <<>>
    <3>1. UNCHANGED <<num_common_spaces, first_line, last_line>>
      BY <1>1, <2>2 DEF P!NoteLine
    <3>2. Summary(Append(lines, l), num_common_spaces, first_line, last_line)
      BY <1>3, <2>1, <2>2, EmptyLineFound
    <3> QED BY <1>1, <3>1, <3>2 DEF SummaryOK
  <2>3. CASE l # <<>>
    <3>1. /\ num_common_spaces' = P!Lesser(num_common_spaces, Spaces(l))
          /\ first_line' = IF first_line = 0 THEN Len(lines) ELSE first_line
          /\ last_line' = Len(lines)
      BY <1>1, <1>3, <2>3 DEF P!NoteLine, Spaces
    <3>2. Summary(Append(lines, l), P!Lesser(num_common_spaces, Spaces(l)),
                  IF first_line = 0 THEN Len(lines) ELSE first_line, Len(lines))
      BY <1>3, <1>5, <2>1, <2>3, LineFound
    <3> QED BY <1>1, <3>1, <3>2 DEF SummaryOK
  <2> QED BY <2>2, <2>3
<1>9. OutOK'
  BY <1>1 DEF PInv, OutOK
<1> QED BY <1>1, <1>2, <1>7, <1>8, <1>9 DEF PInv

\* There is no further line break: the print starts at first_line.
LEMMA EndSplitKeeps ==
  ASSUME PInv, P!EndSplit, UNCHANGED reading
  PROVE  PInv'
<1>1. /\ printer = "split" /\ P!Breaks = {} /\ i' = first_line /\ printer' = "print"
      /\ UNCHANGED <<str, prev, lineno, lines, num_common_spaces, first_line, last_line, out>>
  BY DEF P!EndSplit, P!found
<1>2. UNCHANGED <<file, cpp, pc>> /\ Written' = Written
  BY WrittenStays DEF reading
<1>3. /\ str \in Seq(Read) /\ Len(str) \in Nat /\ prev \in 0 .. Len(str)
      /\ lines \in Lines
  BY LinesAre DEF PInv, SplitOK
<1>4. \A k \in prev + 1 .. Len(str) : str[k] # NL
  BY <1>1, <1>3, SameNames DEF P!Breaks
<1>5. SplitOK'
  <2>1. PICK k \in 1 .. Len(str) : str[k] = NL
    BY <1>1 DEF PInv, HasBreak
  <2>2. prev \in Nat /\ prev # 0 /\ prev \in 1 .. Len(str) /\ str[prev] = NL
    BY <1>3, <1>4, <2>1 DEF PInv, SplitOK
  <2>3. lines = LinesTo(str, prev - 1) \o LineAt(str, prev)
    <3>1. prev - 1 \in Nat /\ prev - 1 < Len(str) /\ (prev - 1) + 1 = prev
      BY <1>3, <2>2
    <3>2. LinesTo(str, (prev - 1) + 1) = LinesTo(str, prev - 1) \o LineAt(str, (prev - 1) + 1)
      BY <1>3, <3>1, LinesToGrows
    <3> QED BY <3>1, <3>2 DEF PInv, SplitOK
  <2>4. Len(LineAt(str, prev)) = 1 /\ LineAt(str, prev) \in Seq(Seq(Read))
    BY <1>3, <2>2, LineAtIs
  <2>5. LinesTo(str, prev - 1) \in Seq(Seq(Read))
    BY <1>3, <2>2, LinesToType
  <2> DEFINE a == LinesTo(str, prev - 1)
             b == LineAt(str, prev)
  <2>6. Len(a \o b) # 0
    <3>1. a \in Seq(Seq(Read)) /\ b \in Seq(Seq(Read)) /\ Len(b) = 1
      BY <2>4, <2>5
    <3> HIDE DEF a, b
    <3>2. Len(a \o b) = Len(a) + Len(b)
      BY <3>1, ConcatProperties
    <3>3. Len(a) \in Nat
      BY <3>1
    <3> QED BY <3>1, <3>2, <3>3
  <2>7. Len(lines) # 0
    BY <2>3, <2>6
  <2> QED BY <1>1, <1>4, <2>7 DEF PInv, SplitOK
<1>6. SummaryOK'
  BY <1>1 DEF PInv, SummaryOK
<1>7. OutOK'
  <2>1. /\ first_line \in Nat /\ last_line \in Nat /\ Len(lines) \in Nat
        /\ first_line <= last_line /\ last_line <= Len(lines)
    BY <1>3, SummaryOrder, LinesAre DEF PInv, SummaryOK, Summary
  <2>2. out = <<>> /\ Len(out) = 0
    BY <1>1 DEF PInv, OutOK
  <2>3. first_line <= Len(lines)
    BY <2>1
  <2> QED BY <1>1, <2>1, <2>2, <2>3 DEF PInv, OutOK
<1> QED BY <1>1, <1>2, <1>5, <1>6, <1>7 DEF PInv

\* What is printed of a line, without the common spaces.
LEMMA PrintedIs ==
  ASSUME NEW l \in Seq(Read), num_common_spaces \in Nat
  PROVE  P!Printed(l) \in Seq(Character)
<1> DEFINE c == P!Lesser(num_common_spaces, Len(l))
           a == P!Indentation
           r == SubSeq(l, c + 1, Len(l))
<1>1. CASE l = <<>>
  <2>1. P!Printed(l) = <<>>
    BY <1>1 DEF P!Printed
  <2> QED BY <2>1
<1>2. CASE l # <<>>
  <2>1. P!Printed(l) = a \o r
    BY <1>2 DEF P!Printed
  <2>2. Indent \in Nat
    BY EmbeddingAssumption DEF EmbeddingAssumption
  <2>3. a \in [1 .. Indent -> Character]
    BY DEF Character, P!Indentation
  <2>4. a \in Seq(Character)
    <3> HIDE DEF a
    <3> QED BY <2>2, <2>3, FunctionIsSeq
  <2>5. c \in Nat /\ c <= Len(l) /\ Len(l) \in Nat
    BY DEF P!Lesser
  <2>6. r \in Seq(Read)
    <3> HIDE DEF c
    <3> QED BY <2>5, PartIs
  <2>7. r \in Seq(Character)
    <3> HIDE DEF r
    <3> QED BY <2>6 DEF Character
  <2> HIDE DEF a, r
  <2>8. a \o r \in Seq(Character)
    BY <2>4, <2>7, ConcatProperties
  <2> QED BY <2>1, <2>8
<1> QED BY <1>1, <1>2

\* A line is printed: there is one.
LEMMA PrintLineKeeps ==
  ASSUME PInv, P!PrintLine, UNCHANGED reading
  PROVE  PInv'
<1> DEFINE p == P!Printed(lines[i + 1])
<1>0. i < Len(lines)
  <2>1. printer = "print" /\ i <= last_line
    BY DEF P!PrintLine
  <2>2. lines \in Lines /\ Len(lines) \in Nat /\ Len(lines) # 0
    BY <2>1, LinesAre DEF PInv, SplitOK
  <2>3. last_line < Len(lines) /\ last_line \in Nat
    BY <2>2, SummaryOrder DEF PInv, SummaryOK, Summary
  <2>4. i \in Nat
    BY DEF PInv, OutOK
  <2> QED BY <2>1, <2>2, <2>3, <2>4
<1>1. /\ printer = "print" /\ i <= last_line /\ i < Len(lines)
      /\ out' = Append(out, p) /\ i' = i + 1
      /\ UNCHANGED <<str, printer, prev, lineno, lines, num_common_spaces, first_line, last_line>>
  BY <1>0 DEF P!PrintLine, P!found
<1>2. UNCHANGED <<file, cpp, pc>> /\ Written' = Written
  BY WrittenStays DEF reading
<1>3. /\ lines \in Lines /\ Len(lines) \in Nat /\ i \in Nat /\ out \in Seq(Seq(Character))
      /\ first_line \in Nat /\ last_line \in Nat /\ num_common_spaces \in Nat
      /\ first_line <= i /\ Len(out) = i - first_line
      /\ \A n \in 1 .. Len(out) : out[n] = P!Printed(lines[first_line + n])
  <2>1. SizeMax \in Nat
    BY SizeMaxType
  <2> QED BY <1>1, <2>1, LinesAre DEF PInv, SummaryOK, Summary, OutOK
<1>4. p \in Seq(Character)
  <2>1. lines[i + 1] \in Seq(Read)
    BY <1>1, <1>3 DEF Lines
  <2> QED BY <1>3, <2>1, PrintedIs
<1>5. p = P!Printed(lines[first_line + (Len(out) + 1)])
  <2>1. first_line + (Len(out) + 1) = i + 1
    BY <1>3
  <2> QED BY <2>1
<1> HIDE DEF p
<1>6. /\ out' \in Seq(Seq(Character)) /\ Len(out') = Len(out) + 1 /\ Len(out) \in Nat
      /\ out'[Len(out) + 1] = p
      /\ \A n \in 1 .. Len(out) : out'[n] = out[n]
  <2>1. out \in Seq(Seq(Character)) /\ p \in Seq(Character) /\ out' = Append(out, p)
    BY <1>1, <1>3, <1>4
  <2> QED BY <2>1
<1>7. \A l : P!Printed(l)' = P!Printed(l)
  BY <1>1 DEF P!Printed
<1>8. \A n \in 1 .. Len(out') : out'[n] = P!Printed(lines[first_line + n])
  <2> SUFFICES ASSUME NEW n \in 1 .. Len(out')
               PROVE  out'[n] = P!Printed(lines[first_line + n])
    OBVIOUS
  <2>1. CASE n = Len(out) + 1
    BY <1>5, <1>6, <2>1
  <2>2. CASE n \in 1 .. Len(out)
    BY <1>3, <1>6, <2>2
  <2> QED BY <1>6, <2>1, <2>2
<1>9. OutOK'
  <2>1. (\A n \in 1 .. Len(out) : out[n] = P!Printed(lines[first_line + n]))'
    BY <1>1, <1>8 DEF P!Printed
  <2>2. /\ i' \in Nat /\ first_line' <= i' /\ i' <= last_line' + 1 /\ i' <= Len(lines')
        /\ Len(out') = i' - first_line'
    BY <1>1, <1>3, <1>6
  <2> QED BY <1>1, <1>6, <2>1, <2>2 DEF OutOK
<1>10. SplitOK' /\ SummaryOK'
  BY <1>1 DEF PInv, SplitOK, SummaryOK
<1> QED BY <1>1, <1>2, <1>9, <1>10 DEF PInv

\* The end of the print.
LEMMA EndPrintKeeps ==
  ASSUME PInv, P!EndPrint, UNCHANGED reading
  PROVE  PInv'
<1>1. /\ printer = "print" /\ printer' = "done" /\ i > last_line
      /\ UNCHANGED <<str, prev, lineno, lines, num_common_spaces, first_line, last_line, i, out>>
  BY DEF P!EndPrint, P!found
<1>2. UNCHANGED <<file, cpp, pc>> /\ Written' = Written
  BY WrittenStays DEF reading
<1>3. SplitOK' /\ SummaryOK'
  BY <1>1 DEF PInv, SplitOK, SummaryOK
<1>4. i \in Nat /\ last_line \in Nat /\ i <= last_line + 1
  BY <1>1 DEF PInv, OutOK, SummaryOK, Summary
<1>5. (\A n \in 1 .. Len(out) : out[n] = P!Printed(lines[first_line + n]))'
  BY <1>1 DEF PInv, OutOK, P!Printed
<1>6. OutOK'
  BY <1>1, <1>4, <1>5 DEF PInv, OutOK
<1> QED BY <1>1, <1>2, <1>3, <1>6 DEF PInv

\* Every step of the tag keeps the invariant.
LEMMA PrintingKeeps ==
  ASSUME PInv, PrintLines
  PROVE  PInv'
BY SplitLineKeeps, EndSplitKeeps, PrintLineKeeps, EndPrintKeeps DEF PrintLines, P!Next

\* Before a tag is printed, stringify goes on; then it has ended.
LEMMA PrintingWaits ==
  ASSUME PInv, Stringify
  PROVE  PInv'
<1>1. /\ S!Next
      /\ UNCHANGED <<str, printer, prev, lineno, lines, num_common_spaces, first_line, last_line,
                     i, out>>
  BY DEF Stringify, printing
<1>2. pc \in {"main", "getline", "return"}
  BY <1>1 DEF S!Next, S!Call, S!ReadChunk, S!BackFails, S!ReadEnd, S!ReadError, S!WriteLine
<1>3. printer = "waiting" /\ Untouched
  BY <1>2 DEF PInv
<1>4. (printer = "waiting" /\ Untouched)'
  BY <1>1, <1>3 DEF Untouched
<1>5. SplitOK' /\ SummaryOK'
  BY <1>1 DEF PInv, SplitOK, SummaryOK
<1>6. OutOK'
  BY <1>1, <1>3 DEF PInv, OutOK
<1> QED BY <1>4, <1>5, <1>6 DEF PInv

\* And so does a step that changes nothing.
LEMMA PrintingStays ==
  ASSUME PInv, UNCHANGED vars
  PROVE  PInv'
<1>1. /\ UNCHANGED <<str, printer, prev, lineno, lines, num_common_spaces, first_line, last_line,
                     i, out>>
      /\ UNCHANGED <<file, cpp, pc>>
  BY DEF vars, reading, printing
<1>2. Written' = Written
  BY <1>1, WrittenStays
<1>3. SplitOK' /\ SummaryOK' /\ (Untouched <=> Untouched')
  BY <1>1 DEF PInv, SplitOK, SummaryOK, Untouched
<1>4. (\A n \in 1 .. Len(out) : out[n] = P!Printed(lines[first_line + n]))'
        <=> \A n \in 1 .. Len(out) : out[n] = P!Printed(lines[first_line + n])
  BY <1>1 DEF P!Printed
<1>5. OutOK'
  BY <1>1, <1>4 DEF PInv, OutOK
<1> QED BY <1>1, <1>2, <1>3, <1>5 DEF PInv

EInv == SInv /\ PInv

\* The text of the file goes into the literals line by line, and the lines of
\* the string go into lines and, from the first to the last filled one, to the
\* page.
THEOREM Invariance == Spec => []EInv
<1>1. Init => EInv
  <2> SUFFICES ASSUME Init PROVE EInv
    OBVIOUS
  <2>1. SInv
    BY SInvAtStart DEF Init
  <2>2. Untouched /\ printer = "waiting"
    BY DEF Init, Untouched
  <2>3. SplitOK /\ SummaryOK /\ OutOK
    BY <2>1, <2>2, UntouchedIsFine DEF SInv
  <2> QED BY <2>1, <2>2, <2>3 DEF EInv, PInv
<1>2. EInv /\ [Next]_vars => EInv'
  <2> SUFFICES ASSUME EInv, [Next]_vars PROVE EInv'
    OBVIOUS
  <2> USE DEF EInv
  <2>1. CASE Stringify
    <3>1. SInv'
      BY <2>1, StringifyKeeps DEF Stringify
    <3> QED BY <2>1, <3>1, PrintingWaits
  <2>2. CASE PrintTag
    <3>1. UNCHANGED reading
      BY <2>2 DEF PrintTag
    <3> QED BY <2>2, <3>1, ReadingStays, PrintTagKeeps
  <2>3. CASE PrintLines
    <3>1. UNCHANGED reading
      BY <2>3 DEF PrintLines
    <3> QED BY <2>3, <3>1, ReadingStays, PrintingKeeps
  <2>4. CASE UNCHANGED vars
    <3>1. UNCHANGED reading
      BY <2>4 DEF vars
    <3> QED BY <2>4, <3>1, ReadingStays, PrintingStays
  <2> QED BY <2>1, <2>2, <2>3, <2>4 DEF Next
<1> QED BY <1>1, <1>2, PTL DEF Spec

-----------------------------------------------------------------------------
(* What follows from the invariant.                                        *)

\* The type invariant of the tag follows.
LEMMA TagTyped ==
  ASSUME EInv, printer # "waiting"
  PROVE  P!TypeOK
<1>1. /\ str \in Seq(Read) /\ prev \in 0 .. Len(str) /\ lineno = Len(lines)
      /\ lines \in Lines /\ Len(lines) \in Nat
  BY LinesAre DEF EInv, PInv, SplitOK
<1>2. /\ num_common_spaces \in 0 .. SizeMax /\ first_line \in Nat /\ last_line \in Nat
      /\ first_line <= last_line /\ last_line <= Len(lines)
  BY <1>1, SummaryOrder DEF EInv, PInv, SummaryOK, Summary
<1>3. printer \in {"split", "print", "done"}
  BY DEF EInv, PInv
<1>4. i \in 0 .. last_line + 1
  BY <1>2, <1>3 DEF EInv, PInv, OutOK
<1>5. \A k \in DOMAIN out : out[k] \in Seq(Character)
  BY DEF EInv, PInv, OutOK
<1>6. Read = FileChar \cup {Garbled}
  BY DEF Read
<1> QED BY <1>1, <1>2, <1>3, <1>4, <1>5, <1>6 DEF P!TypeOK, Character

\* Every variable of both programs has its type: prev, i and the indices of the
\* first and the last line stay within the text and its lines.
THEOREM TypeCorrect == Spec => []TypeOK
<1>1. EInv => TypeOK
  BY SInvGives, TagTyped DEF EInv, TypeOK
<1> QED BY <1>1, Invariance, PTL

\* What stringify has written and the line in hand are the text it has read,
\* wherever fgets cuts a line.
THEOREM ReadsEverything == Spec => []NothingLostOrDoubled
<1>1. EInv => NothingLostOrDoubled
  BY SInvGives DEF EInv
<1> QED BY <1>1, Invariance, PTL

\* Every literal ends with the escape of a line break, and has no other.
THEOREM LiteralsAreLines == Spec => []OneLiteralPerLine
<1>1. EInv => OneLiteralPerLine
  BY SInvGives DEF EInv
<1> QED BY <1>1, Invariance, PTL

\* The safety part of WritesAllLines.
SuccessWritesAll == S!Ordinary /\ pc = "done" => StringOf(cpp) = SubSeq(file, 1, S!LastBreak)

\* When stringify has succeeded on an ordinary file, it has written all lines
\* that end with a line break.
THEOREM SuccessIsTheFile == Spec => []SuccessWritesAll
<1>1. EInv => SuccessWritesAll
  BY DEF EInv, SInv, TextOK, Written, SuccessWritesAll
<1> QED BY <1>1, Invariance, PTL

-----------------------------------------------------------------------------
(* The lines of a raw literal.                                             *)

\* A text that has ended has no lines but those found.
LEMMA LinesOfIs ==
  ASSUME NEW s \in Seq(Read)
  PROVE  P!LinesOf(s) = LinesTo(s, Len(s))
<1> DEFINE f == [k \in DOMAIN s |-> P!LineAt(s, k)]
           g == [k \in 1 .. Len(s) |-> LineAt(s, k)]
<1>1. f = g
  BY DEF LineAt
<1>2. P!LinesOf(s) = P!FlattenSeq(f)
  BY Zenon DEF P!LinesOf
<1>3. LinesTo(s, Len(s)) = FlattenSeq(g)
  BY DEF LinesTo
<1>4. P!FlattenSeq(f) = FlattenSeq(f)
  BY SameNames
<1> HIDE DEF f, g
<1> QED BY <1>1, <1>2, <1>3, <1>4

\* Once the loop is over, the lines found are those of the text.
LEMMA AllLinesFound ==
  ASSUME PInv, printer \in {"print", "done"}
  PROVE  P!TextLines = lines
<1>1. /\ str \in Seq(Read) /\ Len(str) \in Nat /\ prev \in Nat /\ prev <= Len(str)
      /\ lines = LinesTo(str, prev)
      /\ \A k \in prev + 1 .. Len(str) : str[k] # NL
  BY DEF PInv, SplitOK
<1>2. LinesTo(str, Len(str)) = LinesTo(str, prev)
  BY <1>1, LinesToStays
<1>3. P!TextLines = P!LinesOf(str)
  BY DEF P!TextLines
<1> QED BY <1>1, <1>2, <1>3, LinesOfIs

\* Lines found stay where they are.
LEMMA LinesToKeeps ==
  ASSUME NEW s \in Seq(Read), NEW m \in 0 .. Len(s), NEW n \in m .. Len(s),
         NEW k \in 1 .. Len(LinesTo(s, m))
  PROVE  LinesTo(s, n)[k] = LinesTo(s, m)[k]
<1> DEFINE c == Len(LinesTo(s, m))
           T == {j \in Nat : /\ c <= Len(LinesTo(s, m + j))
                             /\ LinesTo(s, m + j)[k] = LinesTo(s, m)[k]}
<1>0. m \in Nat /\ n \in Nat /\ n - m \in Nat /\ m <= Len(s) /\ Len(s) \in Nat
  OBVIOUS
<1>1. LinesTo(s, m) \in Seq(Seq(Read)) /\ c \in Nat
  BY <1>0, LinesToType
<1>2. 0 \in T
  <2>1. m + 0 = m
    BY <1>0
  <2> QED BY <1>1, <2>1
<1>3. ASSUME NEW j \in 0 .. (n - m) - 1, j \in T
      PROVE  j + 1 \in T
  <2>1. m + j \in Nat /\ m + j < Len(s) /\ m + j + 1 \in 1 .. Len(s) /\ m + (j + 1) = m + j + 1
        /\ j + 1 \in Nat
    BY <1>0
  <2> DEFINE a == LinesTo(s, m + j)
             b == LineAt(s, m + j + 1)
  <2>2. LinesTo(s, m + (j + 1)) = a \o b
    BY <2>1, LinesToGrows
  <2>3. a \in Seq(Seq(Read)) /\ b \in Seq(Seq(Read))
    BY <2>1, LinesToType, LineAtIs
  <2>4. c <= Len(a) /\ a[k] = LinesTo(s, m)[k]
    BY <1>3
  <2> HIDE DEF a, b, c
  <2>5. k \in 1 .. Len(a)
    BY <1>1, <2>3, <2>4 DEF c
  <2>6. (a \o b)[k] = a[k] /\ Len(a) <= Len(a \o b)
    BY <2>3, <2>5
  <2>7. c <= Len(a \o b)
    BY <1>1, <2>3, <2>4, <2>6
  <2> QED BY <2>1, <2>2, <2>4, <2>6, <2>7
<1> HIDE DEF T
<1>4. \A j \in 0 .. n - m : j \in T
  BY <1>0, <1>2, <1>3, InductionUpTo
<1>5. n - m \in T /\ m + (n - m) = n
  BY <1>0, <1>4
<1> QED BY <1>5 DEF T

\* The first line of a raw literal is empty.
LEMMA RawLiteralStarts ==
  ASSUME NEW s \in Seq(Read), s # <<>>, s[1] = NL
  PROVE  1 \notin Filled(LinesTo(s, Len(s)))
<1> DEFINE l == SubSeq(s, 1, 0)
<1>1. Len(s) \in Nat /\ 1 \in 1 .. Len(s) /\ 1 \in 0 .. Len(s) /\ Len(s) \in 1 .. Len(s)
  OBVIOUS
<1>2. LinesTo(s, 1) = <<<<>>>>
  <2>1. LinesTo(s, 0 + 1) = LinesTo(s, 0) \o LineAt(s, 0 + 1)
    BY <1>1, LinesToGrows
  <2>2. LinesTo(s, 0) = <<>>
    BY LinesToStart
  <2>3. LineStart(s, 1) = 0
    BY LineStartIs
  <2>4. LineAt(s, 1) = <<SubSeq(s, 0 + 1, 1 - 1)>>
    BY <1>1, <2>3, LineAtIs
  <2>5. SubSeq(s, 0 + 1, 1 - 1) = <<>>
    OBVIOUS
  <2>6. LineAt(s, 1) = <<<<>>>>
    BY <2>4, <2>5
  <2>7. LinesTo(s, 1) = <<>> \o LineAt(s, 1)
    <3>1. 0 + 1 = 1
      OBVIOUS
    <3> QED BY <2>1, <2>2, <3>1, Zenon
  <2>8. LineAt(s, 1) \in Seq(Seq(Read))
    BY <1>1, LineAtIs
  <2>9. <<>> \o LineAt(s, 1) = LineAt(s, 1)
    BY <2>8
  <2> QED BY <2>6, <2>7, <2>9
<1>3. LinesTo(s, Len(s))[1] = <<>>
  <2>1. 1 \in 1 .. Len(LinesTo(s, 1)) /\ LinesTo(s, 1)[1] = <<>>
    BY <1>2
  <2>2. LinesTo(s, Len(s))[1] = LinesTo(s, 1)[1]
    BY <1>1, <2>1, LinesToKeeps
  <2> QED BY <2>1, <2>2
<1> QED BY <1>3 DEF Filled

\* What is left of a line that is not empty.
LEMMA PrintedCuts ==
  ASSUME NEW l \in Seq(Read), l # <<>>, num_common_spaces \in Nat, num_common_spaces <= Spaces(l)
  PROVE  P!Printed(l) = P!Indentation \o SubSeq(l, num_common_spaces + 1, Len(l))
<1>1. num_common_spaces <= Len(l) /\ Len(l) \in Nat
  BY SpacesAre
<1>2. P!Lesser(num_common_spaces, Len(l)) = num_common_spaces
  BY <1>1 DEF P!Lesser
<1> QED BY <1>2 DEF P!Printed

\* The whole print, by lines.
LEMMA AllPrinted ==
  ASSUME PInv, printer = "done"
  PROVE  /\ out \in Seq(Seq(Character))
         /\ first_line \in Nat /\ last_line \in Nat /\ first_line <= last_line
         /\ lines \in Lines /\ Len(lines) \in Nat /\ last_line < Len(lines)
         /\ Len(out) = last_line + 1 - first_line
         /\ \A n \in 1 .. Len(out) : out[n] = P!Printed(lines[first_line + n])
<1>1. lines \in Lines /\ Len(lines) \in Nat
  BY LinesAre DEF PInv
<1>2. first_line \in Nat /\ last_line \in Nat /\ first_line <= last_line
  BY <1>1, SummaryOrder DEF PInv, SummaryOK, Summary
<1>3. /\ out \in Seq(Seq(Character)) /\ i = last_line + 1 /\ i <= Len(lines)
      /\ Len(out) = i - first_line
      /\ \A n \in 1 .. Len(out) : out[n] = P!Printed(lines[first_line + n])
  BY DEF PInv, OutOK
<1> QED BY <1>1, <1>2, <1>3

\* What the loop notes is what the lines have.
LEMMA SummaryIs ==
  ASSUME NEW ls \in Lines, NEW common, NEW first, NEW last, Summary(ls, common, first, last)
  PROVE  /\ P!FirstPrinted(ls) = first + 1
         /\ P!LastPrinted(ls) = last + 1
         /\ Filled(ls) # {} => P!CommonSpaces(ls) = common
<1> DEFINE F == Filled(ls)
           later == F \ {1}
           C == {Spaces(ls[k]) : k \in F}
           Least(n) == \A k \in F : n <= Spaces(ls[k])
<1>1. P!FullLines(ls) = F /\ F \subseteq 1 .. Len(ls) /\ Len(ls) \in Nat
  BY DEF P!FullLines, Filled, Lines
<1>2. first \in Nat /\ last \in Nat /\ FirstOf(ls, first) /\ LastOf(ls, last) /\ FewestOf(ls, common)
  BY DEF Summary
<1>3. P!FirstPrinted(ls) = IF later = {} THEN 1 ELSE CHOOSE n \in later : \A k \in later : n <= k
  <2> DEFINE At(X) == IF X = {} THEN 1 ELSE CHOOSE n \in X : \A k \in X : n <= k
  <2>1. P!FirstPrinted(ls) = At(P!FullLines(ls) \ {1})
    BY Zenon DEF P!FirstPrinted
  <2> HIDE DEF At, F
  <2>2. P!FirstPrinted(ls) = At(F \ {1})
    BY <1>1, <2>1
  <2> QED BY <2>2 DEF At
<1>4. P!LastPrinted(ls) = IF F = {} THEN 1 ELSE CHOOSE n \in F : \A k \in F : k <= n
  <2> DEFINE At(X) == IF X = {} THEN 1 ELSE CHOOSE n \in X : \A k \in X : k <= n
  <2>1. P!LastPrinted(ls) = At(P!FullLines(ls))
    BY Zenon DEF P!LastPrinted
  <2> HIDE DEF At, F
  <2>2. P!LastPrinted(ls) = At(F)
    BY <1>1, <2>1
  <2> QED BY <2>2 DEF At
<1>5. P!CommonSpaces(ls) = CHOOSE n \in C : Least(n)
  BY <1>1, Zenon DEF P!CommonSpaces, Spaces
<1>6. \A k \in F : Spaces(ls[k]) \in Nat
  <2> SUFFICES ASSUME NEW k \in F PROVE Spaces(ls[k]) \in Nat
    OBVIOUS
  <2>1. ls[k] \in Seq(Read)
    BY <1>1 DEF Lines
  <2> QED BY <2>1, SpacesAre
<1>7. P!FirstPrinted(ls) = first + 1
  <2>1. CASE later = {}
    BY <1>2, <1>3, <2>1 DEF FirstOf
  <2>2. CASE later # {}
    <3>1. first + 1 \in later /\ \A k \in later : first + 1 <= k
      BY <1>2, <2>2 DEF FirstOf
    <3> DEFINE n == CHOOSE n \in later : \A k \in later : n <= k
    <3>2. later \subseteq Nat
      BY <1>1
    <3> HIDE DEF later
    <3>3. n \in later /\ \A k \in later : n <= k
      BY <3>1
    <3> HIDE DEF n
    <3>4. n = first + 1
      BY <1>2, <3>1, <3>2, <3>3
    <3> QED BY <1>3, <2>2, <3>4 DEF n
  <2> QED BY <2>1, <2>2
<1>8. P!LastPrinted(ls) = last + 1
  <2>1. CASE F = {}
    BY <1>2, <1>4, <2>1 DEF LastOf
  <2>2. CASE F # {}
    <3>1. last + 1 \in F /\ \A k \in F : k <= last + 1
      BY <1>2, <2>2 DEF LastOf
    <3> DEFINE n == CHOOSE n \in F : \A k \in F : k <= n
    <3>2. F \subseteq Nat
      BY <1>1
    <3> HIDE DEF F
    <3>3. n \in F /\ \A k \in F : k <= n
      BY <3>1
    <3> HIDE DEF n
    <3>4. n = last + 1
      BY <1>2, <3>1, <3>2, <3>3
    <3> QED BY <1>4, <2>2, <3>4 DEF n
  <2> QED BY <2>1, <2>2
<1>9. ASSUME F # {}
      PROVE  P!CommonSpaces(ls) = common
  <2>1. common \in C /\ Least(common)
    BY <1>2, <1>9 DEF FewestOf
  <2> DEFINE n == CHOOSE n \in C : Least(n)
  <2>2. n \in C /\ Least(n)
    <3> HIDE DEF C, Least
    <3> QED BY <2>1
  <2>3. C \subseteq Nat
    BY <1>6
  <2> HIDE DEF n
  <2>4. n <= common /\ common <= n
    BY <2>1, <2>2
  <2>5. n = common
    BY <2>1, <2>2, <2>3, <2>4
  <2> QED BY <1>5, <2>5, Zenon DEF n
<1> QED BY <1>7, <1>8, <1>9

\* What is printed is a function of the lines of the text.
LEMMA TagPrintsItsLines == EInv => PrintsItsLines
<1> SUFFICES ASSUME EInv, printer = "done"
             PROVE  out = P!PrintedLines(P!TextLines, P!Indentation)
  BY DEF PrintsItsLines, P!PrintsItsLines
<1> DEFINE ind == P!Indentation
           from == P!FirstPrinted(lines)
           to == P!LastPrinted(lines)
<1>1. P!TextLines = lines
  BY AllLinesFound DEF EInv
<1>2. /\ out \in Seq(Seq(Character))
      /\ first_line \in Nat /\ last_line \in Nat /\ first_line <= last_line
      /\ lines \in Lines /\ Len(lines) \in Nat /\ last_line < Len(lines)
      /\ Len(out) = last_line + 1 - first_line
      /\ \A n \in 1 .. Len(out) : out[n] = P!Printed(lines[first_line + n])
  BY AllPrinted DEF EInv
<1>3. Summary(lines, num_common_spaces, first_line, last_line)
  BY DEF EInv, PInv, SummaryOK
<1>4. /\ from = first_line + 1 /\ to = last_line + 1
      /\ Filled(lines) # {} => P!CommonSpaces(lines) = num_common_spaces
  BY <1>2, <1>3, SummaryIs
<1>5. num_common_spaces \in Nat /\ \A k \in Filled(lines) : num_common_spaces <= Spaces(lines[k])
  BY <1>3, SizeMaxType DEF Summary, FewestOf
<1> HIDE DEF from, to
<1>6. ASSUME NEW n \in 1 .. Len(out)
      PROVE  out[n] = P!CutLine(lines, from + n - 1, ind)
  <2> DEFINE k == first_line + n
  <2>1. k \in 1 .. Len(lines) /\ from + n - 1 = k
    BY <1>2, <1>4
  <2>2. lines[k] \in Seq(Read)
    BY <1>2, <2>1 DEF Lines
  <2>3. out[n] = P!Printed(lines[k])
    BY <1>2
  <2> HIDE DEF k
  <2>4. CASE lines[k] = <<>>
    BY <2>1, <2>3, <2>4 DEF P!Printed, P!CutLine
  <2>5. CASE lines[k] # <<>>
    <3>1. k \in Filled(lines)
      BY <2>1, <2>5 DEF Filled
    <3>2. P!CommonSpaces(lines) = num_common_spaces /\ num_common_spaces <= Spaces(lines[k])
      BY <1>4, <1>5, <3>1
    <3>3. P!Printed(lines[k]) = ind \o SubSeq(lines[k], num_common_spaces + 1, Len(lines[k]))
      BY <1>5, <2>2, <2>5, <3>2, PrintedCuts
    <3>4. P!CutLine(lines, k, ind) = ind \o SubSeq(lines[k], num_common_spaces + 1, Len(lines[k]))
      BY <2>5, <3>2, Zenon DEF P!CutLine
    <3> QED BY <2>1, <2>3, <3>3, <3>4
  <2> QED BY <2>4, <2>5
<1>7. to - from + 1 = Len(out) /\ out = [n \in 1 .. Len(out) |-> out[n]]
  BY <1>2, <1>4
<1>8. P!PrintedLines(lines, ind) = [n \in 1 .. to - from + 1 |-> P!CutLine(lines, from + n - 1, ind)]
  BY Zenon DEF P!PrintedLines, from, to
<1> QED BY <1>1, <1>6, <1>7, <1>8

\* What is printed of a raw literal is its lines, dedented.
LEMMA RawLiteralIsDedented == EInv => RawLiteralsDedented
<1> SUFFICES ASSUME EInv, printer = "done", P!RawLiteral, P!Full # {}
             PROVE  out = P!Dedented
  BY DEF RawLiteralsDedented, P!RawLiteralsDedented
<1> DEFINE ls == P!TextLines
           ind == P!Indentation
           F == P!FullLines(ls)
           from == CHOOSE n \in F : \A k \in F : n <= k
           to == CHOOSE n \in F : \A k \in F : k <= n
<1>1. out = P!PrintedLines(ls, ind)
  BY TagPrintsItsLines DEF PrintsItsLines, P!PrintsItsLines
<1>2. F # {} /\ P!Full = F
  BY DEF P!Full
<1>3. F \ {1} = F
  <2>1. ls = lines /\ lines \in Lines
    BY AllLinesFound, LinesAre DEF EInv, PInv
  <2>2. str \in Seq(Read) /\ str # <<>> /\ str[1] = NL
    BY SameNames DEF EInv, PInv, SplitOK, P!RawLiteral
  <2>3. ls = LinesTo(str, Len(str))
    BY <2>2, LinesOfIs DEF P!TextLines
  <2>4. 1 \notin Filled(ls)
    BY <2>2, <2>3, RawLiteralStarts
  <2>5. F = Filled(ls)
    BY <2>1 DEF P!FullLines, Filled, Lines
  <2> QED BY <2>4, <2>5
<1>4. P!FirstPrinted(ls) = from
  <2> DEFINE Out(X) == IF X = {} THEN 1 ELSE CHOOSE n \in X : \A k \in X : n <= k
  <2>1. P!FirstPrinted(ls) = Out(F \ {1})
    BY Zenon DEF P!FirstPrinted
  <2>2. Out(F) = from
    BY <1>2
  <2> HIDE DEF F
  <2> QED BY <1>3, <2>1, <2>2
<1>5. P!LastPrinted(ls) = to
  BY <1>2, Zenon DEF P!LastPrinted
<1>6. P!Dedented = [n \in 1 .. to - from + 1 |-> P!CutLine(ls, from + n - 1, ind)]
  BY Zenon DEF P!Dedented, P!Full
<1> HIDE DEF ls, from, to, F
<1>7. P!PrintedLines(ls, ind) = [n \in 1 .. to - from + 1 |-> P!CutLine(ls, from + n - 1, ind)]
  BY <1>4, <1>5, Zenon DEF P!PrintedLines
<1> QED BY <1>1, <1>6, <1>7

\* The two loops of LongStringLiteral print what the renderers rely on: for
\* every text, the lines from FirstPrinted to LastPrinted, cut and indented.
THEOREM TagPrints == Spec => []PrintsItsLines
BY TagPrintsItsLines, Invariance, PTL

\* No index of LongStringLiteral is ever behind the lines it has found, where an
\* assert would end the program in the middle of a page.
NeverBehind == printer # "aborted"

\* Whatever file is embedded and wherever fgets cuts its lines: a text that
\* reaches the page has a line break, and the print of it does not abort.
THEOREM TagNeverAborts == Spec => []NeverBehind
<1>1. EInv => NeverBehind
  BY DEF EInv, PInv, NeverBehind
<1> QED BY <1>1, Invariance, PTL

\* The script or style sheet in the page: the lines of the literal with the
\* common spaces of all lines cut off and the indentation before them, from the
\* first line that is not empty to the last.
THEOREM RawLiteralsKeepLayout == Spec => []RawLiteralsDedented
BY RawLiteralIsDedented, Invariance, PTL

-----------------------------------------------------------------------------
(* What reaches the page of a file.                                        *)

\* The lines of the start of a file are the first lines of the file.
LEMMA LinesOfStart ==
  ASSUME NEW s \in Seq(Read), NEW t \in Seq(Read), NEW n \in Nat, n <= Len(s), n <= Len(t),
         \A k \in 1 .. n : t[k] = s[k]
  PROVE  LinesTo(t, n) = LinesTo(s, n)
<1> DEFINE f == [k \in 1 .. n |-> LineAt(t, k)]
           g == [k \in 1 .. n |-> LineAt(s, k)]
<1>1. ASSUME NEW k \in 1 .. n
      PROVE  LineAt(t, k) = LineAt(s, k)
  <2> DEFINE p == LineStart(s, k)
             a == SubSeq(s, p + 1, k - 1)
             b == SubSeq(t, p + 1, k - 1)
  <2>1. k \in 1 .. Len(s) /\ k \in 1 .. Len(t) /\ k \in Nat /\ k >= 1
    OBVIOUS
  <2>2. p \in 0 .. k - 1
    BY <2>1, LineStartType
  <2>3. LineStart(t, k) = p
    <3> DEFINE B == {0} \cup {j \in 1 .. k - 1 : s[j] = NL}
               C == {0} \cup {j \in 1 .. k - 1 : t[j] = NL}
    <3>1. B = C
      <4>1. \A j \in 1 .. k - 1 : t[j] = s[j]
        OBVIOUS
      <4> QED BY <4>1
    <3>2. /\ LineStart(s, k) = CHOOSE j \in B : \A l \in B : l <= j
          /\ LineStart(t, k) = CHOOSE j \in C : \A l \in C : l <= j
      BY Zenon DEF LineStart
    <3> HIDE DEF B, C
    <3> QED BY <3>1, <3>2
  <2> HIDE DEF p
  <2>4. p \in Nat /\ k - 1 \in Nat /\ p <= k - 1 /\ k - 1 <= Len(s) /\ k - 1 <= Len(t)
    BY <2>2
  <2>5. /\ a \in Seq(Read) /\ Len(a) = k - 1 - p
        /\ \A j \in 1 .. k - 1 - p : a[j] = s[p + j]
    BY <2>4, PartIs
  <2>6. /\ b \in Seq(Read) /\ Len(b) = k - 1 - p
        /\ \A j \in 1 .. k - 1 - p : b[j] = t[p + j]
    BY <2>4, PartIs
  <2>7. a = b
    <3> HIDE DEF a, b
    <3>1. ASSUME NEW j \in 1 .. Len(a) PROVE a[j] = b[j]
      <4>1. j \in 1 .. k - 1 - p /\ p + j \in 1 .. n
        BY <2>4, <2>5
      <4> QED BY <2>5, <2>6, <4>1
    <3> QED BY <2>5, <2>6, <3>1, SeqEqual
  <2> HIDE DEF a, b
  <2>8. /\ t[k] = s[k]
        /\ s[k] = NL => LineAt(s, k) = <<a>>
        /\ s[k] # NL => LineAt(s, k) = <<>>
        /\ t[k] = NL => LineAt(t, k) = <<b>>
        /\ t[k] # NL => LineAt(t, k) = <<>>
    BY <2>1, <2>3, LineAtIs DEF a, b, p
  <2> QED BY <2>7, <2>8
<1>2. f = g
  BY <1>1
<1> HIDE DEF f, g
<1>3. FlattenSeq(f) = FlattenSeq(g)
  BY <1>2
<1> QED BY <1>3 DEF LinesTo, f, g

\* After the last line break there is none.
LEMMA LastBreakEnds ==
  ASSUME file \in Seq(FileChar)
  PROVE  /\ S!LastBreak \in 0 .. Len(file)
         /\ \A k \in S!LastBreak + 1 .. Len(file) : file[k] # NL
<1> DEFINE T == {m \in 0 .. Len(file) : Len(file) - m # 0 => file[Len(file) - m] = NL}
<1>1. Len(file) \in Nat /\ T \subseteq Nat /\ Len(file) \in T
  OBVIOUS
<1>2. PICK m \in T : \A j \in T : m <= j
  <2> HIDE DEF T
  <2> QED BY <1>1, LeastNatural
<1>3. Len(file) - m \in 0 .. Len(file) /\ (Len(file) - m # 0 => file[Len(file) - m] = NL)
  BY <1>1, <1>2
<1>4. \A k \in Len(file) - m + 1 .. Len(file) : file[k] # NL
  <2> SUFFICES ASSUME NEW k \in Len(file) - m + 1 .. Len(file), file[k] = NL PROVE FALSE
    OBVIOUS
  <2>1. Len(file) - k \in 0 .. Len(file) /\ Len(file) - (Len(file) - k) = k /\ Len(file) - k < m
        /\ m \in Nat
    BY <1>1, <1>2, <1>3
  <2>2. Len(file) - k \in T
    BY <2>1
  <2> QED BY <1>2, <2>1, <2>2
<1>5. S!LastBreak = Len(file) - m
  <2> DEFINE n == Len(file) - m
  <2>1. /\ n \in 0 .. Len(file) /\ (n # 0 => file[n] = NL)
        /\ \A k \in n + 1 .. Len(file) : file[k] # NL
    BY <1>3, <1>4
  <2> HIDE DEF n
  <2>2. S!LastBreak = n
    BY <2>1, LastBreakIs
  <2> QED BY <2>2 DEF n
<1> QED BY <1>3, <1>4, <1>5

\* On an ordinary file, the tag finds the lines of the file.
LEMMA LinesAreTheFiles ==
  ASSUME SInv, PInv, printer = "done", S!Ordinary
  PROVE  lines = FileLines
<1> DEFINE n == S!LastBreak
<1>1. pc = "done" /\ str = Written
  BY DEF PInv
<1>2. str = SubSeq(file, 1, n)
  BY <1>1 DEF SInv, TextOK
<1>3. file \in Seq(Read) /\ Len(file) \in Nat
  BY FilesAre DEF SInv
<1>4. n \in 0 .. Len(file) /\ \A k \in n + 1 .. Len(file) : file[k] # NL
  BY FilesAre, LastBreakEnds DEF SInv
<1> HIDE DEF n
<1>5. n \in Nat /\ n <= Len(file)
  BY <1>3, <1>4
<1>6. /\ str \in Seq(Read) /\ Len(str) = n
      /\ \A k \in 1 .. n : str[k] = file[k]
  BY <1>2, <1>3, <1>5, StartIs
<1>7. LinesTo(str, n) = LinesTo(file, n)
  BY <1>3, <1>5, <1>6, LinesOfStart
<1>8. LinesTo(file, Len(file)) = LinesTo(file, n)
  BY <1>3, <1>4, <1>5, LinesToStays
<1>9. P!TextLines = lines
  BY AllLinesFound
<1>10. P!TextLines = LinesTo(str, Len(str))
  BY <1>6, LinesOfIs DEF P!TextLines
<1>11. FileLines = LinesTo(file, Len(file))
  BY <1>3, LinesOfIs DEF FileLines
<1> QED BY <1>6, <1>7, <1>8, <1>9, <1>10, <1>11

\* A line without the spaces it starts with; nothing of an empty one.
Strip(l) == IF l = <<>> THEN <<>> ELSE <<SubSeq(l, Spaces(l) + 1, Len(l))>>

\* Nothing is left exactly of an empty line.
LEMMA StripIs ==
  ASSUME NEW X, NEW l \in Seq(X)
  PROVE  Strip(l) \in Seq(Seq(X)) /\ (Strip(l) = <<>> <=> l = <<>>)
<1>1. Spaces(l) \in Nat /\ Spaces(l) <= Len(l) /\ Len(l) \in Nat
  BY SpacesAre
<1>2. SubSeq(l, Spaces(l) + 1, Len(l)) \in Seq(X)
  BY <1>1, PartIs
<1>3. CASE l = <<>>
  BY <1>3 DEF Strip
<1>4. CASE l # <<>>
  BY <1>2, <1>4 DEF Strip
<1> QED BY <1>3, <1>4

\* The lines without their spaces, put together.
LEMMA StrippedIs ==
  ASSUME NEW X, NEW ls \in Seq(Seq(X))
  PROVE  /\ [k \in 1 .. Len(ls) |-> Strip(ls[k])] \in Seq(Seq(Seq(X)))
         /\ Stripped(ls) = FlattenSeq([k \in 1 .. Len(ls) |-> Strip(ls[k])])
         /\ Stripped(ls) \in Seq(Seq(X))
<1> DEFINE f == [k \in 1 .. Len(ls) |-> Strip(ls[k])]
<1>1. Len(ls) \in Nat /\ DOMAIN ls = 1 .. Len(ls)
  OBVIOUS
<1>2. f \in [1 .. Len(ls) -> Seq(Seq(X))]
  <2>1. ASSUME NEW k \in 1 .. Len(ls) PROVE Strip(ls[k]) \in Seq(Seq(X))
    <3>1. ls[k] \in Seq(X)
      BY ElementsAreSequences
    <3> QED BY <3>1, StripIs
  <2> QED BY <2>1
<1>3. Stripped(ls) = FlattenSeq(f)
  BY <1>1, Zenon DEF Stripped, Strip, Spaces
<1> HIDE DEF f
<1>4. f \in Seq(Seq(Seq(X)))
  BY <1>1, <1>2, FunctionIsSeq
<1>5. FlattenSeq(f) \in Seq(Seq(X))
  BY <1>4, FlattenType
<1> QED BY <1>3, <1>4, <1>5 DEF f

\* Lines taken together.
LEMMA StrippedOfParts ==
  ASSUME NEW X, NEW a \in Seq(Seq(X)), NEW b \in Seq(Seq(X))
  PROVE  Stripped(a \o b) = Stripped(a) \o Stripped(b)
<1> DEFINE f == [k \in 1 .. Len(a) |-> Strip(a[k])]
           g == [k \in 1 .. Len(b) |-> Strip(b[k])]
           h == [k \in 1 .. Len(a \o b) |-> Strip((a \o b)[k])]
<1>1. /\ a \o b \in Seq(Seq(X)) /\ Len(a \o b) = Len(a) + Len(b) /\ Len(a) \in Nat /\ Len(b) \in Nat
      /\ \A k \in 1 .. Len(a) : (a \o b)[k] = a[k]
      /\ \A k \in 1 .. Len(b) : (a \o b)[Len(a) + k] = b[k]
  OBVIOUS
<1>2. f \in Seq(Seq(Seq(X))) /\ g \in Seq(Seq(Seq(X))) /\ h \in Seq(Seq(Seq(X)))
  BY <1>1, StrippedIs
<1>3. /\ Len(f) = Len(a) /\ Len(g) = Len(b) /\ Len(h) = Len(a) + Len(b)
      /\ \A k \in 1 .. Len(a) : h[k] = f[k]
      /\ \A k \in 1 .. Len(b) : h[Len(a) + k] = g[k]
  BY <1>1
<1>4. Stripped(a) = FlattenSeq(f) /\ Stripped(b) = FlattenSeq(g) /\ Stripped(a \o b) = FlattenSeq(h)
  BY <1>1, StrippedIs
<1> HIDE DEF f, g, h
<1>5. /\ f \o g \in Seq(Seq(Seq(X))) /\ Len(f \o g) = Len(h)
      /\ \A k \in 1 .. Len(f) : (f \o g)[k] = f[k]
      /\ \A k \in 1 .. Len(g) : (f \o g)[Len(f) + k] = g[k]
  <2> DEFINE T == Seq(Seq(X))
  <2>1. f \in Seq(T) /\ g \in Seq(T)
    BY <1>2
  <2> HIDE DEF T
  <2>2. f \o g \in Seq(T) /\ Len(f \o g) = Len(f) + Len(g)
    BY <2>1
  <2>3. /\ \A k \in 1 .. Len(f) : (f \o g)[k] = f[k]
        /\ \A k \in 1 .. Len(g) : (f \o g)[Len(f) + k] = g[k]
    BY <2>1, ConcatAt
  <2> QED BY <1>3, <2>2, <2>3 DEF T
<1>6. ASSUME NEW k \in 1 .. Len(h)
      PROVE  h[k] = (f \o g)[k]
  <2>1. CASE k \in 1 .. Len(a)
    BY <1>3, <1>5, <2>1
  <2>2. CASE k \notin 1 .. Len(a)
    <3>1. k - Len(a) \in 1 .. Len(b) /\ k = Len(a) + (k - Len(a))
      BY <1>1, <1>3, <2>2
    <3>2. (f \o g)[Len(a) + (k - Len(a))] = g[k - Len(a)]
      BY <1>3, <1>5, <3>1
    <3> QED BY <1>3, <3>1, <3>2
  <2> QED BY <2>1, <2>2
<1>7. h = f \o g
  BY <1>2, <1>5, <1>6, SeqEqual
<1> QED BY <1>2, <1>4, <1>7, FlattenConcat

\* Nothing is left exactly when every line is empty.
LEMMA StrippedEmpty ==
  ASSUME NEW X, NEW ls \in Seq(Seq(X))
  PROVE  Stripped(ls) = <<>> <=> \A k \in 1 .. Len(ls) : ls[k] = <<>>
<1> DEFINE f == [k \in 1 .. Len(ls) |-> Strip(ls[k])]
<1>1. /\ f \in Seq(Seq(Seq(X))) /\ Stripped(ls) = FlattenSeq(f)
      /\ Len(f) = Len(ls) /\ \A k \in 1 .. Len(ls) : f[k] = Strip(ls[k])
  <2>1. f \in Seq(Seq(Seq(X))) /\ Stripped(ls) = FlattenSeq(f)
    BY StrippedIs
  <2>2. Len(f) = Len(ls) /\ \A k \in 1 .. Len(ls) : f[k] = Strip(ls[k])
    OBVIOUS
  <2> QED BY <2>1, <2>2
<1> HIDE DEF f
<1>2. \A k \in 1 .. Len(ls) : f[k] \in Seq(Seq(X)) /\ (f[k] = <<>> <=> ls[k] = <<>>)
  <2> SUFFICES ASSUME NEW k \in 1 .. Len(ls)
               PROVE  f[k] \in Seq(Seq(X)) /\ (f[k] = <<>> <=> ls[k] = <<>>)
    OBVIOUS
  <2>1. ls[k] \in Seq(X)
    BY ElementsAreSequences
  <2> QED BY <1>1, <2>1, StripIs
<1>3. \A v : v \in Range(FlattenSeq(f)) <=> \E k \in 1 .. Len(f) : v \in Range(f[k])
  BY <1>1, FlattenRange
<1>4. \A q \in Seq(Seq(X)) : q = <<>> <=> \A v : v \notin Range(q)
  <2> SUFFICES ASSUME NEW q \in Seq(Seq(X)) PROVE q = <<>> <=> \A v : v \notin Range(q)
    OBVIOUS
  <2>1. q # <<>> => 1 \in DOMAIN q
    OBVIOUS
  <2>2. q = <<>> => DOMAIN q = {}
    OBVIOUS
  <2> QED BY <2>1, <2>2 DEF Range
<1>5. FlattenSeq(f) \in Seq(Seq(X))
  BY <1>1, FlattenType
<1>6. FlattenSeq(f) = <<>> <=> \A k \in 1 .. Len(f) : f[k] = <<>>
  BY <1>1, <1>2, <1>3, <1>4, <1>5
<1> QED BY <1>1, <1>2, <1>6

\* Cut into two parts.
LEMMA PartsOfPart ==
  ASSUME NEW X, NEW s \in Seq(X), NEW m \in Nat, NEW n \in Nat, NEW p \in Nat,
         m <= n, n <= p, p <= Len(s)
  PROVE  SubSeq(s, m + 1, p) = SubSeq(s, m + 1, n) \o SubSeq(s, n + 1, p)
<1> DEFINE a == SubSeq(s, m + 1, n)
           b == SubSeq(s, n + 1, p)
           c == SubSeq(s, m + 1, p)
<1>1. m <= p /\ n <= Len(s)
  OBVIOUS
<1>2. /\ a \in Seq(X) /\ Len(a) = n - m
      /\ \A k \in 1 .. n - m : a[k] = s[m + k]
  BY <1>1, PartIs
<1>3. /\ b \in Seq(X) /\ Len(b) = p - n
      /\ \A k \in 1 .. p - n : b[k] = s[n + k]
  BY PartIs
<1>4. /\ c \in Seq(X) /\ Len(c) = p - m
      /\ \A k \in 1 .. p - m : c[k] = s[m + k]
  BY <1>1, PartIs
<1> HIDE DEF a, b, c
<1>5. /\ a \o b \in Seq(X) /\ Len(a \o b) = Len(c)
      /\ \A k \in 1 .. n - m : (a \o b)[k] = a[k]
      /\ \A k \in 1 .. p - n : (a \o b)[(n - m) + k] = b[k]
  <2>1. a \o b \in Seq(X) /\ Len(a \o b) = Len(c)
    BY <1>2, <1>3, <1>4
  <2>2. n - m \in Nat
    OBVIOUS
  <2> QED BY <1>2, <1>3, <2>1, <2>2, ConcatAt, SMTT(30)
<1>6. ASSUME NEW k \in 1 .. Len(c)
      PROVE  c[k] = (a \o b)[k]
  <2>1. CASE k \in 1 .. n - m
    BY <1>2, <1>4, <1>5, <2>1
  <2>2. CASE k \notin 1 .. n - m
    <3> DEFINE j == k - (n - m)
    <3>1. j \in 1 .. p - n /\ (n - m) + j = k /\ n + j = m + k /\ k \in 1 .. p - m
      BY <1>4, <2>2
    <3> HIDE DEF j
    <3>2. (a \o b)[(n - m) + j] = s[n + j]
      BY <1>3, <1>5, <3>1
    <3> QED BY <1>4, <3>1, <3>2
  <2> QED BY <2>1, <2>2
<1>7. c = a \o b
  BY <1>4, <1>5, <1>6, SeqEqual
<1> QED BY <1>7 DEF a, b, c

\* A part of some lines.
LEMMA LinesPart ==
  ASSUME NEW s \in Lines, NEW m \in Nat, NEW n \in Nat, m <= n, n <= Len(s)
  PROVE  /\ SubSeq(s, m + 1, n) \in Seq(Seq(Read))
         /\ Len(SubSeq(s, m + 1, n)) = n - m
         /\ \A k \in 1 .. n - m : SubSeq(s, m + 1, n)[k] = s[m + k]
<1> DEFINE L == Seq(Read)
<1>1. s \in Seq(L)
  BY DEF Lines
<1> HIDE DEF L
<1>2. /\ SubSeq(s, m + 1, n) \in Seq(L)
      /\ Len(SubSeq(s, m + 1, n)) = n - m
      /\ \A k \in 1 .. n - m : SubSeq(s, m + 1, n)[k] = s[m + k]
  BY <1>1, PartIs
<1> QED BY <1>2 DEF L

\* Empty lines at both ends of a part leave nothing.
LEMMA EndsLeaveNothing ==
  ASSUME NEW s \in Lines,
         NEW m \in Nat, NEW from \in Nat, NEW to \in Nat, NEW n \in Nat,
         m <= from, from <= to, to <= n, n <= Len(s),
         \A k \in m + 1 .. from : s[k] = <<>>,
         \A k \in to + 1 .. n : s[k] = <<>>
  PROVE  Stripped(SubSeq(s, m + 1, n)) = Stripped(SubSeq(s, from + 1, to))
<1> DEFINE a == SubSeq(s, m + 1, from)
           b == SubSeq(s, from + 1, to)
           c == SubSeq(s, to + 1, n)
           bc == SubSeq(s, from + 1, n)
           abc == SubSeq(s, m + 1, n)
           L == Seq(Read)
<1>0. s \in Seq(L)
  BY DEF Lines
<1>1. m <= to /\ from <= n /\ from <= Len(s) /\ to <= Len(s)
  OBVIOUS
<1> HIDE DEF L
<1>2. /\ a \in Seq(L) /\ Len(a) = from - m
      /\ \A k \in 1 .. from - m : a[k] = s[m + k]
  BY <1>0, <1>1, PartIs
<1>3. b \in Seq(L)
  BY <1>0, <1>1, PartIs
<1>4. /\ c \in Seq(L) /\ Len(c) = n - to
      /\ \A k \in 1 .. n - to : c[k] = s[to + k]
  BY <1>0, <1>1, PartIs
<1>5. bc \in Seq(L) /\ bc = b \o c
  BY <1>0, <1>1, PartIs, PartsOfPart
<1>6. abc = a \o bc
  BY <1>0, <1>1, PartsOfPart
<1> HIDE DEF a, b, c, bc, abc
<1>7. Stripped(a) = <<>>
  <2>1. \A k \in 1 .. Len(a) : a[k] = <<>>
    <3> SUFFICES ASSUME NEW k \in 1 .. Len(a) PROVE a[k] = <<>>
      OBVIOUS
    <3>1. k \in 1 .. from - m /\ m + k \in m + 1 .. from
      BY <1>2
    <3> QED BY <1>2, <3>1
  <2> QED BY <1>2, <2>1, StrippedEmpty DEF L
<1>8. Stripped(c) = <<>>
  <2>1. \A k \in 1 .. Len(c) : c[k] = <<>>
    <3> SUFFICES ASSUME NEW k \in 1 .. Len(c) PROVE c[k] = <<>>
      OBVIOUS
    <3>1. k \in 1 .. n - to /\ to + k \in to + 1 .. n
      BY <1>4
    <3> QED BY <1>4, <3>1
  <2> QED BY <1>4, <2>1, StrippedEmpty DEF L
<1>9. Stripped(b) \in Seq(L) /\ Stripped(bc) \in Seq(L)
  BY <1>3, <1>5, StrippedIs DEF L
<1>10. Stripped(bc) = Stripped(b)
  <2>1. Stripped(bc) = Stripped(b) \o Stripped(c)
    BY <1>3, <1>4, <1>5, StrippedOfParts DEF L
  <2>2. Stripped(b) \o <<>> = Stripped(b)
    BY <1>9
  <2> QED BY <1>8, <2>1, <2>2
<1>11. Stripped(abc) = Stripped(bc)
  <2>1. Stripped(abc) = Stripped(a) \o Stripped(bc)
    BY <1>2, <1>5, <1>6, StrippedOfParts DEF L
  <2>2. <<>> \o Stripped(bc) = Stripped(bc)
    BY <1>9
  <2> QED BY <1>7, <2>1, <2>2
<1> QED BY <1>10, <1>11 DEF abc, b

\* Without its leading spaces, a line is printed as it is.
LEMMA StripPrinted ==
  ASSUME NEW l \in Seq(Read), l # <<>>, num_common_spaces \in Nat, num_common_spaces <= Spaces(l)
  PROVE  Strip(P!Printed(l)) = Strip(l)
<1> DEFINE c == num_common_spaces
           n == Spaces(l)
           a == P!Indentation
           r == SubSeq(l, c + 1, Len(l))
           p == a \o r
           u == SubSeq(l, n + 1, Len(l))
           v == SubSeq(p, Spaces(p) + 1, Len(p))
<1>1. Indent \in Nat /\ Indent >= 1
  BY EmbeddingAssumption DEF EmbeddingAssumption
<1>2. /\ c \in Nat /\ n \in Nat /\ Len(l) \in Nat /\ c <= n /\ n <= Len(l) /\ c <= Len(l)
      /\ \A k \in 1 .. n : l[k] = P!Space
      /\ n < Len(l) => l[n + 1] # P!Space
  BY SpacesAre
<1> HIDE DEF c, n
<1>3. a \in Seq(Character) /\ Len(a) = Indent /\ \A k \in 1 .. Indent : a[k] = P!Space
  <2>1. a \in [1 .. Indent -> Character] /\ \A k \in 1 .. Indent : a[k] = P!Space
    BY DEF Character, P!Indentation
  <2> HIDE DEF a
  <2>2. a \in Seq(Character) /\ Len(a) = Indent
    BY <1>1, <2>1, FunctionIsSeq
  <2> QED BY <2>1, <2>2
<1>4. l \in Seq(Character)
  BY DEF Character
<1>5. /\ r \in Seq(Character) /\ Len(r) = Len(l) - c
      /\ \A k \in 1 .. Len(l) - c : r[k] = l[c + k]
  BY <1>2, <1>4, PartIs
<1>6. P!Printed(l) = p
  BY PrintedCuts DEF n, c
<1> HIDE DEF a, r
<1>7. /\ p \in Seq(Character) /\ Len(p) = Indent + (Len(l) - c)
      /\ \A k \in 1 .. Indent : p[k] = P!Space
      /\ \A k \in 1 .. Len(l) - c : p[Indent + k] = l[c + k]
  <2>1. p \in Seq(Character) /\ Len(p) = Indent + (Len(l) - c)
    <3>1. p \in Seq(Character) /\ Len(p) = Len(a) + Len(r)
      BY <1>3, <1>5, ConcatProperties
    <3> QED BY <1>3, <1>5, <3>1
  <2>2. \A k \in 1 .. Indent : p[k] = a[k]
    BY <1>1, <1>3, <1>5, ConcatAt
  <2>3. \A k \in 1 .. Len(r) : p[Indent + k] = r[k]
    BY <1>1, <1>3, <1>5, ConcatAt
  <2>4. \A k \in 1 .. Len(l) - c : p[Indent + k] = l[c + k]
    BY <1>5, <2>3
  <2> QED BY <1>3, <2>1, <2>2, <2>4
<1> HIDE DEF p
<1>8. Spaces(p) = Indent + (n - c)
  <2> DEFINE m == Indent + (n - c)
  <2>1. m \in 0 .. Len(p)
    BY <1>1, <1>2, <1>7
  <2>2. ASSUME NEW k \in 1 .. m
        PROVE  p[k] = P!Space
    <3>1. CASE k \in 1 .. Indent
      BY <1>7, <3>1
    <3>2. CASE k \notin 1 .. Indent
      <4> DEFINE j == k - Indent
      <4>1. j \in 1 .. Len(l) - c /\ Indent + j = k /\ c + j \in 1 .. n
        BY <1>1, <1>2, <3>2
      <4> HIDE DEF j
      <4>2. p[Indent + j] = l[c + j]
        BY <1>7, <4>1
      <4> QED BY <1>2, <4>1, <4>2
    <3> QED BY <3>1, <3>2
  <2>3. ASSUME m < Len(p)
        PROVE  p[m + 1] # P!Space
    <3> DEFINE j == n - c + 1
    <3>1. j \in 1 .. Len(l) - c /\ Indent + j = m + 1 /\ c + j = n + 1 /\ n < Len(l)
      BY <1>1, <1>2, <1>7, <2>3
    <3> HIDE DEF j, m
    <3>2. p[Indent + j] = l[c + j]
      BY <1>7, <3>1
    <3> QED BY <1>2, <3>1, <3>2
  <2> HIDE DEF m
  <2>4. Spaces(p) = m
    BY <1>7, <2>1, <2>2, <2>3, SpacesIs
  <2> QED BY <2>4 DEF m
<1>9. /\ u \in Seq(Character) /\ Len(u) = Len(l) - n
      /\ \A k \in 1 .. Len(l) - n : u[k] = l[n + k]
  BY <1>2, <1>4, PartIs
<1>10. /\ v \in Seq(Character) /\ Len(v) = Len(p) - Spaces(p)
       /\ \A k \in 1 .. Len(p) - Spaces(p) : v[k] = p[Spaces(p) + k]
  <2>1. Spaces(p) \in Nat /\ Spaces(p) <= Len(p) /\ Len(p) \in Nat
    BY <1>1, <1>2, <1>7, <1>8
  <2> QED BY <1>7, <2>1, PartIs, SMTT(30)
<1> HIDE DEF u, v
<1>11. v = u
  <2>1. Len(v) = Len(u)
    BY <1>1, <1>2, <1>7, <1>8, <1>9, <1>10
  <2>2. ASSUME NEW k \in 1 .. Len(v)
        PROVE  v[k] = u[k]
    <3> DEFINE j == n - c + k
    <3>1. /\ k \in 1 .. Len(l) - n /\ j \in 1 .. Len(l) - c /\ Spaces(p) + k = Indent + j
          /\ c + j = n + k
      BY <1>1, <1>2, <1>8, <1>9, <2>1
    <3> HIDE DEF j
    <3>2. v[k] = p[Indent + j]
      BY <1>10, <3>1
    <3>3. p[Indent + j] = l[c + j]
      BY <1>7, <3>1
    <3> QED BY <1>9, <3>1, <3>2, <3>3
  <2> QED BY <1>9, <1>10, <2>1, <2>2, SeqEqual
<1>12. p # <<>>
  <2>1. Len(p) # 0
    BY <1>1, <1>2, <1>7
  <2> QED BY <2>1
<1>13. Strip(l) = <<u>>
  BY DEF Strip, u, n
<1>14. Strip(p) = <<v>>
  BY <1>12 DEF Strip, v
<1> QED BY <1>6, <1>11, <1>13, <1>14

\* But for the spaces at their starts, the lines printed are those of the file.
LEMMA TheEndsAreLost == EInv => OnlyTheEndsAreLost
<1> DEFINE rest == SubSeq(FileLines, 2, Len(FileLines))
<1> SUFFICES ASSUME EInv, printer = "done", S!Ordinary
             PROVE  Stripped(out) = Stripped(IF Stripped(rest) = <<>> THEN FileLines ELSE rest)
  BY DEF OnlyTheEndsAreLost
<1> DEFINE from == first_line
           to == last_line + 1
           n == Len(lines)
           mid == SubSeq(lines, from + 1, to)
           F == Filled(lines)
<1>1. FileLines = lines
  BY LinesAreTheFiles DEF EInv
<1>2. /\ out \in Seq(Seq(Character))
      /\ first_line \in Nat /\ last_line \in Nat /\ first_line <= last_line
      /\ lines \in Lines /\ n \in Nat /\ last_line < n
      /\ Len(out) = to - from
      /\ \A k \in 1 .. Len(out) : out[k] = P!Printed(lines[from + k])
  BY AllPrinted DEF EInv
<1>3. Summary(lines, num_common_spaces, first_line, last_line)
  BY DEF EInv, PInv, SummaryOK
<1>4. num_common_spaces \in Nat /\ \A k \in F : num_common_spaces <= Spaces(lines[k])
  BY <1>3, SizeMaxType DEF Summary, FewestOf
<1>5. from \in Nat /\ to \in Nat /\ n \in Nat /\ from <= to /\ to <= n /\ 1 <= to
  BY <1>2
<1>6. \A k \in 1 .. n : k \in F <=> lines[k] # <<>>
  BY DEF Filled
<1>7. F \subseteq 1 .. n
  BY DEF Filled
<1>8. \A k \in F : k <= to
  BY <1>3, <1>7 DEF Summary, LastOf
<1>9. IF F \ {1} = {} THEN from = 0
      ELSE from + 1 \in F \ {1} /\ \A k \in F \ {1} : from + 1 <= k
  BY <1>3 DEF Summary, FirstOf
<1> HIDE DEF from, to, n, F
<1>10. /\ mid \in Seq(Seq(Read)) /\ Len(mid) = to - from
       /\ \A k \in 1 .. to - from : mid[k] = lines[from + k]
  <2>1. to <= Len(lines)
    BY <1>5 DEF n
  <2> QED BY <1>2, <1>5, <2>1, LinesPart
<1> HIDE DEF mid
<1>11. Stripped(out) = Stripped(mid)
  <2> DEFINE f == [k \in 1 .. Len(out) |-> Strip(out[k])]
             g == [k \in 1 .. Len(mid) |-> Strip(mid[k])]
  <2>1. Stripped(out) = FlattenSeq(f) /\ Stripped(mid) = FlattenSeq(g)
    BY <1>2, <1>10, StrippedIs
  <2>2. ASSUME NEW k \in 1 .. Len(out)
        PROVE  Strip(out[k]) = Strip(mid[k])
    <3> DEFINE l == lines[from + k]
    <3>1. from + k \in 1 .. n /\ k \in 1 .. to - from
      BY <1>2, <1>5
    <3>2. l \in Seq(Read)
      BY <1>2, <3>1 DEF Lines, n
    <3>3. out[k] = P!Printed(l) /\ mid[k] = l
      BY <1>2, <1>10, <3>1
    <3>4. l # <<>> => num_common_spaces <= Spaces(l)
      BY <1>4, <1>6, <3>1
    <3> HIDE DEF l
    <3>5. CASE l = <<>>
      <4>1. P!Printed(l) = l
        BY <3>5 DEF P!Printed
      <4> QED BY <3>3, <4>1
    <3>6. CASE l # <<>>
      BY <1>4, <3>2, <3>3, <3>4, <3>6, StripPrinted
    <3> QED BY <3>5, <3>6
  <2>3. f = g
    BY <1>2, <1>10, <2>2
  <2> HIDE DEF f, g
  <2> QED BY <2>1, <2>3
<1>12. \A k \in to + 1 .. n : lines[k] = <<>>
  BY <1>5, <1>6, <1>8
<1>13. n <= Len(lines) /\ n >= 1
  BY <1>2 DEF n
<1>14. /\ rest = SubSeq(lines, 1 + 1, n) /\ rest \in Seq(Seq(Read)) /\ Len(rest) = n - 1
       /\ \A k \in 1 .. n - 1 : rest[k] = lines[1 + k]
  <2>1. rest = SubSeq(lines, 1 + 1, n)
    BY <1>1 DEF n
  <2> DEFINE m == 1
  <2>2. m \in Nat /\ m <= n
    BY <1>13
  <2> HIDE DEF m
  <2>3. /\ SubSeq(lines, m + 1, n) \in Seq(Seq(Read)) /\ Len(SubSeq(lines, m + 1, n)) = n - m
        /\ \A k \in 1 .. n - m : SubSeq(lines, m + 1, n)[k] = lines[m + k]
    BY <1>2, <1>5, <1>13, <2>2, LinesPart
  <2> QED BY <2>1, <2>3 DEF m
<1> HIDE DEF rest
<1>15. Stripped(rest) = <<>> <=> \A k \in 1 .. n - 1 : lines[1 + k] = <<>>
  BY <1>14, StrippedEmpty
<1>16. CASE F \ {1} = {}
  <2>1. from = 0
    BY <1>9, <1>16
  <2>2. \A k \in 1 .. n - 1 : lines[1 + k] = <<>>
    <3> SUFFICES ASSUME NEW k \in 1 .. n - 1 PROVE lines[1 + k] = <<>>
      OBVIOUS
    <3>1. 1 + k \in 1 .. n /\ 1 + k # 1
      BY <1>5
    <3> QED BY <1>6, <1>16, <3>1
  <2>3. Stripped(SubSeq(lines, 0 + 1, n)) = Stripped(SubSeq(lines, from + 1, to))
    <3>1. \A k \in 0 + 1 .. from : lines[k] = <<>>
      BY <2>1
    <3> DEFINE m == 0
    <3>2. m <= from /\ m \in Nat /\ \A k \in m + 1 .. from : lines[k] = <<>>
      BY <2>1, <3>1
    <3> HIDE DEF m
    <3>3. Stripped(SubSeq(lines, m + 1, n)) = Stripped(SubSeq(lines, from + 1, to))
      BY <1>2, <1>5, <1>12, <1>13, <3>2, EndsLeaveNothing, SMTT(30)
    <3> QED BY <3>3 DEF m
  <2>4. SubSeq(lines, 0 + 1, n) = lines
    BY <1>2 DEF Lines, n
  <2> QED BY <1>1, <1>11, <1>15, <2>2, <2>3, <2>4 DEF mid
<1>17. CASE F \ {1} # {}
  <2>1. from + 1 \in F \ {1} /\ \A k \in F \ {1} : from + 1 <= k
    BY <1>9, <1>17
  <2>2. from + 1 \in 1 .. n /\ from \in 1 .. n - 1 /\ 1 <= from /\ lines[from + 1] # <<>>
    BY <1>5, <1>6, <1>7, <2>1
  <2>3. Stripped(rest) # <<>>
    <3>1. from \in 1 .. n - 1 /\ 1 + from = from + 1
      BY <1>5, <2>2
    <3> QED BY <1>15, <2>2, <3>1
  <2>4. \A k \in 1 + 1 .. from : lines[k] = <<>>
    <3> SUFFICES ASSUME NEW k \in 1 + 1 .. from, lines[k] # <<>> PROVE FALSE
      OBVIOUS
    <3>1. k \in 1 .. n /\ k # 1 /\ k < from + 1 /\ k \in Nat
      BY <1>5, <2>2
    <3>2. k \in F \ {1}
      BY <1>6, <3>1
    <3>3. from + 1 <= k
      BY <2>1, <3>2
    <3> QED BY <1>5, <3>1, <3>3
  <2>5. Stripped(SubSeq(lines, 1 + 1, n)) = Stripped(SubSeq(lines, from + 1, to))
    <3> DEFINE m == 1
    <3>1. m <= from /\ m \in Nat /\ \A k \in m + 1 .. from : lines[k] = <<>>
      BY <2>2, <2>4
    <3> HIDE DEF m
    <3>2. Stripped(SubSeq(lines, m + 1, n)) = Stripped(SubSeq(lines, from + 1, to))
      BY <1>2, <1>5, <1>12, <1>13, <3>1, EndsLeaveNothing, SMTT(30)
    <3> QED BY <3>2 DEF m
  <2> QED BY <1>11, <1>14, <2>3, <2>5 DEF mid
<1> QED BY <1>16, <1>17

\* Of an ordinary file, the page has every line but the first, if another one
\* is not empty, each once, in order, with other spaces at its start.
THEOREM OnlyEndsAreLost == Spec => []OnlyTheEndsAreLost
BY TheEndsAreLost, Invariance, PTL

=============================================================================
