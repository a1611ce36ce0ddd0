----------------------- MODULE ValueNameManglerProofs -----------------------
(***************************************************************************)
(* Proofs about the ids of a page, for modules of any size with names of   *)
(* any length: no two values share an id and every link leads home.        *)
(***************************************************************************)
EXTENDS ValueNameMangler, IdAlphabetLemmas

-----------------------------------------------------------------------------
(* Names as LLVM prints them.                                              *)

Body(name) == FlattenSeq([k \in DOMAIN name |-> Quoted(name[k])])
code       == [c \in RawChar |-> Quoted(c)]

\* The characters of a name that is printed without quotes.
PlainChar == Alnum \cup {Dash, Dot, Underscore}

Plain(t) ==
  /\ t \in Seq(PlainChar)
  /\ Len(t) >= 1

\* The characters that LLVM prints around names are no part of them.
LEMMA CharsDiffer ==
  /\ Quote # Backslash /\ Quote # Percent /\ Quote # At /\ At # Percent
  /\ Quote \notin PlainChar /\ Percent \notin PlainChar /\ At \notin PlainChar
  /\ Backslash \notin PlainChar
  /\ Quote \notin Hex
  /\ PlainChar \subseteq RawChar
  /\ {Quote, Backslash, At, Percent, Dot} \subseteq RawChar
  /\ Hex \subseteq RawChar
  /\ Digits \subseteq PlainChar
<1>1. /\ Quote # Backslash /\ Quote # Percent /\ Quote # At /\ At # Percent
      /\ Quote \notin {Dash, Dot, Underscore, Backslash}
      /\ Percent \notin {Dash, Dot, Underscore, Backslash}
      /\ At \notin {Dash, Dot, Underscore, Backslash}
      /\ Backslash \notin {Dash, Dot, Underscore}
  BY DEF Quote, Backslash, Percent, At, Dash, Dot, Underscore
<1>2. /\ Alnum \cap (Special \cup {Backslash}) = {} /\ Hex \subseteq Alnum
      /\ Digits \subseteq Alnum
  BY CharAssumption, DigitsAssumption DEF CharAssumption, DigitsAssumption
<1>3. /\ {Quote, Percent, At, Dash, Dot, Underscore} \subseteq Special
  BY DEF Special
<1> QED BY <1>1, <1>2, <1>3 DEF PlainChar, RawChar, Char

\* What LLVM prints for one character inside quotes.
LEMMA QuotedIs ==
  ASSUME NEW c \in RawChar
  PROVE  /\ c \in EscapedByLLVM =>
              \E x, y \in Hex : HexCode[c] = <<x, y>> /\ Quoted(c) = <<Backslash, x, y>>
         /\ c \notin EscapedByLLVM => Quoted(c) = <<c>> /\ c # Quote /\ c # Backslash
<1>1. ASSUME c \in EscapedByLLVM
      PROVE  \E x, y \in Hex : HexCode[c] = <<x, y>> /\ Quoted(c) = <<Backslash, x, y>>
  <2>1. HexCode[c] \in Hex \X Hex
    BY <1>1, HexCodeAssumption DEF HexCodeAssumption
  <2>2. PICK x \in Hex, y \in Hex : HexCode[c] = <<x, y>>
    BY <2>1
  <2>3. <<Backslash>> \o <<x, y>> = <<Backslash, x, y>>
    BY <2>2, CharsDiffer, Triple
  <2> QED BY <1>1, <2>2, <2>3 DEF Quoted
<1>2. ASSUME c \notin EscapedByLLVM
      PROVE  Quoted(c) = <<c>> /\ c # Quote /\ c # Backslash
  BY <1>2 DEF Quoted, EscapedByLLVM
<1> QED BY <1>1, <1>2

\* No quote is left inside the quotes.
LEMMA QuotedType ==
  ASSUME NEW c \in RawChar
  PROVE  /\ Quoted(c) \in Seq(RawChar)
         /\ Len(Quoted(c)) >= 1
         /\ Quoted(c)[1] # Quote
         /\ Quote \notin Range(Quoted(c))
<1>1. CASE c \in EscapedByLLVM
  <2>1. PICK x \in Hex, y \in Hex : Quoted(c) = <<Backslash, x, y>>
    BY <1>1, QuotedIs
  <2>2. Backslash \in RawChar /\ x \in RawChar /\ y \in RawChar
        /\ Backslash # Quote /\ x # Quote /\ y # Quote
    BY CharsDiffer
  <2> DEFINE z == Backslash
             q == Quote
             t == <<z, x, y>>
  <2>3. z \in RawChar /\ z # q /\ x # q /\ y # q
    BY <2>2
  <2> HIDE DEF z, q
  <2>4. t \in Seq(RawChar) /\ Len(t) = 3 /\ t[1] # q
    BY <2>2, <2>3
  <2>5. q \notin Range(t)
    BY <2>3 DEF Range
  <2> HIDE DEF t
  <2> QED BY <2>1, <2>4, <2>5 DEF t, z, q
<1>2. CASE c \notin EscapedByLLVM
  <2>1. Quoted(c) = <<c>> /\ c # Quote
    BY <1>2, QuotedIs
  <2> DEFINE q == Quote
             t == <<c>>
  <2>2. c # q
    BY <2>1
  <2> HIDE DEF q
  <2>3. t \in Seq(RawChar) /\ Len(t) = 1 /\ t[1] # q /\ q \notin Range(t)
    BY <2>2 DEF Range
  <2> HIDE DEF t
  <2> QED BY <2>1, <2>3 DEF t, q
<1> QED BY <1>1, <1>2

\* Different characters are printed differently.
LEMMA QuotedDiffer ==
  ASSUME NEW c \in RawChar, NEW d \in RawChar, c # d
  PROVE  Differ(Quoted(c), Quoted(d))
<1> DEFINE z == Backslash
<1>1. ASSUME NEW a, NEW b \in Hex, NEW e \in Hex, a # z
      PROVE  Differ(<<z, b, e>>, <<a>>) /\ Differ(<<a>>, <<z, b, e>>)
  <2> HIDE DEF z
  <2>1. /\ 1 \in 1 .. Len(<<z, b, e>>) /\ 1 \in 1 .. Len(<<a>>)
        /\ <<z, b, e>>[1] # <<a>>[1]
    BY <1>1
  <2> QED BY <2>1, DifferAt, Zenon
<1>2. ASSUME NEW a \in Hex, NEW b \in Hex, NEW e \in Hex, NEW f \in Hex, <<a, b>> # <<e, f>>
      PROVE  Differ(<<z, a, b>>, <<z, e, f>>)
  <2> HIDE DEF z
  <2>1. CASE a # e
    <3>1. /\ 2 \in 1 .. Len(<<z, a, b>>) /\ 2 \in 1 .. Len(<<z, e, f>>)
          /\ <<z, a, b>>[2] # <<z, e, f>>[2]
      BY <2>1
    <3> QED BY <3>1, DifferAt, Zenon
  <2>2. CASE b # f
    <3>1. /\ 3 \in 1 .. Len(<<z, a, b>>) /\ 3 \in 1 .. Len(<<z, e, f>>)
          /\ <<z, a, b>>[3] # <<z, e, f>>[3]
      BY <2>2
    <3> QED BY <3>1, DifferAt, Zenon
  <2> QED BY <1>2, <2>1, <2>2
<1>3. CASE c \in EscapedByLLVM /\ d \in EscapedByLLVM
  <2>1. HexCode[c] # HexCode[d]
    BY <1>3, HexCodeAssumption DEF HexCodeAssumption
  <2>2. PICK a \in Hex, b \in Hex : HexCode[c] = <<a, b>> /\ Quoted(c) = <<z, a, b>>
    BY <1>3, QuotedIs
  <2>3. PICK e \in Hex, f \in Hex : HexCode[d] = <<e, f>> /\ Quoted(d) = <<z, e, f>>
    BY <1>3, QuotedIs
  <2>4. <<a, b>> # <<e, f>>
    BY <2>1, <2>2, <2>3
  <2>5. Differ(<<z, a, b>>, <<z, e, f>>)
    BY <1>2, <2>4
  <2> HIDE DEF z
  <2> QED BY <2>2, <2>3, <2>5
<1>4. CASE c \in EscapedByLLVM /\ d \notin EscapedByLLVM
  <2>1. PICK a \in Hex, b \in Hex : Quoted(c) = <<z, a, b>>
    BY <1>4, QuotedIs
  <2>2. Quoted(d) = <<d>> /\ d # z
    BY <1>4, QuotedIs
  <2> HIDE DEF z
  <2> QED BY <1>1, <2>1, <2>2
<1>5. CASE c \notin EscapedByLLVM /\ d \in EscapedByLLVM
  <2>1. PICK a \in Hex, b \in Hex : Quoted(d) = <<z, a, b>>
    BY <1>5, QuotedIs
  <2>2. Quoted(c) = <<c>> /\ c # z
    BY <1>5, QuotedIs
  <2> HIDE DEF z
  <2> QED BY <1>1, <2>1, <2>2
<1>6. CASE c \notin EscapedByLLVM /\ d \notin EscapedByLLVM
  <2>1. Quoted(c) = <<c>> /\ Quoted(d) = <<d>>
    BY <1>6, QuotedIs
  <2>2. 1 \in 1 .. Len(<<c>>) /\ 1 \in 1 .. Len(<<d>>) /\ <<c>>[1] # <<d>>[1]
    OBVIOUS
  <2> QED BY <2>1, <2>2, DifferAt, Zenon
<1> QED BY <1>3, <1>4, <1>5, <1>6

\* LLVM writes different characters differently.
LEMMA CodeType ==
  /\ code \in [RawChar -> Seq(RawChar)]
  /\ \A c \in RawChar : Len(code[c]) >= 1
  /\ \A c, d \in RawChar : c # d => Differ(code[c], code[d])
<1>1. \A c \in RawChar : code[c] = Quoted(c)
  BY DEF code
<1>2. code \in [RawChar -> Seq(RawChar)]
  BY QuotedType DEF code
<1> QED BY <1>1, <1>2, QuotedType, QuotedDiffer

\* The inside of the quotes is written character by character.
LEMMA BodyIs ==
  ASSUME NEW name \in Seq(RawChar)
  PROVE  Body(name) = Coded(code, name)
<1>1. DOMAIN name = 1 .. Len(name)
  BY LenProperties
<1>2. \A k \in 1 .. Len(name) : code[name[k]] = Quoted(name[k])
  BY DEF code
<1>3. [k \in 1 .. Len(name) |-> code[name[k]]] = [k \in 1 .. Len(name) |-> Quoted(name[k])]
  BY <1>2
<1> QED BY <1>1, <1>3 DEF Body, Coded

\* The body of a quoted name has no quotes.
LEMMA BodyType ==
  ASSUME NEW name \in Seq(RawChar)
  PROVE  /\ Body(name) \in Seq(RawChar)
         /\ \A k \in 1 .. Len(Body(name)) : Body(name)[k] # Quote
<1> DEFINE f == [k \in 1 .. Len(name) |-> code[name[k]]]
<1>1. f \in [1 .. Len(name) -> Seq(RawChar)] /\ Len(name) \in Nat
  BY CodeType, SMTT(30)
<1>2. \A k \in 1 .. Len(name) : Quote \notin Range(f[k])
  <2> SUFFICES ASSUME NEW k \in 1 .. Len(name) PROVE Quote \notin Range(f[k])
    OBVIOUS
  <2>1. name[k] \in RawChar /\ f[k] = Quoted(name[k])
    BY DEF code
  <2> QED BY <2>1, QuotedType
<1>3. Body(name) = FlattenSeq(f)
  BY BodyIs DEF Coded
<1> HIDE DEF f
<1>4. f \in Seq(Seq(RawChar)) /\ Len(f) = Len(name)
  BY <1>1, FunctionIsSeq
<1>5. Quote \notin Range(FlattenSeq(f))
  BY <1>2, <1>4, FlattenRange
<1>6. FlattenSeq(f) \in Seq(RawChar)
  BY <1>4, FlattenType
<1>7. \A k \in 1 .. Len(FlattenSeq(f)) : FlattenSeq(f)[k] \in Range(FlattenSeq(f))
  <2> DEFINE g == FlattenSeq(f)
  <2>1. g \in Seq(RawChar)
    BY <1>6
  <2> HIDE DEF g
  <2>2. \A k \in 1 .. Len(g) : g[k] \in Range(g)
    BY <2>1 DEF Range
  <2> QED BY <2>2 DEF g
<1> QED BY <1>3, <1>5, <1>6, <1>7

\* The quoted form of a name tells the name.
LEMMA BodyTells ==
  ASSUME NEW a \in Seq(RawChar), NEW b \in Seq(RawChar), Body(a) = Body(b)
  PROVE  a = b
<1>1. Coded(code, a) = Coded(code, b)
  BY BodyIs
<1> HIDE DEF code
<1> QED BY <1>1, CodeType, PrefixCode

InQuotes(b) == (<<Quote>> \o b) \o <<Quote>>

\* The two forms of a printed name.
LEMMA PrintedIs ==
  ASSUME NEW name \in Seq(RawChar), name # <<>>
  PROVE  \/ PrintedName(name) = InQuotes(Body(name))
         \/ PrintedName(name) = name /\ Plain(name) /\ name[1] \notin Digits
<1>1. CASE NeedsQuotes(name)
  BY <1>1 DEF PrintedName, InQuotes, Body
<1>2. CASE ~NeedsQuotes(name)
  <2>1. PrintedName(name) = name /\ name[1] \notin Digits
    BY <1>2 DEF PrintedName, NeedsQuotes
  <2>2. \A k \in 1 .. Len(name) : name[k] \in PlainChar
    BY <1>2 DEF NeedsQuotes, PlainChar
  <2>3. name \in Seq(PlainChar) /\ Len(name) >= 1
    BY <2>2
  <2> QED BY <2>1, <2>3 DEF Plain
<1> QED BY <1>1, <1>2

\* What is printed after the sigil of a value.
Text(name, slot) == IF name = <<>> THEN slot ELSE PrintedName(name)

QuoteFree(b) == b \in Seq(RawChar) /\ \A k \in 1 .. Len(b) : b[k] # Quote

IsText(t) == Plain(t) \/ \E b \in Seq(RawChar) : QuoteFree(b) /\ t = InQuotes(b)

Nameable(name, slot) ==
  /\ name \in Seq(RawChar)
  /\ slot \in Seq(Digits)
  /\ name = <<>> => slot # <<>>

\* A slot number needs no quotes.
LEMMA SlotIsPlain ==
  ASSUME NEW slot \in Seq(Digits), slot # <<>>
  PROVE  Plain(slot) /\ slot[1] \in Digits
<1>1. \A k \in 1 .. Len(slot) : slot[k] \in PlainChar
  BY CharsDiffer
<1>2. slot \in Seq(PlainChar) /\ Len(slot) >= 1
  BY <1>1
<1> QED BY <1>2 DEF Plain

\* What LLVM prints for a name is plain or quoted.
LEMMA TextIs ==
  ASSUME NEW name, NEW slot, Nameable(name, slot)
  PROVE  IsText(Text(name, slot))
<1>1. CASE name = <<>>
  BY <1>1, SlotIsPlain DEF Nameable, Text, IsText
<1>2. CASE name # <<>>
  BY <1>2, PrintedIs, BodyType DEF Nameable, Text, IsText, QuoteFree
<1> QED BY <1>1, <1>2

\* A quoted text starts and ends with a quote.
LEMMA InQuotesType ==
  ASSUME NEW b \in Seq(RawChar)
  PROVE  /\ InQuotes(b) \in Seq(RawChar)
         /\ Len(InQuotes(b)) = Len(b) + 2
         /\ InQuotes(b)[1] = Quote
         /\ InQuotes(b)[Len(InQuotes(b))] = Quote
<1> DEFINE q == Quote
           s == <<q>> \o b
<1>1. q \in RawChar
  BY CharsDiffer
<1> HIDE DEF q
<1>2. s \in Seq(RawChar) /\ Len(s) = Len(b) + 1 /\ s[1] = q
  BY <1>1
<1> HIDE DEF s
<1>3. /\ s \o <<q>> \in Seq(RawChar) /\ Len(s \o <<q>>) = Len(s) + 1
      /\ (s \o <<q>>)[Len(s) + 1] = q
      /\ (s \o <<q>>)[1] = s[1]
  BY <1>1, <1>2
<1> QED BY <1>2, <1>3 DEF s, q, InQuotes

\* A plain one has neither quotes nor a sigil.
LEMMA PlainType ==
  ASSUME NEW t, Plain(t)
  PROVE  /\ t \in Seq(RawChar)
         /\ t[1] # Quote
         /\ t[Len(t)] # Quote
         /\ \A k \in 1 .. Len(t) : t[k] \notin {At, Percent}
<1>1. t \in Seq(PlainChar) /\ Len(t) >= 1
  BY DEF Plain
<1>2. \A k \in 1 .. Len(t) : t[k] \in PlainChar
  BY <1>1
<1>3. t \in Seq(RawChar) /\ 1 \in 1 .. Len(t) /\ Len(t) \in 1 .. Len(t)
  BY <1>1, CharsDiffer
<1> QED BY <1>2, <1>3, CharsDiffer

\* The printed form tells the name, or the slot of a value without one.
LEMMA TextTells ==
  ASSUME NEW a, NEW s, Nameable(a, s), NEW b, NEW u, Nameable(b, u),
         Text(a, s) = Text(b, u)
  PROVE  a = b /\ (a = <<>> => s = u)
<1> USE DEF Nameable
<1>1. CASE a = <<>> /\ b = <<>>
  BY <1>1 DEF Text
<1>2. ASSUME NEW n \in Seq(RawChar), n # <<>>, NEW d \in Seq(Digits), d # <<>>,
             PrintedName(n) = d
      PROVE  FALSE
  <2>1. Plain(d) /\ d[1] \in Digits
    BY <1>2, SlotIsPlain
  <2>2. CASE PrintedName(n) = InQuotes(Body(n))
    BY <1>2, <2>1, <2>2, PlainType, BodyType, InQuotesType
  <2>3. CASE PrintedName(n) = n /\ n[1] \notin Digits
    BY <1>2, <2>1, <2>3
  <2> QED BY <1>2, <2>2, <2>3, PrintedIs
<1>3. CASE a = <<>> /\ b # <<>>
  BY <1>2, <1>3 DEF Text
<1>4. CASE a # <<>> /\ b = <<>>
  BY <1>2, <1>4 DEF Text
<1>5. CASE a # <<>> /\ b # <<>>
  <2>1. PrintedName(a) = PrintedName(b)
    BY <1>5 DEF Text
  <2>2. ASSUME NEW n \in Seq(RawChar), NEW m \in Seq(RawChar), Plain(n), n = InQuotes(Body(m))
        PROVE  FALSE
    BY <2>2, PlainType, BodyType, InQuotesType
  <2>3. CASE PrintedName(a) = InQuotes(Body(a)) /\ PrintedName(b) = InQuotes(Body(b))
    <3> DEFINE q == Quote
               x == Body(a)
               y == Body(b)
    <3>1. x \in Seq(RawChar) /\ y \in Seq(RawChar) /\ q \in RawChar
      BY BodyType, CharsDiffer
    <3>2. (<<q>> \o x) \o <<q>> = (<<q>> \o y) \o <<q>>
      BY <2>1, <2>3 DEF InQuotes
    <3> HIDE DEF q, x, y
    <3>3. <<q>> \o x \in Seq(RawChar) /\ <<q>> \o y \in Seq(RawChar) /\ <<q>> \in Seq(RawChar)
      BY <3>1
    <3>4. <<q>> \o x = <<q>> \o y
      <4> DEFINE v == <<q>> \o x
                 w == <<q>> \o y
      <4>1. v \in Seq(RawChar) /\ w \in Seq(RawChar) /\ v \o <<q>> = w \o <<q>>
        BY <3>2, <3>3
      <4> HIDE DEF v, w
      <4>4. v = w
        BY <3>1, <4>1, CancelLast
      <4> QED BY <4>4 DEF v, w
    <3>5. x = y
      BY <3>1, <3>3, <3>4, CancelLeft
    <3> QED BY <1>5, <3>5, BodyTells DEF x, y
  <2> QED BY <1>5, <2>1, <2>2, <2>3, PrintedIs
<1> QED BY <1>1, <1>3, <1>4, <1>5

-----------------------------------------------------------------------------
(* The printed name of a value tells the value.                            *)

\* What follows or precedes a sequence decides on it.
CancelsLast(S) == \A a, b \in Seq(S), x, y \in S : a \o <<x>> = b \o <<y>> => a = b

\* A last character can be cancelled.
LEMMA RawCancels == CancelsLast(RawChar)
<1> SUFFICES ASSUME NEW a \in Seq(RawChar), NEW b \in Seq(RawChar),
                    NEW x \in RawChar, NEW y \in RawChar, a \o <<x>> = b \o <<y>>
             PROVE  a = b
  BY DEF CancelsLast
<1> QED BY CancelLast

Regroups(p, r, b) == p \o ((r \o b) \o r) = ((p \o r) \o b) \o r

\* Where the parentheses are does not matter.
LEMMA Regroup ==
  ASSUME NEW p \in Seq(RawChar), NEW r \in Seq(RawChar), NEW b \in Seq(RawChar)
  PROVE  /\ Regroups(p, r, b)
         /\ (p \o r) \o b \in Seq(RawChar)
         /\ p \o r \in Seq(RawChar)
<1>1. r \o b \in Seq(RawChar) /\ p \o r \in Seq(RawChar) /\ (p \o r) \o b \in Seq(RawChar)
  BY ConcatProperties
<1>2. ConcatAssociates(RawChar)
  BY Associative
<1>3. p \o ((r \o b) \o r) = (p \o (r \o b)) \o r
  BY <1>1, <1>2, ZenonT(30) DEF ConcatAssociates
<1>4. p \o (r \o b) = (p \o r) \o b
  BY <1>2, Zenon DEF ConcatAssociates
<1> QED BY <1>1, <1>3, <1>4 DEF Regroups

\* Two texts with their beginnings that are the same string.
SameString(p, t, r, u) == p \o t = r \o u

\* Quoted texts after any beginnings: the first quote is at the same place.
LEMMA QuotesSplit ==
  ASSUME NEW p \in Seq(RawChar), NEW r \in Seq(RawChar),
         NEW b, NEW c, QuoteFree(b), QuoteFree(c),
         SameString(p, InQuotes(b), r, InQuotes(c))
  PROVE  SplitsAt({Quote}, p, Quote, b, r, Quote, c)
<1> DEFINE q == Quote
           u == <<q>>
           D == {q}
<1>1. /\ b \in Seq(RawChar) /\ c \in Seq(RawChar)
      /\ q \in D /\ Free(b, D) /\ Free(c, D)
  BY DEF QuoteFree, Free
<1>2. q \in RawChar
  BY CharsDiffer
<1>3. p \o ((u \o b) \o u) = r \o ((u \o c) \o u)
  BY DEF InQuotes, SameString
<1> HIDE DEF q, D
<1>4. u \in Seq(RawChar)
  BY <1>2
<1> HIDE DEF u
<1>5. ((p \o u) \o b) \o u = ((r \o u) \o c) \o u
  <2>1. p \o ((u \o b) \o u) = ((p \o u) \o b) \o u
    <3>1. Regroups(p, u, b)
      BY <1>1, <1>4, Regroup
    <3> QED BY <3>1 DEF Regroups
  <2>2. r \o ((u \o c) \o u) = ((r \o u) \o c) \o u
    <3>1. Regroups(r, u, c)
      BY <1>1, <1>4, Regroup
    <3> QED BY <3>1 DEF Regroups
  <2> QED BY <1>3, <2>1, <2>2, Zenon
<1>6. (p \o u) \o b \in Seq(RawChar) /\ (r \o u) \o c \in Seq(RawChar)
  BY <1>1, <1>4, Regroup
<1> DEFINE v == (p \o u) \o b
           w == (r \o u) \o c
<1>7. v = w
  <2> HIDE DEF v, w
  <2>1. v \o <<q>> = w \o <<q>> /\ v \in Seq(RawChar) /\ w \in Seq(RawChar)
    BY <1>5, <1>6 DEF u, v, w
  <2> QED BY <1>2, <2>1, RawCancels, Zenon DEF CancelsLast
<1>8. (p \o <<q>>) \o b = (r \o <<q>>) \o c
  BY <1>7 DEF u
<1>9. SplitsAt(D, p, q, b, r, q, c)
  BY <1>1, <1>8 DEF SplitsAt
<1> QED BY <1>9 DEF q, D

\* What is before a quoted text can be told from it,
LEMMA QuotedStart ==
  ASSUME NEW p \in Seq(RawChar), NEW r \in Seq(RawChar),
         NEW b, NEW c, QuoteFree(b), QuoteFree(c),
         SameString(p, InQuotes(b), r, InQuotes(c))
  PROVE  p = r
<1>1. b \in Seq(RawChar) /\ c \in Seq(RawChar) /\ Quote \in RawChar
  BY CharsDiffer DEF QuoteFree
<1>2. SplitsAt({Quote}, p, Quote, b, r, Quote, c)
  BY QuotesSplit
<1> QED BY <1>1, <1>2, LastSplit

\* and so can the text.
LEMMA QuotedRest ==
  ASSUME NEW p \in Seq(RawChar), NEW r \in Seq(RawChar),
         NEW b, NEW c, QuoteFree(b), QuoteFree(c),
         SameString(p, InQuotes(b), r, InQuotes(c))
  PROVE  b = c
<1>1. b \in Seq(RawChar) /\ c \in Seq(RawChar) /\ Quote \in RawChar
  BY CharsDiffer DEF QuoteFree
<1>2. SplitsAt({Quote}, p, Quote, b, r, Quote, c)
  BY QuotesSplit
<1> QED BY <1>1, <1>2, RestOfSplit

\* A plain text does not end like a quoted one.
LEMMA PlainIsNotQuoted ==
  ASSUME NEW p \in Seq(RawChar), NEW r \in Seq(RawChar), NEW t, Plain(t),
         NEW c \in Seq(RawChar)
  PROVE  p \o t # r \o InQuotes(c)
<1> DEFINE u == InQuotes(c)
<1>1. u \in Seq(RawChar) /\ Len(u) >= 1 /\ u[Len(u)] = Quote
  <2>1. Len(c) \in Nat
    OBVIOUS
  <2> QED BY <2>1, InQuotesType
<1>2. t \in Seq(RawChar) /\ Len(t) >= 1 /\ t[Len(t)] # Quote
  BY PlainType DEF Plain
<1> HIDE DEF u
<1>3. (p \o t)[Len(p) + Len(t)] = t[Len(t)] /\ Len(p \o t) = Len(p) + Len(t)
  BY <1>2
<1>4. (r \o u)[Len(r) + Len(u)] = u[Len(u)] /\ Len(r \o u) = Len(r) + Len(u)
  BY <1>1
<1>5. p \o t # r \o u
  <2> SUFFICES ASSUME p \o t = r \o u PROVE FALSE
    OBVIOUS
  <2>1. Len(p) + Len(t) = Len(r) + Len(u)
    BY <1>3, <1>4
  <2>2. t[Len(t)] = u[Len(u)]
    BY <1>3, <1>4, <2>1
  <2> QED BY <1>1, <1>2, <2>2
<1> QED BY <1>5 DEF u

\* The last sigil in front of a text tells where the text begins.
LEMMA TextSplit ==
  ASSUME NEW a \in Seq(RawChar), NEW b \in Seq(RawChar),
         NEW x \in {At, Percent}, NEW y \in {At, Percent},
         NEW t, NEW u, IsText(t), IsText(u),
         SameString(a \o <<x>>, t, b \o <<y>>, u)
  PROVE  a = b /\ t = u
<1>1. x \in RawChar /\ y \in RawChar
  BY CharsDiffer
<1> DEFINE p == a \o <<x>>
           r == b \o <<y>>
<1>2. p \in Seq(RawChar) /\ r \in Seq(RawChar)
  BY <1>1
<1>3. p \o t = r \o u
  BY DEF SameString
<1>4. CASE Plain(t) /\ Plain(u)
  <2>1. t \in Seq(RawChar) /\ u \in Seq(RawChar)
    BY <1>4, PlainType
  <2> DEFINE D == {At, Percent}
  <2>2. SplitsAt(D, a, x, t, b, y, u)
    BY <1>3, <1>4, PlainType DEF Free, SplitsAt
  <2> HIDE DEF D
  <2>3. a = b
    BY <1>1, <2>1, <2>2, LastSplit
  <2>4. t = u
    BY <1>1, <2>1, <2>2, RestOfSplit
  <2> QED BY <2>3, <2>4
<1>5. CASE \E c \in Seq(RawChar) : QuoteFree(c) /\ t = InQuotes(c)
  <2>1. PICK c \in Seq(RawChar) : QuoteFree(c) /\ t = InQuotes(c)
    BY <1>5
  <2>2. CASE \E d \in Seq(RawChar) : QuoteFree(d) /\ u = InQuotes(d)
    <3>1. PICK d \in Seq(RawChar) : QuoteFree(d) /\ u = InQuotes(d)
      BY <2>2
    <3> HIDE DEF p, r
    <3>2. SameString(p, InQuotes(c), r, InQuotes(d))
      BY <1>3, <2>1, <3>1 DEF SameString
    <3>3. p = r
      BY <1>2, <2>1, <3>1, <3>2, QuotedStart
    <3>6. c = d
      BY <1>2, <2>1, <3>1, <3>2, QuotedRest
    <3>4. a \o <<x>> = b \o <<y>>
      BY <3>3 DEF p, r
    <3>5. a = b
      BY <1>1, <3>4, RawCancels, Zenon DEF CancelsLast
    <3> QED BY <2>1, <3>1, <3>5, <3>6
  <2>3. CASE Plain(u)
    <3> HIDE DEF p, r
    <3>1. FALSE
      BY <1>2, <1>3, <2>1, <2>3, PlainIsNotQuoted
    <3> QED BY <3>1
  <2> QED BY <2>2, <2>3 DEF IsText
<1>6. CASE Plain(t) /\ \E d \in Seq(RawChar) : QuoteFree(d) /\ u = InQuotes(d)
  <2>1. PICK d \in Seq(RawChar) : QuoteFree(d) /\ u = InQuotes(d)
    BY <1>6
  <2> HIDE DEF p, r
  <2>2. FALSE
    BY <1>2, <1>3, <1>6, <2>1, PlainIsNotQuoted
  <2> QED BY <2>2
<1> QED BY <1>4, <1>5, <1>6 DEF IsText

-----------------------------------------------------------------------------
(* The string of getId tells the value.                                    *)

\* It is where the value is, a sigil and a text.
Site(v)  == IF v.kind = "global" THEN <<>> ELSE v.fn.name \o <<Dot>>
Sigil(v) == IF v.kind = "global" THEN At ELSE Percent

\* What the proofs need to know of a value with an id.
IdValue(v) ==
  /\ v.kind \in {"global", "local"}
  /\ Nameable(v.name, v.slot)
  /\ v.kind = "local" => v.fn.name \in Seq(RawChar)

\* What LLVM prints is a sequence of characters.
LEMMA TextType ==
  ASSUME NEW t, IsText(t)
  PROVE  t \in Seq(RawChar)
BY PlainType, InQuotesType DEF IsText

\* Nothing in front changes nothing.
LEMMA NoName ==
  /\ <<>> \in Seq(RawChar)
  /\ \A s \in Seq(RawChar) : <<>> \o s = s
BY EmptySeq, ConcatEmptySeq

\* The parts of the string of a value.
LEMMA SiteType ==
  ASSUME NEW v, IdValue(v)
  PROVE  /\ Site(v) \in Seq(RawChar)
         /\ Sigil(v) \in {At, Percent}
         /\ <<Sigil(v)>> \in Seq(RawChar)
         /\ IsText(Text(v.name, v.slot))
         /\ Text(v.name, v.slot) \in Seq(RawChar)
<1>1. Sigil(v) \in {At, Percent}
  BY DEF Sigil
<1>2. <<Sigil(v)>> \in Seq(RawChar)
  BY <1>1, CharsDiffer
<1>3. IsText(Text(v.name, v.slot))
  BY TextIs DEF IdValue
<1>4. ASSUME v.kind = "global"
      PROVE  Site(v) \in Seq(RawChar)
  BY <1>4, NoName DEF Site
<1>5. ASSUME v.kind # "global"
      PROVE  Site(v) \in Seq(RawChar)
  <2>1. v.fn.name \in Seq(RawChar) /\ <<Dot>> \in Seq(RawChar)
    BY <1>5, CharsDiffer DEF IdValue
  <2>2. v.fn.name \o <<Dot>> \in Seq(RawChar)
    BY <2>1, ConcatProperties
  <2> QED BY <1>5, <2>2 DEF Site
<1> QED BY <1>1, <1>2, <1>3, <1>4, <1>5, TextType

\* The string of a value is its function, its sigil and its text.
LEMMA BufIs ==
  ASSUME NEW v, IdValue(v)
  PROVE  /\ Buf(v) = (Site(v) \o <<Sigil(v)>>) \o Text(v.name, v.slot)
         /\ Buf(v) \in Seq(RawChar)
<1> DEFINE s == Site(v)
           g == <<Sigil(v)>>
           t == Text(v.name, v.slot)
<1>1. s \in Seq(RawChar) /\ g \in Seq(RawChar) /\ t \in Seq(RawChar)
  BY SiteType
<1>2. AsOperand(v) = g \o t
  BY DEF AsOperand, Text, Sigil
<1>3. Buf(v) = s \o (g \o t)
  <2>1. CASE v.kind = "global"
    <3>1. s = <<>> /\ Buf(v) = g \o t
      BY <1>2, <2>1 DEF Buf, Site
    <3> HIDE DEF s, g, t
    <3>2. g \o t \in Seq(RawChar)
      BY <1>1
    <3>3. <<>> \o (g \o t) = g \o t
      BY <3>2, NoName
    <3> QED BY <3>1, <3>3
  <2>2. CASE v.kind # "global"
    BY <1>2, <2>2 DEF Buf, Site
  <2> QED BY <2>1, <2>2
<1> HIDE DEF s, g, t
<1>4. ConcatAssociates(RawChar)
  BY Associative
<1>5. s \o (g \o t) = (s \o g) \o t
  BY <1>1, <1>4, Zenon DEF ConcatAssociates
<1>6. (s \o g) \o t \in Seq(RawChar)
  BY <1>1
<1>7. Buf(v) = (s \o g) \o t /\ Buf(v) \in Seq(RawChar)
  BY <1>3, <1>5, <1>6
<1> QED BY <1>7 DEF s, g, t

\* Equal strings come from equal parts.
LEMMA BufParts ==
  ASSUME NEW v, NEW w, IdValue(v), IdValue(w), Buf(v) = Buf(w)
  PROVE  /\ Site(v) = Site(w)
         /\ v.name = w.name
         /\ v.name = <<>> => v.slot = w.slot
<1> DEFINE a == Site(v)
           b == Site(w)
           x == Sigil(v)
           y == Sigil(w)
           t == Text(v.name, v.slot)
           u == Text(w.name, w.slot)
<1>1. /\ a \in Seq(RawChar) /\ b \in Seq(RawChar)
      /\ x \in {At, Percent} /\ y \in {At, Percent}
      /\ IsText(t) /\ IsText(u)
  BY SiteType
<1>2. SameString(a \o <<x>>, t, b \o <<y>>, u)
  BY BufIs DEF SameString
<1>3. a = b
  <2> HIDE DEF a, b, x, y, t, u
  <2> QED BY <1>1, <1>2, TextSplit
<1>4. t = u
  <2> HIDE DEF a, b, x, y, t, u
  <2> QED BY <1>1, <1>2, TextSplit
<1>5. v.name = w.name
  BY <1>4, TextTells DEF IdValue
<1>6. v.name = <<>> => v.slot = w.slot
  BY <1>4, TextTells DEF IdValue
<1> QED BY <1>3, <1>5, <1>6

\* A global is nowhere, a local is in its function.
LEMMA SiteTells ==
  ASSUME NEW v, NEW w, IdValue(v), IdValue(w), Site(v) = Site(w)
  PROVE  /\ v.kind = w.kind
         /\ v.kind = "local" => v.fn.name = w.fn.name
<1> DEFINE D == <<Dot>>
<1>1. Dot \in RawChar
  BY CharsDiffer
<1>2. ASSUME NEW f \in Seq(RawChar)
      PROVE  f \o <<Dot>> # <<>>
  <2> DEFINE d == Dot
  <2>1. d \in RawChar
    BY <1>1
  <2> HIDE DEF d
  <2>2. Len(f \o <<d>>) = Len(f) + 1 /\ Len(f) \in Nat
    BY <2>1
  <2>3. f \o <<d>> # <<>>
    BY <2>2
  <2> QED BY <2>3 DEF d
<1>3. v.kind = w.kind
  <2>1. v.kind \in {"global", "local"} /\ w.kind \in {"global", "local"}
    BY DEF IdValue
  <2>2. ASSUME v.kind = "global", w.kind = "local"
        PROVE  FALSE
    <3>1. Site(v) = <<>>
      BY <2>2 DEF Site
    <3>2. Site(w) = w.fn.name \o <<Dot>> /\ w.fn.name \in Seq(RawChar)
      BY <2>2 DEF Site, IdValue
    <3> QED BY <1>2, <3>1, <3>2
  <2>3. ASSUME v.kind = "local", w.kind = "global"
        PROVE  FALSE
    <3>1. Site(w) = <<>>
      BY <2>3 DEF Site
    <3>2. Site(v) = v.fn.name \o <<Dot>> /\ v.fn.name \in Seq(RawChar)
      BY <2>3 DEF Site, IdValue
    <3> QED BY <1>2, <3>1, <3>2
  <2> QED BY <2>1, <2>2, <2>3
<1>4. ASSUME v.kind = "local"
      PROVE  v.fn.name = w.fn.name
  <2> DEFINE f == v.fn.name
             g == w.fn.name
             d == Dot
  <2>1. f \in Seq(RawChar) /\ g \in Seq(RawChar) /\ d \in RawChar
    BY <1>1, <1>3, <1>4 DEF IdValue
  <2>2. f \o <<d>> = g \o <<d>>
    BY <1>3, <1>4 DEF Site
  <2> HIDE DEF f, g, d
  <2>3. f = g
    BY <2>1, <2>2, CancelLast
  <2> QED BY <2>3 DEF f, g
<1> QED BY <1>3, <1>4

\* The values of a module that the proofs are about.
LEMMA ValuesOf ==
  ASSUME WellTyped(mod), NEW v \in HasIdKind
  PROVE  /\ IdValue(v)
         /\ v \in mod
         /\ v.kind = "global" => v \in Globals
         /\ v.kind = "local" => v \in Locals
<1>1. v \in mod /\ v.kind \in {"global", "local"}
  BY DEF HasIdKind
<1>2. v \in Globals \cup Locals \cup WithoutId
  BY <1>1 DEF WellTyped
<1>3. v \notin WithoutId
  BY <1>1 DEF WithoutId
<1>4. v \in Globals => v.kind = "global"
  BY DEF Globals
<1>5. v \in Locals => v.kind = "local"
  BY DEF Locals
<1>6. v.name \in Seq(RawChar) /\ v.slot \in Seq(Digits)
  BY <1>2, <1>3 DEF Globals, Locals
<1>7. v.name = <<>> => v.slot # <<>>
  BY <1>1, <1>2, <1>3 DEF WellTyped
<1>8. v.kind = "local" => v.fn.name \in Seq(RawChar)
  BY <1>2, <1>3, <1>4 DEF Locals, Globals
<1> QED BY <1>1, <1>2, <1>3, <1>4, <1>5, <1>6, <1>7, <1>8 DEF IdValue, Nameable

\* In a module with one value for a name the string tells the value.
LEMMA BufTells ==
  ASSUME WellTyped(mod), OneValuePerName(mod),
         NEW v \in HasIdKind, NEW w \in HasIdKind, Buf(v) = Buf(w)
  PROVE  v = w
<1>1. IdValue(v) /\ IdValue(w) /\ v \in mod /\ w \in mod
  BY ValuesOf
<1>2. Site(v) = Site(w) /\ SameName(v, w)
  BY <1>1, BufParts DEF SameName
<1>3. v.kind = w.kind /\ (v.kind = "local" => v.fn.name = w.fn.name)
  BY <1>1, <1>2, SiteTells
<1>4. CASE v.kind = "global"
  <2>1. v \in mod \cap Globals /\ w \in mod \cap Globals
    BY <1>1, <1>3, <1>4, ValuesOf
  <2> QED BY <1>2, <2>1 DEF OneValuePerName
<1>5. CASE v.kind = "local"
  <2>1. v \in mod \cap Locals /\ w \in mod \cap Locals
    BY <1>1, <1>3, <1>5, ValuesOf
  <2>2. v.fn = w.fn
    BY <1>3, <1>5, <2>1 DEF OneValuePerName
  <2> QED BY <1>2, <2>1, <2>2 DEF OneValuePerName
<1> QED BY <1>1, <1>4, <1>5 DEF IdValue

-----------------------------------------------------------------------------
(* The inductive invariant: an id that was given out is the one that the   *)
(* string of its value has, and every anchor and link has an id that was   *)
(* given out.                                                              *)

IdsAreEscaped ==
  /\ DOMAIN ids \subseteq HasIdKind
  /\ \A v \in DOMAIN ids : WellFormed(Buf(v)) /\ ids[v] = Escaped(Buf(v))

GivenOut(f, r) == \E v \in DOMAIN f : r = <<v, f[v]>>

ReferencesHaveIds == \A r \in anchors \cup links : GivenOut(ids, r)

IInv ==
  /\ mod \in Modules
  /\ status \in {"running", "aborted"}
  /\ IdsAreEscaped
  /\ ReferencesHaveIds

\* Looking an id up adds at most the one of v.
LEMMA Remembered ==
  ASSUME NEW v, Remember(v)
  PROVE  /\ DOMAIN ids' = DOMAIN ids \cup {v}
         /\ ids'[v] = Id(v)
         /\ \A w \in DOMAIN ids : ids'[w] = ids[w]
BY DEF Remember, Id

\* So the invariant on ids is kept, and so is what was given out.
LEMMA RememberKeeps ==
  ASSUME IdsAreEscaped, NEW v \in mod, HasId(v), Remember(v), mod' = mod
  PROVE  /\ IdsAreEscaped'
         /\ \A r : GivenOut(ids, r) => GivenOut(ids', r)
         /\ GivenOut(ids', <<v, Id(v)>>)
<1>1. /\ DOMAIN ids' = DOMAIN ids \cup {v}
      /\ ids'[v] = Id(v)
      /\ \A w \in DOMAIN ids : ids'[w] = ids[w]
  BY Remembered
<1>2. v \in HasIdKind /\ HasIdKind' = HasIdKind /\ WellFormed(Buf(v))
  BY DEF HasId, HasIdKind
<1>3. Id(v) = Escaped(Buf(v))
  BY DEF Id, IdsAreEscaped
<1>4. DOMAIN ids' \subseteq HasIdKind'
  BY <1>1, <1>2 DEF IdsAreEscaped
<1>5. \A w \in DOMAIN ids' : WellFormed(Buf(w)) /\ ids'[w] = Escaped(Buf(w))
  BY <1>1, <1>2, <1>3 DEF IdsAreEscaped
<1>6. \A r : GivenOut(ids, r) => GivenOut(ids', r)
  BY <1>1 DEF GivenOut
<1>7. GivenOut(ids', <<v, Id(v)>>)
  BY <1>1 DEF GivenOut
<1> QED BY <1>4, <1>5, <1>6, <1>7 DEF IdsAreEscaped

\* No id has been given out.
LEMMA InvariantAtStart ==
  ASSUME Init
  PROVE  IInv
<1>1. DOMAIN ids = {}
  BY DEF Init
<1> QED BY <1>1 DEF Init, IInv, IdsAreEscaped, ReferencesHaveIds, GivenOut

\* Every call keeps the invariant.
LEMMA InvariantIsKept ==
  ASSUME IInv, [Next]_vars
  PROVE  IInv'
<1> USE DEF IInv
<1>1. CASE UNCHANGED vars
  BY <1>1 DEF vars, IdsAreEscaped, ReferencesHaveIds, GivenOut, HasIdKind
<1>2. CASE Aborts
  BY <1>2 DEF Aborts, IdsAreEscaped, ReferencesHaveIds, GivenOut, HasIdKind
<1>3. ASSUME NEW v \in mod, Anchor(v)
      PROVE  IInv'
  <2>1. CASE HasId(v)
    <3>1. /\ Remember(v) /\ anchors' = anchors \cup {<<v, Id(v)>>}
          /\ UNCHANGED <<mod, links, status>>
      BY <1>3, <2>1 DEF Anchor
    <3>2. /\ IdsAreEscaped'
          /\ \A r : GivenOut(ids, r) => GivenOut(ids', r)
          /\ GivenOut(ids', <<v, Id(v)>>)
      BY <2>1, <3>1, RememberKeeps
    <3>3. \A r \in anchors' \cup links' : GivenOut(ids', r)
      BY <3>1, <3>2 DEF ReferencesHaveIds
    <3> QED BY <3>1, <3>2, <3>3 DEF ReferencesHaveIds
  <2>2. CASE ~HasId(v)
    BY <1>2, <1>3, <2>2 DEF Anchor
  <2> QED BY <2>1, <2>2
<1>4. ASSUME NEW v \in mod, Ref(v)
      PROVE  IInv'
  <2>1. CASE IsLink(v) /\ HasId(v)
    <3>1. /\ Remember(v) /\ links' = links \cup {<<v, Id(v)>>}
          /\ UNCHANGED <<mod, anchors, status>>
      BY <1>4, <2>1 DEF Ref, MakeLink
    <3>2. /\ IdsAreEscaped'
          /\ \A r : GivenOut(ids, r) => GivenOut(ids', r)
          /\ GivenOut(ids', <<v, Id(v)>>)
      BY <2>1, <3>1, RememberKeeps
    <3>3. \A r \in anchors' \cup links' : GivenOut(ids', r)
      BY <3>1, <3>2 DEF ReferencesHaveIds
    <3> QED BY <3>1, <3>2, <3>3 DEF ReferencesHaveIds
  <2>2. CASE IsLink(v) /\ ~HasId(v)
    BY <1>2, <1>4, <2>2 DEF Ref, MakeLink
  <2>3. CASE ~IsLink(v)
    BY <1>1, <1>4, <2>3 DEF Ref
  <2> QED BY <2>1, <2>2, <2>3
<1> QED BY <1>1, <1>3, <1>4 DEF Next

\* An id in the cache is the one made of the string of its value, whatever the
\* order in which getId was called, and an anchor or a link has an id of the cache.
THEOREM Invariance == Spec => []IInv
<1>1. Init => IInv
  BY InvariantAtStart
<1>2. IInv /\ [Next]_vars => IInv'
  BY InvariantIsKept
<1> QED BY <1>1, <1>2, PTL DEF Spec

AllWellTyped == \A m \in Modules : WellTyped(m)

AllNamed == \A m \in Modules : WellTyped(m) /\ OneValuePerName(m)

\* The type invariant follows.
LEMMA TypeFromInvariant ==
  ASSUME AllWellTyped, IInv
  PROVE  TypeOK
<1>1. WellTyped(mod) /\ DOMAIN ids \subseteq HasIdKind
  BY DEF AllWellTyped, IInv, IdsAreEscaped
<1>2. ASSUME NEW v \in DOMAIN ids
      PROVE  ids[v] \in Seq(CssChar)
  <2>1. IdValue(v) /\ WellFormed(Buf(v)) /\ ids[v] = Escaped(Buf(v))
    BY <1>1, <1>2, ValuesOf DEF IInv, IdsAreEscaped
  <2>2. Buf(v) \in Seq(RawChar)
    BY <2>1, BufIs
  <2> QED BY <2>1, <2>2, EscapedType
<1>3. ASSUME NEW r, GivenOut(ids, r)
      PROVE  r \in HasIdKind \X {ids[v] : v \in DOMAIN ids}
  BY <1>1, <1>3 DEF GivenOut
<1>4. /\ anchors \subseteq HasIdKind \X {ids[v] : v \in DOMAIN ids}
      /\ links \subseteq HasIdKind \X {ids[v] : v \in DOMAIN ids}
  BY <1>3 DEF IInv, ReferencesHaveIds
<1> QED BY <1>1, <1>2, <1>4 DEF TypeOK, IInv

\* Different values have different strings, so different ids.
LEMMA IdsTell ==
  ASSUME AllNamed, IInv
  PROVE  UniqueIds
<1> SUFFICES ASSUME NEW v \in DOMAIN ids, NEW w \in DOMAIN ids, ids[v] = ids[w]
             PROVE  v = w
  BY DEF UniqueIds
<1>1. WellTyped(mod) /\ OneValuePerName(mod)
  BY DEF AllNamed, IInv
<1>2. /\ v \in HasIdKind /\ w \in HasIdKind
      /\ WellFormed(Buf(v)) /\ WellFormed(Buf(w))
      /\ Escaped(Buf(v)) = Escaped(Buf(w))
  BY DEF IInv, IdsAreEscaped
<1>3. IdValue(v) /\ IdValue(w)
  BY <1>1, <1>2, ValuesOf
<1>4. Buf(v) \in Seq(RawChar) /\ Buf(w) \in Seq(RawChar)
  BY <1>3, BufIs
<1>5. Buf(v) = Buf(w)
  BY <1>2, <1>4, EscapedTellsName
<1> QED BY <1>1, <1>2, <1>5, BufTells

\* With unique ids, a link leads to its element only.
LEMMA LinksFromIds ==
  ASSUME IInv, UniqueIds
  PROVE  LinksLeadHome
<1> SUFFICES ASSUME NEW l \in links, NEW a \in anchors
             PROVE  (l[2] = a[2]) <=> (l[1] = a[1])
  BY DEF LinksLeadHome
<1>1. PICK v \in DOMAIN ids : l = <<v, ids[v]>>
  BY DEF IInv, ReferencesHaveIds, GivenOut
<1>2. PICK w \in DOMAIN ids : a = <<w, ids[w]>>
  BY DEF IInv, ReferencesHaveIds, GivenOut
<1> QED BY <1>1, <1>2 DEF UniqueIds

\* Every id is an identifier of CSS, made of letters, digits and underscores,
\* and every anchor and link has one of the cache.
THEOREM TypeCorrect ==
  ASSUME AllWellTyped
  PROVE  Spec => []TypeOK
<1>1. IInv => TypeOK
  BY TypeFromInvariant
<1> QED BY <1>1, Invariance, PTL

\* No two values of a page have the same id, for modules of any size and names
\* of any length, wherever no two functions of the module are without a name.
THEOREM IdsAreUnique ==
  ASSUME AllNamed
  PROVE  Spec => []UniqueIds
<1>1. IInv => UniqueIds
  BY IdsTell
<1> QED BY <1>1, Invariance, PTL

\* For the same modules: the link of a value has the id of the element that
\* shows the value and of no other element of the page.
THEOREM LinksLead ==
  ASSUME AllNamed
  PROVE  Spec => []LinksLeadHome
<1>1. IInv => LinksLeadHome
  BY IdsTell, LinksFromIds
<1> QED BY <1>1, Invariance, PTL

-----------------------------------------------------------------------------
(* The names getId gets through.                                           *)

Passable == {t \in Seq(RawChar) : WellFormed(t)}

\* What is put together of texts the loop gets through it gets through.
LEMMA ConcatPasses ==
  ASSUME NEW a \in Passable, NEW b \in Passable
  PROVE  a \o b \in Passable
<1>1. a \in Seq(RawChar) /\ b \in Seq(RawChar) /\ WellFormed(a) /\ WellFormed(b)
  BY DEF Passable
<1> DEFINE s == a \o b
<1>2. /\ s \in Seq(RawChar) /\ Len(s) = Len(a) + Len(b)
      /\ Len(a) \in Nat /\ Len(b) \in Nat
      /\ \A k \in 1 .. Len(a) : s[k] = a[k]
      /\ \A k \in Len(a) + 1 .. Len(s) : s[k] = b[k - Len(a)]
  BY <1>1
<1> HIDE DEF s
<1> SUFFICES ASSUME NEW k \in 1 .. Len(s)
             PROVE  /\ s[k] \notin Other \cup Unprintable
                    /\ s[k] = Backslash => EscapeAt(s, k)
  <2>1. DOMAIN s = 1 .. Len(s)
    BY <1>2
  <2> QED BY <1>2, <2>1 DEF WellFormed, Passable, s
<1>3. CASE k \in 1 .. Len(a)
  <2>1. /\ a[k] \notin Other \cup Unprintable
        /\ a[k] = Backslash => EscapeAt(a, k)
    BY <1>1, <1>3 DEF WellFormed
  <2>2. s[k] = a[k]
    BY <1>2, <1>3
  <2>3. ASSUME EscapeAt(a, k)
        PROVE  EscapeAt(s, k)
    <3>1. k + 2 <= Len(a) /\ a[k + 1] \in Hex /\ a[k + 2] \in Hex
      BY <2>3 DEF EscapeAt
    <3>2. s[k + 1] = a[k + 1] /\ s[k + 2] = a[k + 2] /\ k + 2 <= Len(s)
      BY <1>2, <1>3, <3>1
    <3> QED BY <3>1, <3>2 DEF EscapeAt
  <2> QED BY <2>1, <2>2, <2>3
<1>4. CASE k \notin 1 .. Len(a)
  <2> DEFINE j == k - Len(a)
  <2>1. j \in 1 .. Len(b) /\ k = Len(a) + j /\ s[k] = b[j]
    BY <1>2, <1>4
  <2> HIDE DEF j
  <2>2. /\ b[j] \notin Other \cup Unprintable
        /\ b[j] = Backslash => EscapeAt(b, j)
    BY <1>1, <2>1 DEF WellFormed
  <2>3. ASSUME EscapeAt(b, j)
        PROVE  EscapeAt(s, k)
    <3>1. j + 2 <= Len(b) /\ b[j + 1] \in Hex /\ b[j + 2] \in Hex
      BY <2>3 DEF EscapeAt
    <3>2. /\ k + 2 <= Len(s)
          /\ k + 1 - Len(a) = j + 1 /\ k + 2 - Len(a) = j + 2
          /\ k + 1 \in Len(a) + 1 .. Len(s) /\ k + 2 \in Len(a) + 1 .. Len(s)
      BY <1>2, <2>1, <3>1
    <3>3. s[k + 1] = b[j + 1] /\ s[k + 2] = b[j + 2]
      BY <1>2, <3>2, SMTT(30)
    <3> QED BY <3>1, <3>2, <3>3 DEF EscapeAt
  <2> QED BY <2>1, <2>2, <2>3
<1> QED BY <1>3, <1>4

\* Texts without a backslash.
LEMMA SimplePasses ==
  ASSUME NEW t \in Seq(Alnum \cup Special)
  PROVE  t \in Passable
<1>1. /\ Backslash \notin Alnum \cup Special
      /\ Alnum \cup Special \subseteq RawChar
      /\ (Alnum \cup Special) \cap (Other \cup Unprintable) = {}
  <2>1. Backslash \notin Special
    BY DEF Special, Backslash, Underscore, At, Percent, Dot, Dash, Dollar, Quote
  <2> QED BY <2>1, CharAssumption DEF CharAssumption, RawChar, Char
<1> DEFINE A == Alnum \cup Special
<1>2. /\ \A k \in DOMAIN t : t[k] \in A
      /\ t \in Seq(RawChar)
  BY <1>1
<1> HIDE DEF A
<1> QED BY <1>1, <1>2 DEF Passable, WellFormed, A

\* Texts that getId can escape can be put together.
LEMMA PassableTogether ==
  /\ Passable \in SUBSET Seq(RawChar)
  /\ PutsTogether(Passable)
<1>1. <<>> \in Passable
  <2>1. <<>> \in Seq(Alnum \cup Special)
    BY EmptySeq
  <2> QED BY <2>1, SimplePasses
<1>2. Passable \in SUBSET Seq(RawChar)
  BY DEF Passable
<1> QED BY <1>1, <1>2, ConcatPasses DEF PutsTogether

\* Whatever LLVM prints inside quotes, unless it is a character of Other.
LEMMA QuotedPasses ==
  ASSUME NEW c \in RawChar, c \notin Other
  PROVE  Quoted(c) \in Passable
<1>1. Quoted(c) \in Seq(RawChar)
  BY QuotedType
<1>2. CASE c \in EscapedByLLVM
  <2>1. PICK x \in Hex, y \in Hex : Quoted(c) = <<Backslash, x, y>>
    BY <1>2, QuotedIs
  <2> DEFINE z == Backslash
             t == <<z, x, y>>
             O == Other \cup Unprintable
  <2>2. z \notin O /\ x \notin O /\ y \notin O /\ x # z /\ y # z
    BY CharAssumption DEF CharAssumption, Char
  <2>3. t = Quoted(c)
    BY <2>1
  <2> HIDE DEF z, O
  <2>4. Len(t) = 3 /\ DOMAIN t = 1 .. 3 /\ t[1] = z /\ t[2] = x /\ t[3] = y
    BY <2>2
  <2> HIDE DEF t
  <2>5. EscapeAt(t, 1)
    <3>1. t[1 + 1] \in Hex /\ t[1 + 2] \in Hex /\ 1 + 2 <= Len(t)
      BY <2>4
    <3> QED BY <3>1 DEF EscapeAt
  <2>6. \A k \in DOMAIN t : k = 1 \/ k = 2 \/ k = 3
    BY <2>4
  <2>7. \A k \in DOMAIN t : t[k] \notin O /\ (t[k] = z => EscapeAt(t, k))
    BY <2>2, <2>4, <2>5, <2>6
  <2>8. WellFormed(t)
    BY <2>7 DEF WellFormed, O, z
  <2> QED BY <1>1, <2>3, <2>8 DEF Passable
<1>3. CASE c \notin EscapedByLLVM
  <2>1. Quoted(c) = <<c>> /\ c # Backslash /\ c \notin Unprintable
    BY <1>3, QuotedIs DEF EscapedByLLVM
  <2> DEFINE t == <<c>>
             z == Backslash
             O == Other \cup Unprintable
  <2>2. c \notin O /\ c # z /\ t = Quoted(c)
    BY <2>1
  <2> HIDE DEF z, O
  <2>3. \A k \in DOMAIN t : t[k] = c
    OBVIOUS
  <2> HIDE DEF t
  <2>4. WellFormed(t)
    BY <2>2, <2>3 DEF WellFormed, O, z
  <2> QED BY <1>1, <2>2, <2>4 DEF Passable
<1> QED BY <1>2, <1>3

\* It can escape what LLVM prints in quotes,
LEMMA BodyPasses ==
  ASSUME NEW name \in Seq(RawChar \ Other)
  PROVE  Body(name) \in Passable
<1> DEFINE f == [k \in 1 .. Len(name) |-> code[name[k]]]
<1>0. name \in Seq(RawChar) /\ Len(name) \in Nat
      /\ \A k \in 1 .. Len(name) : name[k] \in RawChar /\ name[k] \notin Other
  OBVIOUS
<1>1. f \in [1 .. Len(name) -> Seq(RawChar)]
  BY <1>0, CodeType
<1>2. \A k \in 1 .. Len(name) : f[k] \in Passable
  <2> SUFFICES ASSUME NEW k \in 1 .. Len(name) PROVE f[k] \in Passable
    OBVIOUS
  <2>1. f[k] = Quoted(name[k])
    BY <1>0 DEF code
  <2> QED BY <1>0, <2>1, QuotedPasses
<1>3. Body(name) = FlattenSeq(f)
  BY <1>0, BodyIs DEF Coded
<1> HIDE DEF f
<1>4. f \in Seq(Seq(RawChar)) /\ Len(f) = Len(name)
  BY <1>0, <1>1, FunctionIsSeq
<1>5. FlattenSeq(f) \in Passable
  BY <1>2, <1>4, FlattenStays, PassableTogether
<1> QED BY <1>3, <1>5

\* and every name or slot.
LEMMA TextPasses ==
  ASSUME NEW name \in Seq(RawChar \ Other), NEW slot \in Seq(Digits)
  PROVE  Text(name, slot) \in Passable
<1>1. <<Quote>> \in Passable
  <2>1. Quote \in Alnum \cup Special
    BY DEF Special
  <2>2. <<Quote>> \in Seq(Alnum \cup Special)
    BY <2>1
  <2> QED BY <2>2, SimplePasses
<1>2. CASE name = <<>>
  <2>1. slot \in Seq(Alnum \cup Special)
    BY DigitsAssumption DEF DigitsAssumption
  <2> QED BY <1>2, <2>1, SimplePasses DEF Text
<1>3. CASE name # <<>>
  <2>0. name \in Seq(RawChar)
    OBVIOUS
  <2>1. CASE PrintedName(name) = InQuotes(Body(name))
    <3>1. <<Quote>> \o Body(name) \in Passable
      BY <1>1, BodyPasses, ConcatPasses
    <3>2. InQuotes(Body(name)) \in Passable
      BY <1>1, <3>1, ConcatPasses DEF InQuotes
    <3> QED BY <1>3, <2>1, <3>2 DEF Text
  <2>2. CASE PrintedName(name) = name /\ Plain(name)
    <3>1. PlainChar \subseteq Alnum \cup Special
      BY DEF PlainChar, Special
    <3>2. name \in Seq(Alnum \cup Special)
      BY <2>2, <3>1 DEF Plain
    <3> QED BY <1>3, <2>2, <3>2, SimplePasses DEF Text
  <2> QED BY <1>3, <2>0, <2>1, <2>2, PrintedIs
<1> QED BY <1>2, <1>3

\* getId gets through the string of every value of such a module.
LEMMA EveryValueHasId ==
  ASSUME WellTyped(mod), Renderable(mod), NEW v \in HasIdKind
  PROVE  HasId(v)
<1>1. /\ IdValue(v) /\ v \in mod
      /\ v.kind = "global" => v \in Globals
      /\ v.kind = "local" => v \in Locals
  BY ValuesOf
<1>2. v.kind \in {"global", "local"}
  BY DEF HasIdKind
<1>3. v \in mod \cap (Globals \cup Locals)
  BY <1>1, <1>2
<1>4. v.name \in Seq(RawChar \ Other)
  BY <1>3 DEF Renderable
<1>5. v.slot \in Seq(Digits)
  BY <1>1 DEF IdValue, Nameable
<1>6. Text(v.name, v.slot) \in Passable
  BY <1>4, <1>5, TextPasses
<1>7. <<Sigil(v)>> \in Passable
  <2>1. Sigil(v) \in Alnum \cup Special
    BY DEF Sigil, Special
  <2>2. <<Sigil(v)>> \in Seq(Alnum \cup Special)
    BY <2>1
  <2> QED BY <2>2, SimplePasses
<1>8. Site(v) \in Passable
  <2>1. ASSUME v.kind = "global"
        PROVE  Site(v) \in Passable
    BY <2>1, PassableTogether DEF PutsTogether, Site
  <2>2. ASSUME v.kind = "local"
        PROVE  Site(v) \in Passable
    <3>1. v \in mod \cap Locals
      BY <1>1, <2>2
    <3>2. v.fn.name \in Passable
      BY <3>1, SimplePasses DEF Renderable
    <3>3. Dot \in Alnum \cup Special
      BY DEF Special
    <3>4. <<Dot>> \in Seq(Alnum \cup Special)
      BY <3>3
    <3>5. v.fn.name \o <<Dot>> \in Passable
      BY <3>2, <3>4, SimplePasses, ConcatPasses
    <3> QED BY <2>2, <3>5 DEF Site
  <2> QED BY <1>2, <2>1, <2>2
<1>9. Site(v) \o <<Sigil(v)>> \in Passable
  BY <1>7, <1>8, ConcatPasses
<1>10. (Site(v) \o <<Sigil(v)>>) \o Text(v.name, v.slot) \in Passable
  BY <1>6, <1>9, ConcatPasses
<1>11. Buf(v) \in Passable
  BY <1>1, <1>10, BufIs
<1> QED BY <1>2, <1>11 DEF HasId, Passable

AllRenderable == \A m \in Modules : WellTyped(m) /\ Renderable(m)

\* So no call ends the program.
LEMMA NoStepAborts ==
  ASSUME AllRenderable, IInv, status # "aborted", [Next]_vars
  PROVE  status' # "aborted"
<1>1. WellTyped(mod) /\ Renderable(mod)
  BY DEF AllRenderable, IInv
<1>2. ASSUME NEW v \in mod, v.kind \in {"global", "local"}
      PROVE  HasId(v)
  <2>1. v \in HasIdKind
    BY <1>2 DEF HasIdKind
  <2> QED BY <1>1, <2>1, EveryValueHasId
<1>3. ASSUME NEW v \in mod
      PROVE  v.kind \in {"global", "local", "constant"}
  <2>1. v.kind # "other" /\ v \in Globals \cup Locals \cup WithoutId
    BY <1>1, <1>3 DEF Renderable, WellTyped
  <2>2. CASE v \in Globals
    BY <2>2 DEF Globals
  <2>3. CASE v \in Locals
    BY <2>3 DEF Locals
  <2>4. CASE v \in WithoutId
    BY <2>1, <2>4 DEF WithoutId
  <2> QED BY <2>1, <2>2, <2>3, <2>4
<1>4. CASE UNCHANGED vars
  BY <1>4 DEF vars
<1>5. ASSUME NEW v \in mod, Anchor(v)
      PROVE  status' # "aborted"
  <2>1. HasId(v)
    BY <1>2, <1>5 DEF Anchor
  <2> QED BY <1>5, <2>1 DEF Anchor
<1>6. ASSUME NEW v \in mod, Ref(v)
      PROVE  status' # "aborted"
  <2>1. CASE IsLink(v)
    <3>1. v.kind \in {"global", "local"}
      BY <1>3, <2>1 DEF IsLink
    <3>2. HasId(v)
      BY <1>2, <3>1
    <3> QED BY <1>6, <2>1, <3>2 DEF Ref, MakeLink
  <2>2. CASE ~IsLink(v)
    BY <1>6, <2>2 DEF Ref, vars
  <2> QED BY <2>1, <2>2
<1> QED BY <1>4, <1>5, <1>6 DEF Next

\* No reference to a value of a module ends the program as long as no operand
\* is metadata or inline assembler, no name has a character that the switch of
\* getId does not know, and no name of a function one that LLVM would escape.
THEOREM ValuesAreRendered ==
  ASSUME AllRenderable
  PROVE  Spec => []EveryValueIsRendered
<1>1. Init => status # "aborted"
  BY DEF Init
<1>2. IInv /\ status # "aborted" /\ [Next]_vars => (status # "aborted")'
  BY NoStepAborts
<1> QED BY <1>1, <1>2, Invariance, PTL DEF Spec, EveryValueIsRendered

=============================================================================
