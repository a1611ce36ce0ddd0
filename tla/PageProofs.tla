----------------------------- MODULE PageProofs -----------------------------
(***************************************************************************)
(* What a browser makes of a page is the tree it was printed from: proofs  *)
(* about reading and printing, about the rows the renderers make, about    *)
(* where the assert on their texts fails, and about the scripts.           *)
(***************************************************************************)
EXTENDS Cells, PageUi, SequenceLemmas

-----------------------------------------------------------------------------
(* Reading a text, token by token.                                         *)

\* g goes from s to r along the text.
Along(g, s, text, r) ==
  /\ g[0] = s
  /\ g[Len(text)] = r
  /\ \A k \in 1 .. Len(text) : g[k] = Token(g[k - 1], text[k])

\* The browser in state s is in state r after the text.
ReadsTo(s, text, r) == \E g : Along(g, s, text, r)

\* The mode of a page says what is done with a token.
LEMMA ModeToken ==
  ASSUME NEW s, NEW c
  PROVE  /\ s.mode = "data" => Token(s, c) = InData(s, c)
         /\ s.mode = "entity" => Token(s, c) = InEntity(s, c)
         /\ s.mode = "tag" => Token(s, c) = InTag(s, c)
         /\ s.mode = "close" => Token(s, c) = InClose(s, c)
         /\ s.mode = "attrs" => Token(s, c) = InAttrs(s, c)
         /\ s.mode = "name" => Token(s, c) = InName(s, c)
         /\ s.mode = "before" => Token(s, c) = BeforeValue(s, c)
         /\ s.mode = "value" => Token(s, c) = InValue(s, c)
         /\ s.mode = "raw" => Token(s, c) = InRaw(s, c)
         /\ s.mode = "rawtag" => Token(s, c) = InRawTag(s, c)
<1>1. ASSUME s.mode = "data" PROVE Token(s, c) = InData(s, c)
  BY <1>1, Zenon DEF Token
<1>2. ASSUME s.mode = "entity" PROVE Token(s, c) = InEntity(s, c)
  BY <1>2, Zenon DEF Token
<1>3. ASSUME s.mode = "tag" PROVE Token(s, c) = InTag(s, c)
  BY <1>3, Zenon DEF Token
<1>4. ASSUME s.mode = "close" PROVE Token(s, c) = InClose(s, c)
  BY <1>4, Zenon DEF Token
<1>5. ASSUME s.mode = "attrs" PROVE Token(s, c) = InAttrs(s, c)
  BY <1>5, Zenon DEF Token
<1>6. ASSUME s.mode = "name" PROVE Token(s, c) = InName(s, c)
  BY <1>6, Zenon DEF Token
<1>7. ASSUME s.mode = "before" PROVE Token(s, c) = BeforeValue(s, c)
  BY <1>7, Zenon DEF Token
<1>8. ASSUME s.mode = "value" PROVE Token(s, c) = InValue(s, c)
  BY <1>8, Zenon DEF Token
<1>9. ASSUME s.mode = "raw" PROVE Token(s, c) = InRaw(s, c)
  BY <1>9, Zenon DEF Token
<1>10. ASSUME s.mode = "rawtag" PROVE Token(s, c) = InRawTag(s, c)
  BY <1>10, Zenon DEF Token
<1> QED BY <1>1, <1>2, <1>3, <1>4, <1>5, <1>6, <1>7, <1>8, <1>9, <1>10

\* Nothing to read leaves the state as it is.
LEMMA ReadsNothing == ASSUME NEW s PROVE ReadsTo(s, <<>>, s)
<1>1. Along([k \in {0} |-> s], s, <<>>, s)
  BY DEF Along
<1> QED BY <1>1 DEF ReadsTo

\* One token.
LEMMA ReadsOne == ASSUME NEW s, NEW c PROVE ReadsTo(s, <<c>>, Token(s, c))
<1> DEFINE g == [k \in 0 .. 1 |-> IF k = 0 THEN s ELSE Token(s, c)]
<1>1. g[0] = s /\ g[1] = Token(s, c)
  OBVIOUS
<1>2. Len(<<c>>) = 1 /\ <<c>>[1] = c
  OBVIOUS
<1> HIDE DEF g
<1>3. Along(g, s, <<c>>, Token(s, c))
  BY <1>1, <1>2 DEF Along
<1> QED BY <1>3 DEF ReadsTo

\* One text after another.
LEMMA ReadsBoth ==
  ASSUME NEW S, NEW t \in Seq(S), NEW u \in Seq(S), NEW s, NEW m, NEW r,
         ReadsTo(s, t, m), ReadsTo(m, u, r)
  PROVE  ReadsTo(s, t \o u, r)
<1>1. PICK g : Along(g, s, t, m)
  BY DEF ReadsTo
<1>2. PICK h : Along(h, m, u, r)
  BY DEF ReadsTo
<1> DEFINE n == Len(t)
           f == [k \in 0 .. n + Len(u) |-> IF k <= n THEN g[k] ELSE h[k - n]]
           w == t \o u
<1>3. n \in Nat /\ Len(u) \in Nat /\ Len(w) = n + Len(u)
  OBVIOUS
<1>4. /\ \A k \in 1 .. n : w[k] = t[k]
      /\ \A k \in n + 1 .. n + Len(u) : w[k] = u[k - n]
  OBVIOUS
<1>5. f[0] = s
  BY <1>1, <1>3 DEF Along
<1>6. f[n + Len(u)] = r
  <2>1. CASE Len(u) = 0
    <3>1. f[n + Len(u)] = g[n] /\ m = r
      BY <1>2, <1>3, <2>1 DEF Along
    <3> QED BY <1>1, <3>1 DEF Along
  <2>2. CASE Len(u) # 0
    <3>1. n + Len(u) \in 0 .. n + Len(u) /\ ~ (n + Len(u) <= n) /\ (n + Len(u)) - n = Len(u)
      BY <1>3, <2>2
    <3>2. f[n + Len(u)] = h[Len(u)]
      BY <3>1
    <3> QED BY <1>2, <3>2 DEF Along
  <2> QED BY <2>1, <2>2
<1>7. ASSUME NEW k \in 1 .. n + Len(u)
      PROVE  f[k] = Token(f[k - 1], w[k])
  <2>1. CASE k <= n
    <3>1. k \in 1 .. n /\ f[k] = g[k] /\ f[k - 1] = g[k - 1] /\ w[k] = t[k]
      BY <1>3, <1>4, <2>1
    <3> QED BY <1>1, <3>1 DEF Along
  <2>2. CASE k = n + 1
    <3>1. f[k] = h[1] /\ f[k - 1] = g[n] /\ w[k] = u[1] /\ 1 \in 1 .. Len(u)
      BY <1>3, <1>4, <2>2
    <3>2. h[1] = Token(h[0], u[1])
      BY <1>2, <3>1 DEF Along
    <3>3. g[n] = h[0]
      BY <1>1, <1>2 DEF Along
    <3> HIDE DEF f, w
    <3> QED BY <3>1, <3>2, <3>3, Zenon
  <2>3. CASE k > n + 1
    <3>1. k - n \in 1 .. Len(u) /\ f[k] = h[k - n] /\ f[k - 1] = h[(k - n) - 1] /\ w[k] = u[k - n]
      BY <1>3, <1>4, <2>3
    <3> QED BY <1>2, <3>1 DEF Along
  <2> QED BY <1>3, <2>1, <2>2, <2>3
<1> HIDE DEF f, w
<1>8. Along(f, s, w, r)
  BY <1>3, <1>5, <1>6, <1>7 DEF Along
<1> QED BY <1>8 DEF ReadsTo, w

\* A text and one more token.
LEMMA ReadsMore ==
  ASSUME NEW S, NEW t \in Seq(S), NEW c \in S, NEW s, NEW m, ReadsTo(s, t, m)
  PROVE  ReadsTo(s, Append(t, c), Token(m, c))
<1>1. <<c>> \in Seq(S)
  OBVIOUS
<1>2. Append(t, c) = t \o <<c>>
  BY AppendIsConcat
<1> QED BY <1>1, <1>2, ReadsOne, ReadsBoth

\* A token and a text.
LEMMA ReadsFirst ==
  ASSUME NEW S, NEW s, NEW c \in S, NEW t \in Seq(S), NEW r, ReadsTo(Token(s, c), t, r)
  PROVE  ReadsTo(s, <<c>> \o t, r)
<1>1. <<c>> \in Seq(S)
  OBVIOUS
<1> QED BY <1>1, ReadsOne, ReadsBoth

\* The tokens of short texts.
LEMMA ReadsTwo ==
  ASSUME NEW S, NEW s, NEW c \in S, NEW d \in S
  PROVE  ReadsTo(s, <<c, d>>, Token(Token(s, c), d))
<1>1. <<d>> \in Seq(S)
  OBVIOUS
<1>2. <<c, d>> = <<c>> \o <<d>>
  BY Pair
<1> QED BY <1>1, <1>2, ReadsOne, ReadsFirst

\* Three tokens.
LEMMA ReadsThree ==
  ASSUME NEW S, NEW s, NEW c \in S, NEW d \in S, NEW e \in S
  PROVE  ReadsTo(s, <<c, d, e>>, Token(Token(Token(s, c), d), e))
<1>1. <<d, e>> \in Seq(S) /\ <<c, d, e>> = <<c>> \o <<d, e>>
  BY Triple
<1> QED BY <1>1, ReadsTwo, ReadsFirst

\* An element in front of three.
LEMMA Four ==
  ASSUME NEW S, NEW a \in S, NEW b \in S, NEW c \in S, NEW d \in S
  PROVE  <<a>> \o <<b, c, d>> = <<a, b, c, d>>
<1> DEFINE u == <<b, c, d>>
           s == <<a>> \o u
           t == <<a, b, c, d>>
<1>1. u \in Seq(S) /\ Len(u) = 3 /\ u[1] = b /\ u[2] = c /\ u[3] = d
  OBVIOUS
<1>2. /\ t \in Seq(S) /\ Len(t) = 4
      /\ t[1] = a /\ t[2] = b /\ t[3] = c /\ t[4] = d
  OBVIOUS
<1> HIDE DEF u
<1>3. /\ s \in Seq(S) /\ Len(s) = Len(u) + 1 /\ s[1] = a
      /\ \A k \in 1 .. Len(u) : s[k + 1] = u[k]
  BY <1>1, Prepended DEF u
<1> HIDE DEF s, t
<1>4. s[2] = b /\ s[3] = c /\ s[4] = d /\ Len(s) = 4
  <2>1. s[1 + 1] = u[1] /\ s[2 + 1] = u[2] /\ s[3 + 1] = u[3]
    BY <1>1, <1>3
  <2> QED BY <1>1, <1>3, <2>1
<1>5. \A k \in 1 .. Len(s) : k = 1 \/ k = 2 \/ k = 3 \/ k = 4
  BY <1>4
<1>6. \A k \in 1 .. Len(s) : s[k] = t[k]
  BY <1>2, <1>3, <1>4, <1>5
<1> QED BY <1>2, <1>3, <1>4, <1>6, SeqEqual DEF s, t, u

\* Four tokens.
LEMMA ReadsFour ==
  ASSUME NEW S, NEW s, NEW c \in S, NEW d \in S, NEW e \in S, NEW f \in S
  PROVE  ReadsTo(s, <<c, d, e, f>>, Token(Token(Token(Token(s, c), d), e), f))
<1>1. <<d, e, f>> \in Seq(S) /\ <<c, d, e, f>> = <<c>> \o <<d, e, f>>
  BY Four
<1> QED BY <1>1, ReadsThree, ReadsFirst

\* A text leads to one state only.
LEMMA ReadsSame ==
  ASSUME NEW S, NEW text \in Seq(S), NEW s, NEW r, NEW q, ReadsTo(s, text, r), ReadsTo(s, text, q)
  PROVE  r = q
<1>1. PICK g : Along(g, s, text, r)
  BY DEF ReadsTo
<1>2. PICK h : Along(h, s, text, q)
  BY DEF ReadsTo
<1> DEFINE T == {k \in Nat : g[k] = h[k]}
<1>3. 0 \in T
  BY <1>1, <1>2 DEF Along
<1>4. ASSUME NEW k \in 0 .. Len(text) - 1, k \in T
      PROVE  k + 1 \in T
  <2>1. k + 1 \in 1 .. Len(text) /\ (k + 1) - 1 = k /\ k + 1 \in Nat
    OBVIOUS
  <2>2. g[k + 1] = Token(g[k], text[k + 1]) /\ h[k + 1] = Token(h[k], text[k + 1])
    BY <1>1, <1>2, <2>1 DEF Along
  <2> QED BY <1>4, <2>1, <2>2
<1> HIDE DEF T
<1>5. Len(text) \in Nat
  OBVIOUS
<1>6. \A k \in 0 .. Len(text) : k \in T
  BY <1>3, <1>4, <1>5, InductionUpTo
<1>7. g[Len(text)] = h[Len(text)]
  BY <1>5, <1>6 DEF T
<1> QED BY <1>1, <1>2, <1>7 DEF Along

-----------------------------------------------------------------------------
(* The browser between two tokens.                                         *)

Page(mode, tag, attrs, seen) == [mode |-> mode, tag |-> tag, attrs |-> attrs, seen |-> seen]

\* In the text of the page, in an entity, after <, after </, in an opening tag
\* between two attributes and in a name, in a value, and in a script.
DataPage(t, seen)          == Page("data", t, <<>>, seen)
EntityPage(t, seen)        == Page("entity", t, <<>>, seen)
TagPage(t, seen)           == Page("tag", t, <<>>, seen)
ClosePage(t, seen)         == Page("close", t, <<>>, seen)
AttrsPage(t, attrs, seen)  == Page("attrs", t, attrs, seen)
NamePage(t, attrs, seen)   == Page("name", t, attrs, seen)
BeforePage(t, attrs, seen) == Page("before", t, attrs, seen)
ValuePage(t, attrs, seen)  == Page("value", t, attrs, seen)
RawPage(t, seen)           == Page("raw", t, <<>>, seen)
RawTagPage(t, seen)        == Page("rawtag", t, <<>>, seen)

\* What is seen of a character.
CharEvent(c) == IF c \in Blank THEN <<"blank">> ELSE <<"text", c>>

\* An attribute as the browser keeps it.
Named(name, value) == [name |-> name, value |-> value]

\* The mode says what is done with a token.
LEMMA ModeOfPage ==
  ASSUME NEW t, NEW attrs, NEW seen, NEW c
  PROVE  /\ Token(DataPage(t, seen), c) = InData(DataPage(t, seen), c)
         /\ Token(EntityPage(t, seen), c) = InEntity(EntityPage(t, seen), c)
         /\ Token(TagPage(t, seen), c) = InTag(TagPage(t, seen), c)
         /\ Token(ClosePage(t, seen), c) = InClose(ClosePage(t, seen), c)
         /\ Token(AttrsPage(t, attrs, seen), c) = InAttrs(AttrsPage(t, attrs, seen), c)
         /\ Token(NamePage(t, attrs, seen), c) = InName(NamePage(t, attrs, seen), c)
         /\ Token(BeforePage(t, attrs, seen), c) = BeforeValue(BeforePage(t, attrs, seen), c)
         /\ Token(ValuePage(t, attrs, seen), c) = InValue(ValuePage(t, attrs, seen), c)
         /\ Token(RawPage(t, seen), c) = InRaw(RawPage(t, seen), c)
         /\ Token(RawTagPage(t, seen), c) = InRawTag(RawTagPage(t, seen), c)
<1>1. Token(DataPage(t, seen), c) = InData(DataPage(t, seen), c)
  <2> DEFINE s == DataPage(t, seen)
  <2>1. s.mode = "data"
    BY DEF Page, DataPage
  <2> HIDE DEF s
  <2>2. Token(s, c) = InData(s, c)
    BY <2>1, ModeToken
  <2> QED BY <2>2 DEF s
<1>2. Token(EntityPage(t, seen), c) = InEntity(EntityPage(t, seen), c)
  <2> DEFINE s == EntityPage(t, seen)
  <2>1. s.mode = "entity"
    BY DEF Page, EntityPage
  <2> HIDE DEF s
  <2>2. Token(s, c) = InEntity(s, c)
    BY <2>1, ModeToken
  <2> QED BY <2>2 DEF s
<1>3. Token(TagPage(t, seen), c) = InTag(TagPage(t, seen), c)
  <2> DEFINE s == TagPage(t, seen)
  <2>1. s.mode = "tag"
    BY DEF Page, TagPage
  <2> HIDE DEF s
  <2>2. Token(s, c) = InTag(s, c)
    BY <2>1, ModeToken
  <2> QED BY <2>2 DEF s
<1>4. Token(ClosePage(t, seen), c) = InClose(ClosePage(t, seen), c)
  <2> DEFINE s == ClosePage(t, seen)
  <2>1. s.mode = "close"
    BY DEF Page, ClosePage
  <2> HIDE DEF s
  <2>2. Token(s, c) = InClose(s, c)
    BY <2>1, ModeToken
  <2> QED BY <2>2 DEF s
<1>5. Token(AttrsPage(t, attrs, seen), c) = InAttrs(AttrsPage(t, attrs, seen), c)
  <2> DEFINE s == AttrsPage(t, attrs, seen)
  <2>1. s.mode = "attrs"
    BY DEF Page, AttrsPage
  <2> HIDE DEF s
  <2>2. Token(s, c) = InAttrs(s, c)
    BY <2>1, ModeToken
  <2> QED BY <2>2 DEF s
<1>6. Token(NamePage(t, attrs, seen), c) = InName(NamePage(t, attrs, seen), c)
  <2> DEFINE s == NamePage(t, attrs, seen)
  <2>1. s.mode = "name"
    BY DEF Page, NamePage
  <2> HIDE DEF s
  <2>2. Token(s, c) = InName(s, c)
    BY <2>1, ModeToken
  <2> QED BY <2>2 DEF s
<1>7. Token(BeforePage(t, attrs, seen), c) = BeforeValue(BeforePage(t, attrs, seen), c)
  <2> DEFINE s == BeforePage(t, attrs, seen)
  <2>1. s.mode = "before"
    BY DEF Page, BeforePage
  <2> HIDE DEF s
  <2>2. Token(s, c) = BeforeValue(s, c)
    BY <2>1, ModeToken
  <2> QED BY <2>2 DEF s
<1>8. Token(ValuePage(t, attrs, seen), c) = InValue(ValuePage(t, attrs, seen), c)
  <2> DEFINE s == ValuePage(t, attrs, seen)
  <2>1. s.mode = "value"
    BY DEF Page, ValuePage
  <2> HIDE DEF s
  <2>2. Token(s, c) = InValue(s, c)
    BY <2>1, ModeToken
  <2> QED BY <2>2 DEF s
<1>9. Token(RawPage(t, seen), c) = InRaw(RawPage(t, seen), c)
  <2> DEFINE s == RawPage(t, seen)
  <2>1. s.mode = "raw"
    BY DEF Page, RawPage
  <2> HIDE DEF s
  <2>2. Token(s, c) = InRaw(s, c)
    BY <2>1, ModeToken
  <2> QED BY <2>2 DEF s
<1>10. Token(RawTagPage(t, seen), c) = InRawTag(RawTagPage(t, seen), c)
  <2> DEFINE s == RawTagPage(t, seen)
  <2>1. s.mode = "rawtag"
    BY DEF Page, RawTagPage
  <2> HIDE DEF s
  <2>2. Token(s, c) = InRawTag(s, c)
    BY <2>1, ModeToken
  <2> QED BY <2>2 DEF s
<1> QED BY <1>1, <1>2, <1>3, <1>4, <1>5, <1>6, <1>7, <1>8, <1>9, <1>10, ZenonT(30)

\* The fields of a page, one after another.
LEMMA PageFields ==
  ASSUME NEW mode, NEW t, NEW attrs, NEW seen, NEW x
  PROVE  /\ Page(mode, t, attrs, seen).mode = mode
         /\ Page(mode, t, attrs, seen).tag = t
         /\ Page(mode, t, attrs, seen).attrs = attrs
         /\ Page(mode, t, attrs, seen).seen = seen
         /\ [Page(mode, t, attrs, seen) EXCEPT !.mode = x] = Page(x, t, attrs, seen)
         /\ [Page(mode, t, attrs, seen) EXCEPT !.tag = x] = Page(mode, x, attrs, seen)
         /\ [Page(mode, t, attrs, seen) EXCEPT !.attrs = x] = Page(mode, t, x, seen)
         /\ [Page(mode, t, attrs, seen) EXCEPT !.seen = x] = Page(mode, t, attrs, x)
BY DEF Page

\* A character is seen.
LEMMA CharOfPage ==
  ASSUME NEW mode, NEW t, NEW attrs, NEW seen, NEW c
  PROVE  Char(Page(mode, t, attrs, seen), c) = Page(mode, t, attrs, See(seen, CharEvent(c)))
BY DEF Char, CharEvent, Page

\* The same between tags, and in a script.
LEMMA CharOfText ==
  ASSUME NEW t, NEW seen, NEW c
  PROVE  /\ Char(DataPage(t, seen), c) = DataPage(t, See(seen, CharEvent(c)))
         /\ Char(RawPage(t, seen), c) = RawPage(t, See(seen, CharEvent(c)))
<1> DEFINE m == "data"
           n == "raw"
           none == <<>>
<1> HIDE DEF m, n, none
<1>1. /\ Char(Page(m, t, none, seen), c) = Page(m, t, none, See(seen, CharEvent(c)))
      /\ Char(Page(n, t, none, seen), c) = Page(n, t, none, See(seen, CharEvent(c)))
  BY CharOfPage
<1> QED BY <1>1 DEF m, n, none, DataPage, RawPage

-----------------------------------------------------------------------------
(* What the tokens do.                                                     *)

\* Between tags, < begins a tag and & an entity.
LEMMA DataToken ==
  ASSUME NEW t, NEW seen
  PROVE  /\ Token(DataPage(t, seen), "<") = TagPage(t, seen)
         /\ Token(DataPage(t, seen), "&") = EntityPage("", seen)
<1> DEFINE none == <<>>
<1> HIDE DEF none
<1>1. /\ InData(Page("data", t, none, seen), "<") = Page("tag", t, none, seen)
      /\ InData(Page("data", t, none, seen), "&") = Page("entity", "", none, seen)
  BY DEF InData, Page
<1>2. \A c : Token(DataPage(t, seen), c) = InData(DataPage(t, seen), c)
  BY ModeOfPage
<1> QED BY <1>1, <1>2, Zenon DEF none, DataPage, TagPage, EntityPage

\* Everything else is seen.
LEMMA TextToken ==
  ASSUME NEW t, NEW seen, NEW c, c \notin {"<", "&"}
  PROVE  Token(DataPage(t, seen), c) = DataPage(t, See(seen, CharEvent(c)))
<1> DEFINE s == DataPage(t, seen)
<1>1. InData(s, c) = Char(s, c)
  BY DEF InData
<1>2. Token(s, c) = InData(s, c)
  BY ModeOfPage
<1> HIDE DEF s
<1>3. Token(s, c) = Char(s, c)
  BY <1>1, <1>2, Zenon
<1> QED BY <1>3, CharOfText, ZenonT(30) DEF s

\* The name of an entity and the ; after it are one character.
LEMMA EntityToken ==
  ASSUME NEW t, NEW seen, NEW c \in EntityNames
  PROVE  /\ Token(EntityPage("", seen), c) = EntityPage(c, seen)
         /\ Token(EntityPage(c, seen), ";") = DataPage(c, See(seen, CharEvent(Decoded(c))))
<1> DEFINE none == <<>>
           d == "data"
           m == "entity"
           s == Page(m, c, none, seen)
<1>1. c # ""
  BY DEF EntityNames
<1>2. InEntity(Page("entity", "", none, seen), c) = Page("entity", c, none, seen)
  <2> HIDE DEF none
  <2> QED BY DEF InEntity, Page
<1> HIDE DEF none, d, m
<1>3. [s EXCEPT !.mode = d] = Page(d, c, none, seen) /\ s.tag = c
  BY PageFields
<1> HIDE DEF s
<1>4. InEntity(s, ";") = Char([s EXCEPT !.mode = d], Decoded(s.tag))
  BY <1>1, <1>3 DEF InEntity, d
<1>5. InEntity(s, ";") = Char(DataPage(c, seen), Decoded(c))
  BY <1>3, <1>4, Zenon DEF DataPage, d, none
<1>6. \A u, e : Token(EntityPage(u, seen), e) = InEntity(EntityPage(u, seen), e)
  BY ModeOfPage
<1>7. Token(EntityPage("", seen), c) = InEntity(EntityPage("", seen), c)
  BY <1>6, Zenon
<1>8. Token(EntityPage("", seen), c) = EntityPage(c, seen)
  BY <1>2, <1>7, Zenon DEF EntityPage, none
<1>9. Token(EntityPage(c, seen), ";") = Char(DataPage(c, seen), Decoded(c))
  <2>1. EntityPage(c, seen) = s
    BY Zenon DEF EntityPage, s, m, none
  <2> QED BY <1>5, <1>6, <2>1, Zenon
<1>10. Char(DataPage(c, seen), Decoded(c)) = DataPage(c, See(seen, CharEvent(Decoded(c))))
  BY CharOfText, ZenonT(30)
<1> QED BY <1>8, <1>9, <1>10, Zenon

\* After < comes a name, or the / of a closing tag.
LEMMA TagToken ==
  ASSUME NEW t, NEW seen, NEW c
  PROVE  /\ Token(TagPage(t, seen), "/") = ClosePage(t, seen)
         /\ c # "/" => Token(TagPage(t, seen), c) = AttrsPage(c, <<>>, seen)
<1> DEFINE none == <<>>
<1> HIDE DEF none
<1>1. /\ InTag(Page("tag", t, none, seen), "/") = Page("close", t, none, seen)
      /\ c # "/" => InTag(Page("tag", t, none, seen), c) = Page("attrs", c, none, seen)
  BY DEF InTag, Page
<1>2. \A d : Token(TagPage(t, seen), d) = InTag(TagPage(t, seen), d)
  BY ModeOfPage
<1> QED BY <1>1, <1>2, Zenon DEF none, TagPage, ClosePage, AttrsPage

\* After </ comes a name and >.
LEMMA CloseToken ==
  ASSUME NEW t, NEW seen, NEW c, c # ">"
  PROVE  /\ Token(ClosePage(t, seen), c) = ClosePage(c, seen)
         /\ Token(ClosePage(t, seen), ">") = DataPage(t, See(seen, <<"close", t>>))
<1> DEFINE none == <<>>
<1> HIDE DEF none
<1>1. InClose(Page("close", t, none, seen), c) = Page("close", c, none, seen)
  BY DEF InClose, Page
<1>2. InClose(Page("close", t, none, seen), ">") = Page("data", t, none, See(seen, <<"close", t>>))
  BY DEF InClose, Page
<1>3. \A d : Token(ClosePage(t, seen), d) = InClose(ClosePage(t, seen), d)
  BY ModeOfPage
<1> QED BY <1>1, <1>2, <1>3, Zenon DEF none, DataPage, ClosePage

\* What comes after an opening tag is a script, or the text of the page.
AfterOpen(t, seen) == IF t \in {"script", "style"} THEN RawPage(t, seen) ELSE DataPage(t, seen)

\* > ends an opening tag.
LEMMA OpenToken ==
  ASSUME NEW t, NEW attrs, NEW seen
  PROVE  /\ Token(AttrsPage(t, attrs, seen), ">") = AfterOpen(t, See(seen, <<"open", t, Kept(attrs)>>))
         /\ Token(NamePage(t, attrs, seen), ">") = AfterOpen(t, See(seen, <<"open", t, Kept(attrs)>>))
<1> DEFINE e == <<"open", t, Kept(attrs)>>
           none == <<>>
           m == IF t \in {"script", "style"} THEN "raw" ELSE "data"
           r == Page(m, t, none, See(seen, e))
<1>1. ASSUME NEW mode
      PROVE  Open(Page(mode, t, attrs, seen)) = r
  <2> DEFINE s == Page(mode, t, attrs, seen)
  <2>1. s.tag = t /\ s.attrs = attrs /\ s.seen = seen
    BY PageFields
  <2>2. Open(s) = [[[s EXCEPT !.seen = See(s.seen, <<"open", s.tag, Kept(s.attrs)>>)]
                     EXCEPT !.mode = IF s.tag \in {"script", "style"} THEN "raw" ELSE "data"]
                     EXCEPT !.attrs = <<>>]
    BY Zenon DEF Open
  <2>3. Open(s) = [[[s EXCEPT !.seen = See(seen, e)] EXCEPT !.mode = m] EXCEPT !.attrs = none]
    <3> HIDE DEF s
    <3> QED BY <2>1, <2>2, Zenon DEF e, m, none
  <2> HIDE DEF e, m, none
  <2>4. [s EXCEPT !.seen = See(seen, e)] = Page(mode, t, attrs, See(seen, e))
    BY PageFields
  <2>5. [Page(mode, t, attrs, See(seen, e)) EXCEPT !.mode = m] = Page(m, t, attrs, See(seen, e))
    BY PageFields
  <2>6. [Page(m, t, attrs, See(seen, e)) EXCEPT !.attrs = none] = Page(m, t, none, See(seen, e))
    BY PageFields
  <2> QED BY <2>3, <2>4, <2>5, <2>6, Zenon
<1>2. r = AfterOpen(t, See(seen, e))
  <2> HIDE DEF e, none
  <2>1. CASE t \in {"script", "style"}
    <3>1. m = "raw"
      BY <2>1
    <3>2. AfterOpen(t, See(seen, e)) = RawPage(t, See(seen, e))
      BY <2>1 DEF AfterOpen
    <3> HIDE DEF m
    <3> QED BY <3>1, <3>2, Zenon DEF none, RawPage
  <2>2. CASE t \notin {"script", "style"}
    <3>1. m = "data"
      BY <2>2
    <3>2. AfterOpen(t, See(seen, e)) = DataPage(t, See(seen, e))
      BY <2>2 DEF AfterOpen
    <3> HIDE DEF m
    <3> QED BY <3>1, <3>2, Zenon DEF none, DataPage
  <2> QED BY <2>1, <2>2
<1> HIDE DEF r
<1>3. /\ InAttrs(Page("attrs", t, attrs, seen), ">") = Open(Page("attrs", t, attrs, seen))
      /\ InName(Page("name", t, attrs, seen), ">") = Open(Page("name", t, attrs, seen))
  BY DEF InAttrs, InName, Blank
<1>4. \A c : /\ Token(AttrsPage(t, attrs, seen), c) = InAttrs(AttrsPage(t, attrs, seen), c)
             /\ Token(NamePage(t, attrs, seen), c) = InName(NamePage(t, attrs, seen), c)
  BY ModeOfPage
<1> QED BY <1>1, <1>2, <1>3, <1>4, Zenon DEF AttrsPage, NamePage, e

\* A blank ends a name, and what comes after it begins another.
LEMMA BlankToken ==
  ASSUME NEW t, NEW attrs, NEW seen, NEW c \in Blank
  PROVE  /\ Token(AttrsPage(t, attrs, seen), c) = AttrsPage(t, attrs, seen)
         /\ Token(NamePage(t, attrs, seen), c) = AttrsPage(t, attrs, seen)
<1>1. c # ">" /\ c # "="
  BY DEF Blank
<1>2. InAttrs(Page("attrs", t, attrs, seen), c) = Page("attrs", t, attrs, seen)
  BY <1>1 DEF InAttrs, Page
<1>3. InName(Page("name", t, attrs, seen), c) = Page("attrs", t, attrs, seen)
  BY <1>1 DEF InName, Page
<1>4. /\ Token(AttrsPage(t, attrs, seen), c) = InAttrs(AttrsPage(t, attrs, seen), c)
      /\ Token(NamePage(t, attrs, seen), c) = InName(NamePage(t, attrs, seen), c)
  BY ModeOfPage
<1> QED BY <1>2, <1>3, <1>4, Zenon DEF AttrsPage, NamePage

\* Another attribute begins.
LEMMA AttrToken ==
  ASSUME NEW t, NEW attrs, NEW seen, NEW c, c \notin Blank, c # ">"
  PROVE  Token(AttrsPage(t, attrs, seen), c) = NamePage(t, Append(attrs, Named(<<c>>, <<>>)), seen)
<1> DEFINE longer == Append(attrs, Named(<<c>>, <<>>))
<1>1. InAttrs(Page("attrs", t, attrs, seen), c) = Page("name", t, longer, seen)
  <2>1. InAttrs(Page("attrs", t, attrs, seen), c)
          = [Page("attrs", t, attrs, seen) EXCEPT !.mode = "name", !.attrs = longer]
    BY DEF InAttrs, Page, Named
  <2> HIDE DEF longer
  <2> QED BY <2>1 DEF Page
<1>2. Token(AttrsPage(t, attrs, seen), c) = InAttrs(AttrsPage(t, attrs, seen), c)
  BY ModeOfPage
<1> QED BY <1>1, <1>2, Zenon DEF AttrsPage, NamePage

\* The last of the attributes changes.
LEMMA LastAttr ==
  ASSUME NEW S, NEW attrs \in Seq(S), NEW a \in S, NEW t, NEW mode, NEW seen, NEW n, NEW v
  PROVE  /\ Last(Page(mode, t, Append(attrs, a), seen).attrs) = a
         /\ WithLast(Page(mode, t, Append(attrs, a), seen), n, v)
              = Page(mode, t, Append(attrs, Named(n, v)), seen)
<1> DEFINE longer == Append(attrs, a)
           s == Page(mode, t, longer, seen)
           b == Named(n, v)
<1>1. Front(longer) = attrs /\ Last(longer) = a
  BY DEF Front, Last
<1> HIDE DEF longer
<1>2. s.attrs = longer
  BY PageFields
<1>3. WithLast(s, n, v) = [s EXCEPT !.attrs = Append(Front(longer), b)]
  <2> HIDE DEF s
  <2> QED BY <1>2, Zenon DEF WithLast, Named
<1> HIDE DEF b
<1>4. [s EXCEPT !.attrs = Append(attrs, b)] = Page(mode, t, Append(attrs, b), seen)
  <2> DEFINE c == Append(attrs, b)
  <2> HIDE DEF c
  <2>1. [s EXCEPT !.attrs = c] = Page(mode, t, c, seen)
    BY PageFields
  <2> QED BY <2>1 DEF c
<1> QED BY <1>1, <1>2, <1>3, <1>4, Zenon DEF longer, b

\* A name goes on, or a value comes after it.
LEMMA NameToken ==
  ASSUME NEW S, NEW attrs \in Seq(S), NEW a \in S, NEW t, NEW seen, NEW c,
         c \notin Blank, c \notin {">", "="}
  PROVE  /\ Token(NamePage(t, Append(attrs, a), seen), c)
              = NamePage(t, Append(attrs, Named(Append(a.name, c), a.value)), seen)
         /\ Token(NamePage(t, Append(attrs, a), seen), "=")
              = BeforePage(t, Append(attrs, Named(a.name, <<<<>>>>)), seen)
<1> DEFINE m == "name"
           before == "before"
           s == Page(m, t, Append(attrs, a), seen)
           none == <<<<>>>>
           r == Page(m, t, Append(attrs, Named(a.name, none)), seen)
<1> HIDE DEF m, before, none
<1>1. Last(s.attrs) = a
  BY LastAttr
<1>2. WithLast(s, Append(a.name, c), a.value) = Page(m, t, Append(attrs, Named(Append(a.name, c), a.value)), seen)
  BY LastAttr
<1>3. WithLast(s, a.name, none) = r
  BY LastAttr
<1>4. [r EXCEPT !.mode = before] = Page(before, t, Append(attrs, Named(a.name, none)), seen)
  BY PageFields
<1> HIDE DEF r, s
<1>5. InName(s, c) = ToName(s, c)
  BY DEF InName
<1>6. InName(s, "=") = [NoText(s) EXCEPT !.mode = before]
  BY DEF InName, Blank, before
<1>7. ToName(s, c) = WithLast(s, Append(a.name, c), a.value) /\ NoText(s) = r
  BY <1>1, <1>3, Zenon DEF ToName, NoText, none
<1>8. \A d : Token(s, d) = InName(s, d)
  <2>1. s = NamePage(t, Append(attrs, a), seen)
    BY Zenon DEF s, m, NamePage
  <2> QED BY <2>1, ModeOfPage
<1>9. Token(s, c) = Page(m, t, Append(attrs, Named(Append(a.name, c), a.value)), seen)
  BY <1>2, <1>5, <1>7, <1>8, Zenon
<1>10. Token(s, "=") = Page(before, t, Append(attrs, Named(a.name, none)), seen)
  BY <1>4, <1>6, <1>7, <1>8, Zenon
<1> QED BY <1>9, <1>10, Zenon DEF s, m, before, none, NamePage, BeforePage

\* A value begins and ends with a quote.
LEMMA QuoteToken ==
  ASSUME NEW t, NEW attrs, NEW seen
  PROVE  /\ Token(BeforePage(t, attrs, seen), "\"") = ValuePage(t, attrs, seen)
         /\ Token(ValuePage(t, attrs, seen), "\"") = AttrsPage(t, attrs, seen)
<1>1. /\ BeforeValue(Page("before", t, attrs, seen), "\"") = Page("value", t, attrs, seen)
      /\ InValue(Page("value", t, attrs, seen), "\"") = Page("attrs", t, attrs, seen)
  BY DEF BeforeValue, InValue, Page
<1>2. \A c : /\ Token(BeforePage(t, attrs, seen), c) = BeforeValue(BeforePage(t, attrs, seen), c)
             /\ Token(ValuePage(t, attrs, seen), c) = InValue(ValuePage(t, attrs, seen), c)
  BY ModeOfPage
<1> QED BY <1>1, <1>2, Zenon DEF AttrsPage, BeforePage, ValuePage

Quote == "\""

\* Between quotes everything is the value.
LEMMA ValueToken ==
  ASSUME NEW S, NEW attrs \in Seq(S), NEW a \in S, NEW t, NEW seen, NEW c
  PROVE  c # Quote =>
           Token(ValuePage(t, Append(attrs, a), seen), c)
             = ValuePage(t, Append(attrs, Named(a.name, <<Append(a.value[1], c)>>)), seen)
<1> DEFINE m == "value"
           s == Page(m, t, Append(attrs, a), seen)
           v == <<Append(a.value[1], c)>>
<1> HIDE DEF m, v
<1>1. Last(s.attrs) = a
  BY LastAttr
<1>2. WithLast(s, a.name, v) = Page(m, t, Append(attrs, Named(a.name, v)), seen)
  BY LastAttr
<1> HIDE DEF s
<1>3. c # Quote => InValue(s, c) = ToValue(s, c)
  BY DEF InValue, Quote
<1>4. ToValue(s, c) = WithLast(s, a.name, v)
  BY <1>1, Zenon DEF ToValue, v
<1>5. Token(s, c) = InValue(s, c)
  <2>1. s = ValuePage(t, Append(attrs, a), seen)
    BY Zenon DEF s, m, ValuePage
  <2>2. \A d : Token(ValuePage(t, Append(attrs, a), seen), d) = InValue(ValuePage(t, Append(attrs, a), seen), d)
    BY ModeOfPage
  <2> QED BY <2>1, <2>2, Zenon
<1>6. c # Quote => Token(s, c) = Page(m, t, Append(attrs, Named(a.name, v)), seen)
  BY <1>2, <1>3, <1>4, <1>5, Zenon
<1> QED BY <1>6, Zenon DEF s, m, v, ValuePage

\* In a script a < is seen when the next character has come.
LEMMA RawToken ==
  ASSUME NEW t, NEW seen, NEW c
  PROVE  /\ Token(RawPage(t, seen), "<") = RawTagPage(t, seen)
         /\ c # "<" => Token(RawPage(t, seen), c) = RawPage(t, See(seen, CharEvent(c)))
         /\ Token(RawTagPage(t, seen), "/") = ClosePage(t, seen)
         /\ c # "/" => Token(RawTagPage(t, seen), c) = Token(RawPage(t, See(seen, CharEvent("<"))), c)
<1> DEFINE none == <<>>
<1>1. /\ InRaw(Page("raw", t, none, seen), "<") = Page("rawtag", t, none, seen)
      /\ InRawTag(Page("rawtag", t, none, seen), "/") = Page("close", t, none, seen)
      /\ [Page("rawtag", t, none, seen) EXCEPT !.mode = "raw"] = Page("raw", t, none, seen)
  <2> HIDE DEF none
  <2> QED BY DEF InRaw, InRawTag, Page
<1>2. ASSUME c # "<"
      PROVE  InRaw(RawPage(t, seen), c) = RawPage(t, See(seen, CharEvent(c)))
  <2>1. InRaw(RawPage(t, seen), c) = Char(RawPage(t, seen), c)
    BY <1>2 DEF InRaw
  <2> QED BY <2>1, CharOfText, ZenonT(30)
<1>3. ASSUME c # "/"
      PROVE  InRawTag(RawTagPage(t, seen), c) = InRaw(RawPage(t, See(seen, CharEvent("<"))), c)
  <2>1. InRawTag(RawTagPage(t, seen), c)
          = InRaw(Char([RawTagPage(t, seen) EXCEPT !.mode = "raw"], "<"), c)
    BY <1>3 DEF InRawTag
  <2>2. [RawTagPage(t, seen) EXCEPT !.mode = "raw"] = RawPage(t, seen)
    BY <1>1, Zenon DEF RawTagPage, RawPage
  <2>3. Char(RawPage(t, seen), "<") = RawPage(t, See(seen, CharEvent("<")))
    BY CharOfText, Zenon
  <2> QED BY <2>1, <2>2, <2>3, Zenon
<1>4. \A u, d : /\ Token(RawPage(t, u), d) = InRaw(RawPage(t, u), d)
                /\ Token(RawTagPage(t, u), d) = InRawTag(RawTagPage(t, u), d)
  BY ModeOfPage
<1>5. Token(RawPage(t, seen), "<") = RawTagPage(t, seen)
  BY <1>1, <1>4, Zenon DEF RawPage, RawTagPage, none
<1>6. Token(RawTagPage(t, seen), "/") = ClosePage(t, seen)
  BY <1>1, <1>4, Zenon DEF RawTagPage, ClosePage, none
<1> QED BY <1>2, <1>3, <1>4, <1>5, <1>6, Zenon

-----------------------------------------------------------------------------
(* What is seen.                                                           *)

Word == STRING

\* The words of the program are words.
LEMMA OwnAreWords == OwnWords \subseteq Word
BY WordsAssumption DEF Word

BrowserAttr == [name : Seq(Word), value : Seq(Seq(Word))]
Event ==
  {<<"blank">>} \cup ({"text", "open", "close"} \X Word)
    \cup ({"open"} \X Word \X Seq(BrowserAttr))

BlankEvent == <<"blank">>

\* What is left of an element when blanks in a row are one, and x is before it.
Piece(first, x, y) == IF ~first /\ y = BlankEvent /\ x = BlankEvent THEN <<>> ELSE <<y>>

\* An element more is a piece more.
LEMMA CollapsedGrows ==
  ASSUME NEW S, NEW e \in Seq(S), NEW x \in S
  PROVE  /\ Collapsed(e) \in Seq(S)
         /\ Collapsed(Append(e, x)) = Collapsed(e) \o Piece(e = <<>>, e[Len(e)], x)
<1> DEFINE n == Len(e)
           d == Append(e, x)
           F(s) == [k \in DOMAIN s |-> IF k # 1 /\ s[k] = <<"blank">> /\ s[k - 1] = <<"blank">>
                                       THEN <<>> ELSE <<s[k]>>]
<1>1. n \in Nat /\ DOMAIN e = 1 .. n /\ DOMAIN d = 1 .. n + 1
  OBVIOUS
<1>2. /\ \A k \in 1 .. n : d[k] = e[k] /\ e[k] \in S
      /\ d[n + 1] = x
  OBVIOUS
<1>3. (e = <<>>) <=> (n = 0)
  OBVIOUS
<1> HIDE DEF d
<1>4. F(e) \in [1 .. n -> Seq(S)]
  BY <1>1, <1>2
<1>5. F(d) \in [1 .. n + 1 -> Seq(S)]
  BY <1>1, <1>2
<1>6. [k \in 1 .. n |-> F(d)[k]] = F(e)
  BY <1>1, <1>2
<1>7. F(d)[n + 1] = Piece(e = <<>>, e[n], x)
  <2>1. n + 1 \in 1 .. n + 1 /\ (n + 1) - 1 = n
    BY <1>1
  <2>2. F(d)[n + 1] = IF n + 1 # 1 /\ d[n + 1] = <<"blank">> /\ d[n] = <<"blank">>
                      THEN <<>> ELSE <<d[n + 1]>>
    BY <1>1, <2>1
  <2>3. n # 0 => d[n] = e[n]
    BY <1>1, <1>2
  <2> QED BY <1>1, <1>2, <1>3, <2>2, <2>3 DEF Piece, BlankEvent
<1>8. Collapsed(e) = FlattenSeq(F(e)) /\ Collapsed(d) = FlattenSeq(F(d))
  BY DEF Collapsed
<1> HIDE DEF F
<1>9. F(e) \in Seq(Seq(S))
  BY <1>1, <1>4, FunctionIsSeq
<1>10. FlattenSeq(F(e)) \in Seq(S)
  BY <1>9, FlattenType
<1>11. FlattenSeq(F(d)) = FlattenSeq([k \in 1 .. n |-> F(d)[k]]) \o F(d)[n + 1]
  BY <1>1, <1>5, FlattenGrows
<1> QED BY <1>6, <1>7, <1>8, <1>10, <1>11, Zenon DEF d

\* Nothing is nothing.
LEMMA CollapsedNothing == Collapsed(<<>>) = <<>>
<1> DEFINE F == [k \in DOMAIN <<>> |-> IF k # 1 /\ <<>>[k] = <<"blank">> /\ <<>>[k - 1] = <<"blank">>
                                       THEN <<>> ELSE <<<<>>[k]>>]
<1>1. F = <<>>
  OBVIOUS
<1>2. Collapsed(<<>>) = FlattenSeq(F)
  BY DEF Collapsed
<1> QED BY <1>1, <1>2, FlattenEmpty

\* The last element stays the last.
LEMMA CollapsedEnd ==
  ASSUME NEW S
  PROVE  \A e \in Seq(S) : e # <<>> =>
           Collapsed(e) # <<>> /\ Last(Collapsed(e)) = e[Len(e)]
<1> DEFINE C(e) == Collapsed(e)
           T == {n \in Nat : \A e \in Seq(S) : Len(e) = n /\ e # <<>> =>
                               C(e) # <<>> /\ Last(C(e)) = e[Len(e)]}
<1>1. 0 \in T
  <2>1. \A e \in Seq(S) : Len(e) = 0 => e = <<>>
    OBVIOUS
  <2> QED BY <2>1
<1>2. ASSUME NEW n \in Nat, n \in T
      PROVE  n + 1 \in T
  <2> SUFFICES ASSUME NEW e \in Seq(S), Len(e) = n + 1
               PROVE  C(e) # <<>> /\ Last(C(e)) = e[Len(e)]
    OBVIOUS
  <2>1. PICK d \in Seq(S), x \in S : e = Append(d, x)
    <3>1. e # <<>>
      OBVIOUS
    <3> QED BY <3>1, SequenceEmptyOrAppend
  <2>2. e[Len(e)] = x
    BY <2>1
  <2>3. C(e) = C(d) \o Piece(d = <<>>, d[Len(d)], x) /\ C(d) \in Seq(S)
    BY <2>1, CollapsedGrows
  <2>4. CASE d # <<>> /\ x = BlankEvent /\ d[Len(d)] = BlankEvent
    <3>1. Piece(d = <<>>, d[Len(d)], x) = <<>>
      BY <2>4 DEF Piece
    <3>2. C(e) = C(d)
      <4> HIDE DEF C
      <4>1. C(d) \o <<>> = C(d)
        BY <2>3, ConcatEmptySeq
      <4> QED BY <2>3, <3>1, <4>1, Zenon
    <3>3. C(d) # <<>> /\ Last(C(d)) = d[Len(d)]
      <4>1. Len(d) = n
        BY <2>1
      <4> QED BY <1>2, <2>4, <4>1
    <3> HIDE DEF C
    <3>4. Last(C(e)) = e[Len(e)]
      BY <2>2, <2>4, <3>2, <3>3, Zenon
    <3>5. C(e) # <<>>
      BY <3>2, <3>3, Zenon
    <3> QED BY <3>4, <3>5, Zenon
  <2>5. CASE ~ (d # <<>> /\ x = BlankEvent /\ d[Len(d)] = BlankEvent)
    <3>1. Piece(d = <<>>, d[Len(d)], x) = <<x>>
      BY <2>5 DEF Piece
    <3> HIDE DEF C
    <3>2. C(e) = C(d) \o <<x>>
      BY <2>3, <3>1, Zenon
    <3>3. C(e) = Append(C(d), x)
      BY <2>3, <3>2, AppendIsConcat
    <3>4. Append(C(d), x) # <<>> /\ Last(Append(C(d), x)) = x
      BY <2>3, SMTT(30) DEF Last
    <3>5. e[Len(e)] = x
      BY <2>1
    <3> QED BY <3>3, <3>4, <3>5, Zenon
  <2> QED BY <2>4, <2>5
<1> HIDE DEF T
<1>3. \A n \in Nat : n \in T
  BY <1>1, <1>2, InductionOverSet
<1> QED BY <1>3 DEF T

\* To see one more thing.
LEMMA CollapsedMore ==
  ASSUME NEW S, NEW e \in Seq(S), NEW x \in S
  PROVE  Collapsed(Append(e, x)) = See(Collapsed(e), x)
<1> DEFINE c == Collapsed(e)
           n == Len(e)
<1>1. c \in Seq(S) /\ Collapsed(Append(e, x)) = c \o Piece(e = <<>>, e[n], x)
  BY CollapsedGrows
<1>2. e # <<>> => c # <<>> /\ Last(c) = e[n]
  BY CollapsedEnd
<1>3. e = <<>> => c = <<>>
  BY CollapsedNothing
<1> HIDE DEF c
<1>4. CASE e # <<>> /\ x = BlankEvent /\ e[n] = BlankEvent
  <2>1. See(c, x) = c
    BY <1>2, <1>4 DEF See, BlankEvent
  <2>2. Piece(e = <<>>, e[n], x) = <<>>
    BY <1>4 DEF Piece
  <2>3. c \o <<>> = c
    BY <1>1, ConcatEmptySeq
  <2> QED BY <1>1, <2>1, <2>2, <2>3, Zenon DEF c
<1>5. CASE ~ (e # <<>> /\ x = BlankEvent /\ e[n] = BlankEvent)
  <2>1. See(c, x) = Append(c, x)
    BY <1>2, <1>3, <1>5 DEF See, BlankEvent
  <2>2. Piece(e = <<>>, e[n], x) = <<x>>
    BY <1>5 DEF Piece
  <2>3. c \o <<x>> = Append(c, x)
    BY <1>1, AppendIsConcat
  <2> QED BY <1>1, <2>1, <2>2, <2>3, Zenon DEF c
<1> QED BY <1>4, <1>5

\* One event without its attributes.
NoAttr(x) == IF x[1] = "open" THEN <<"open", x[2]>> ELSE x

\* An event stays one, and a blank is none of those that have attributes.
LEMMA NoAttrType ==
  ASSUME NEW x \in Event
  PROVE  NoAttr(x) \in Event /\ (NoAttr(x) = BlankEvent <=> x = BlankEvent)
<1>1. CASE x = BlankEvent
  <2>1. x[1] # "open"
    BY <1>1 DEF BlankEvent
  <2> QED BY <1>1, <2>1 DEF NoAttr
<1>2. CASE x \in {"text", "open", "close"} \X Word
  <2>1. /\ x = <<x[1], x[2]>> /\ x[2] \in Word
        /\ <<x[1], x[2]>> # BlankEvent /\ <<"open", x[2]>> # BlankEvent
    BY <1>2 DEF BlankEvent
  <2>2. <<"open", x[2]>> \in {"text", "open", "close"} \X Word
    BY <2>1
  <2> QED BY <1>2, <2>1, <2>2 DEF NoAttr, Event
<1>3. CASE x \in {"open"} \X Word \X Seq(BrowserAttr)
  <2> DEFINE Attrs == Seq(BrowserAttr)
  <2> HIDE DEF Attrs
  <2>0. x \in {"open"} \X Word \X Attrs
    BY <1>3 DEF Attrs
  <2>1. x = <<x[1], x[2], x[3]>> /\ x[1] = "open" /\ x[2] \in Word
    BY <2>0
  <2>2. <<x[1], x[2], x[3]>> # BlankEvent /\ <<"open", x[2]>> # BlankEvent
    BY DEF BlankEvent
  <2>3. <<"open", x[2]>> \in {"text", "open", "close"} \X Word
    BY <2>1
  <2>4. NoAttr(x) = <<"open", x[2]>>
    BY <2>1 DEF NoAttr
  <2>5. <<"open", x[2]>> \in Event
    BY <2>3 DEF Event
  <2> QED BY <2>1, <2>2, <2>4, <2>5, Zenon
<1> QED BY <1>1, <1>2, <1>3 DEF Event, BlankEvent

\* NoAttrs does that to each.
LEMMA NoAttrsIs ==
  ASSUME NEW e \in Seq(Event)
  PROVE  /\ NoAttrs(e) \in Seq(Event)
         /\ Len(NoAttrs(e)) = Len(e)
         /\ \A k \in 1 .. Len(e) : NoAttrs(e)[k] = NoAttr(e[k])
<1> DEFINE n == Len(e)
           f == [k \in 1 .. n |-> NoAttr(e[k])]
<1>1. n \in Nat /\ DOMAIN e = 1 .. n /\ \A k \in 1 .. n : e[k] \in Event
  OBVIOUS
<1>2. NoAttrs(e) = f
  BY <1>1, Zenon DEF NoAttrs, NoAttr
<1> HIDE DEF n
<1>3. f \in [1 .. n -> Event]
  BY <1>1, NoAttrType
<1>4. f \in Seq(Event) /\ Len(f) = n
  BY <1>1, <1>3, FunctionIsSeq
<1> QED BY <1>2, <1>4 DEF n

\* The events of two texts, and one more event.
LEMMA NoAttrsConcat ==
  ASSUME NEW d \in Seq(Event), NEW e \in Seq(Event)
  PROVE  NoAttrs(d \o e) = NoAttrs(d) \o NoAttrs(e)
<1> DEFINE N(s) == NoAttrs(s)
           m == Len(d)
           n == Len(e)
           s == d \o e
           t == N(d) \o N(e)
<1>1. m \in Nat /\ n \in Nat
  OBVIOUS
<1>2. s \in Seq(Event) /\ Len(s) = m + n
  OBVIOUS
<1>3. /\ \A k \in 1 .. m : s[k] = d[k]
      /\ \A k \in m + 1 .. m + n : s[k] = e[k - m]
  BY <1>1, ConcatAt
<1>4. /\ N(d) \in Seq(Event) /\ Len(N(d)) = m /\ \A k \in 1 .. m : N(d)[k] = NoAttr(d[k])
      /\ N(e) \in Seq(Event) /\ Len(N(e)) = n /\ \A k \in 1 .. n : N(e)[k] = NoAttr(e[k])
  BY NoAttrsIs
<1> HIDE DEF s
<1>5. N(s) \in Seq(Event) /\ Len(N(s)) = m + n /\ \A k \in 1 .. m + n : N(s)[k] = NoAttr(s[k])
  BY <1>2, NoAttrsIs
<1> HIDE DEF N, m, n
<1>6. t \in Seq(Event) /\ Len(t) = m + n
  BY <1>1, <1>4, ConcatProperties
<1>7. /\ \A k \in 1 .. m : t[k] = N(d)[k]
      /\ \A k \in m + 1 .. m + n : t[k] = N(e)[k - m]
  BY <1>1, <1>4, ConcatAt, SMTT(30)
<1> HIDE DEF t
<1>8. ASSUME NEW k \in 1 .. m + n
      PROVE  N(s)[k] = t[k]
  <2>1. CASE k \in 1 .. m
    BY <1>3, <1>4, <1>5, <1>7, <2>1, SMTT(30)
  <2>2. CASE k \in m + 1 .. m + n
    <3>1. k - m \in 1 .. n
      BY <1>1, <2>2
    <3>2. N(s)[k] = NoAttr(e[k - m]) /\ t[k] = NoAttr(e[k - m])
      BY <1>3, <1>4, <1>5, <1>7, <2>2, <3>1, SMTT(30)
    <3> QED BY <3>2, Zenon
  <2> QED BY <1>1, <2>1, <2>2
<1>9. N(s) = t
  BY <1>5, <1>6, <1>8, SeqEqual
<1> QED BY <1>9, Zenon DEF N, s, t

\* One event more without its attributes.
LEMMA NoAttrsMore ==
  ASSUME NEW e \in Seq(Event), NEW x \in Event
  PROVE  NoAttrs(Append(e, x)) = Append(NoAttrs(e), NoAttr(x))
<1> DEFINE s == <<x>>
           a == NoAttrs(s)
           y == NoAttr(x)
<1>1. s \in Seq(Event) /\ Len(s) = 1 /\ s[1] = x
  OBVIOUS
<1> HIDE DEF s
<1>2. a \in Seq(Event) /\ Len(a) = 1 /\ a[1] = y
  <2>1. a \in Seq(Event) /\ Len(a) = Len(s) /\ \A k \in 1 .. Len(s) : a[k] = NoAttr(s[k])
    BY <1>1, NoAttrsIs
  <2> QED BY <1>1, <2>1
<1>3. y \in Event
  BY NoAttrType
<1> HIDE DEF a, y
<1>4. a = <<y>>
  BY <1>2, <1>3
<1>5. Append(e, x) = e \o s
  BY AppendIsConcat DEF s
<1>6. NoAttrs(e \o s) = NoAttrs(e) \o a
  BY <1>1, NoAttrsConcat DEF a
<1>7. Append(NoAttrs(e), y) = NoAttrs(e) \o <<y>>
  BY <1>3, NoAttrsIs, AppendIsConcat
<1> QED BY <1>4, <1>5, <1>6, <1>7, Zenon DEF y

\* Blanks in a row are one, with attributes or without.
LEMMA NoAttrsCollapsed == \A e \in Seq(Event) : NoAttrs(Collapsed(e)) = Collapsed(NoAttrs(e))
<1> DEFINE C(e) == Collapsed(e)
           N(e) == NoAttrs(e)
           T == {n \in Nat : \A e \in Seq(Event) : Len(e) = n => N(C(e)) = C(N(e))}
<1> HIDE DEF C, N
<1>1. 0 \in T
  <2>1. N(<<>>) = <<>>
    BY DEF N, NoAttrs
  <2>2. C(<<>>) = <<>>
    BY CollapsedNothing DEF C
  <2>3. \A e \in Seq(Event) : Len(e) = 0 => e = <<>>
    BY EmptySeq
  <2>4. \A e \in Seq(Event) : Len(e) = 0 => N(C(e)) = C(N(e))
    BY <2>1, <2>2, <2>3, Zenon
  <2> QED BY <2>4
<1>2. ASSUME NEW n \in Nat, n \in T
      PROVE  n + 1 \in T
  <2> SUFFICES ASSUME NEW e \in Seq(Event), Len(e) = n + 1
               PROVE  N(C(e)) = C(N(e))
    OBVIOUS
  <2>1. PICK d \in Seq(Event), x \in Event : e = Append(d, x)
    <3>1. e # <<>>
      OBVIOUS
    <3> QED BY <3>1, SequenceEmptyOrAppend
  <2>2. N(C(d)) = C(N(d))
    <3>1. Len(d) = n
      BY <2>1
    <3> QED BY <1>2, <3>1
  <2> DEFINE c == C(d)
             y == NoAttr(x)
  <2>3. C(e) = See(c, x) /\ c \in Seq(Event)
    BY <2>1, CollapsedMore, CollapsedGrows DEF C
  <2>4. N(e) = Append(N(d), y) /\ N(d) \in Seq(Event)
    BY <2>1, NoAttrsMore, NoAttrsIs DEF N
  <2>5. y \in Event /\ (y = BlankEvent <=> x = BlankEvent)
    BY NoAttrType
  <2>6. N(c) \in Seq(Event) /\ Len(N(c)) = Len(c)
        /\ \A k \in 1 .. Len(c) : N(c)[k] = NoAttr(c[k])
    BY <2>3, NoAttrsIs DEF N
  <2>7. N(Append(c, x)) = Append(N(c), y)
    BY <2>3, NoAttrsMore DEF N
  <2> HIDE DEF y
  <2>8. C(N(e)) = See(N(c), y)
    <3>1. C(Append(N(d), y)) = See(C(N(d)), y)
      BY <2>4, <2>5, CollapsedMore DEF C
    <3> QED BY <2>2, <2>4, <3>1, ZenonT(30) DEF c
  <2> HIDE DEF c
  <2>9. c # <<>> => /\ N(c) # <<>> /\ Last(c) \in Event
                    /\ Last(N(c)) = NoAttr(Last(c))
    <3>1. c # <<>> => Len(c) \in 1 .. Len(c) /\ c[Len(c)] \in Event
      BY <2>3
    <3> QED BY <2>6, <3>1 DEF Last
  <2>10. c = <<>> => N(c) = <<>>
    BY <2>6
  <2>11. c # <<>> => (Last(N(c)) = BlankEvent <=> Last(c) = BlankEvent)
    BY <2>9, NoAttrType
  <2>12. CASE x = BlankEvent /\ c # <<>> /\ Last(c) = BlankEvent
    <3>1. See(c, x) = c
      BY <2>12 DEF See, BlankEvent
    <3>2. N(c) # <<>> /\ Last(N(c)) = BlankEvent /\ y = BlankEvent
      BY <2>5, <2>9, <2>11, <2>12
    <3>3. See(N(c), y) = N(c)
      BY <3>2 DEF See, BlankEvent
    <3> QED BY <2>3, <2>8, <3>1, <3>3, Zenon
  <2>13. CASE ~ (x = BlankEvent /\ c # <<>> /\ Last(c) = BlankEvent)
    <3>1. See(c, x) = Append(c, x)
      BY <2>13 DEF See, BlankEvent
    <3>2. ~ (y = BlankEvent /\ N(c) # <<>> /\ Last(N(c)) = BlankEvent)
      BY <2>5, <2>10, <2>11, <2>13
    <3>3. See(N(c), y) = Append(N(c), y)
      BY <3>2 DEF See, BlankEvent
    <3> QED BY <2>3, <2>7, <2>8, <3>1, <3>3, ZenonT(30)
  <2> QED BY <2>12, <2>13
<1> HIDE DEF T
<1>3. \A n \in Nat : n \in T
  BY <1>1, <1>2, InductionOverSet
<1> QED BY <1>3 DEF T, C, N

\* What is before and after does not matter either.
LEMMA NoAttrsTrim ==
  ASSUME NEW e \in Seq(Event), NEW i \in 1 .. Len(e), e[i] # BlankEvent
  PROVE  NoAttrs(Trim(e)) = Trim(NoAttrs(e))
<1> DEFINE n == Len(e)
           N(s) == NoAttrs(s)
           d == N(e)
           Short(s) == IF Last(s) = <<"blank">> THEN Front(s) ELSE s
           f == Short(e)
           g == Short(d)
<1>1. n \in Nat /\ n >= 1 /\ e[n] \in Event /\ Last(e) = e[n]
  BY DEF Last
<1>2. /\ d \in Seq(Event) /\ Len(d) = n
      /\ \A k \in 1 .. n : d[k] = NoAttr(e[k]) /\ (d[k] = BlankEvent <=> e[k] = BlankEvent)
  <2>1. d \in Seq(Event) /\ Len(d) = n /\ \A k \in 1 .. n : d[k] = NoAttr(e[k])
    BY NoAttrsIs
  <2>2. \A k \in 1 .. n : e[k] \in Event
    OBVIOUS
  <2> HIDE DEF d, n
  <2> QED BY <2>1, <2>2, NoAttrType
<1> HIDE DEF N, d
<1>3. Last(d) = d[n]
  BY <1>2 DEF Last
<1>4. \E m \in 1 .. n : /\ f = SubSeq(e, 1, m) /\ g = SubSeq(d, 1, m)
  <2>1. CASE e[n] = BlankEvent
    <3>1. n # i
      BY <2>1
    <3>2. f = SubSeq(e, 1, n - 1) /\ g = SubSeq(d, 1, n - 1)
      BY <1>1, <1>2, <1>3, <2>1 DEF Front, BlankEvent
    <3>3. n - 1 \in 1 .. n
      BY <1>1, <3>1
    <3> QED BY <3>2, <3>3
  <2>2. CASE e[n] # BlankEvent
    <3>1. f = e /\ g = d
      BY <1>1, <1>2, <1>3, <2>2 DEF BlankEvent
    <3>2. e = SubSeq(e, 1, n) /\ d = SubSeq(d, 1, n)
      BY <1>2, SubSeqFull
    <3> QED BY <1>1, <3>1, <3>2
  <2> QED BY <2>1, <2>2
<1>5. PICK m \in 1 .. n : f = SubSeq(e, 1, m) /\ g = SubSeq(d, 1, m)
  BY <1>4
<1>6. /\ f \in Seq(Event) /\ Len(f) = m /\ \A k \in 1 .. m : f[k] = e[k]
      /\ g \in Seq(Event) /\ Len(g) = m /\ \A k \in 1 .. m : g[k] = d[k]
  BY <1>2, <1>5, SMTT(30)
<1>7. Trim(e) = (IF Head(f) = <<"blank">> THEN Tail(f) ELSE f)
      /\ Trim(d) = (IF Head(g) = <<"blank">> THEN Tail(g) ELSE g)
  BY DEF Trim
<1> HIDE DEF f, g, n
<1>8. /\ N(f) \in Seq(Event) /\ Len(N(f)) = m /\ \A k \in 1 .. m : N(f)[k] = NoAttr(f[k])
  BY <1>6, NoAttrsIs DEF N
<1>9. N(f) = g
  <2>1. \A k \in 1 .. m : N(f)[k] = g[k]
    BY <1>2, <1>6, <1>8, SMTT(30)
  <2> QED BY <1>6, <1>8, <2>1, SeqEqual
<1>10. Head(f) = BlankEvent <=> Head(g) = BlankEvent
  <2>1. Head(f) = e[1] /\ Head(g) = d[1] /\ 1 \in 1 .. n
    BY <1>1, <1>6
  <2> QED BY <1>2, <2>1
<1>11. CASE Head(f) = BlankEvent
  <2> DEFINE p == Tail(f)
             q == Tail(g)
  <2>1. /\ p \in Seq(Event) /\ Len(p) = m - 1 /\ \A k \in 1 .. m - 1 : p[k] = f[k + 1]
        /\ q \in Seq(Event) /\ Len(q) = m - 1 /\ \A k \in 1 .. m - 1 : q[k] = g[k + 1]
    BY <1>6
  <2> HIDE DEF p, q
  <2>2. N(p) \in Seq(Event) /\ Len(N(p)) = m - 1 /\ \A k \in 1 .. m - 1 : N(p)[k] = NoAttr(p[k])
    <3>1. N(p) \in Seq(Event) /\ Len(N(p)) = Len(p) /\ \A k \in 1 .. Len(p) : N(p)[k] = NoAttr(p[k])
      BY <2>1, NoAttrsIs DEF N
    <3> QED BY <2>1, <3>1
  <2>3. \A k \in 1 .. m - 1 : k + 1 \in 1 .. m
    OBVIOUS
  <2>4. \A k \in 1 .. m - 1 : N(p)[k] = q[k]
    BY <1>8, <1>9, <2>1, <2>2, <2>3
  <2>5. N(p) = q
    BY <2>1, <2>2, <2>4, SeqEqual
  <2> QED BY <1>7, <1>10, <1>11, <2>5 DEF p, q, N, d, BlankEvent
<1>12. CASE Head(f) # BlankEvent
  <2>1. Trim(e) = f /\ Trim(d) = g
    BY <1>7, <1>10, <1>12 DEF BlankEvent
  <2> QED BY <1>9, <2>1, Zenon DEF N, d
<1> QED BY <1>11, <1>12

\* Alike, with their attributes or without.
Alike(exact, d, e) == IF exact THEN d = e ELSE NoAttrs(d) = NoAttrs(e)

\* What is alike in both parts is alike.
LEMMA AlikeConcat ==
  ASSUME NEW exact, NEW a \in Seq(Event), NEW b \in Seq(Event), NEW c \in Seq(Event),
         NEW d \in Seq(Event), Alike(exact, a, c), Alike(exact, b, d)
  PROVE  Alike(exact, a \o b, c \o d)
<1>1. NoAttrs(a \o b) = NoAttrs(a) \o NoAttrs(b) /\ NoAttrs(c \o d) = NoAttrs(c) \o NoAttrs(d)
  BY NoAttrsConcat
<1>2. CASE exact
  <2>1. a = c /\ b = d
    BY <1>2 DEF Alike
  <2> QED BY <1>2, <2>1 DEF Alike
<1>3. CASE ~ exact
  <2>1. NoAttrs(a) = NoAttrs(c) /\ NoAttrs(b) = NoAttrs(d)
    BY <1>3 DEF Alike
  <2>2. NoAttrs(a \o b) = NoAttrs(c \o d)
    BY <1>1, <2>1, Zenon
  <2> QED BY <1>3, <2>2 DEF Alike
<1> QED BY <1>2, <1>3

-----------------------------------------------------------------------------
(* The operators of the community modules in the instances.                *)

\* They are one operator.
LEMMA SameFlatten ==
  \A s : W!FlattenSeq(s) = FlattenSeq(s) /\ R!FlattenSeq(s) = FlattenSeq(s)
BY Zenon DEF FlattenSeq, W!FlattenSeq, R!FlattenSeq

-----------------------------------------------------------------------------
(* What a text shows.                                                      *)

\* Outside of tags: between them, or in a script.
TextPage(mode, t, seen) == IF mode = "raw" THEN RawPage(t, seen) ELSE DataPage(t, seen)

\* Whatever is seen already, the events are seen next, exactly or but for the
\* attributes, and the browser is in that mode then.
Shows(exact, from, text, events, to) ==
  \A t : \A e \in Seq(Event) : \E u : \E d \in Seq(Event) :
    /\ ReadsTo(TextPage(from, t, Collapsed(e)), text, TextPage(to, u, Collapsed(e \o d)))
    /\ Alike(exact, d, events)

\* Nothing shows nothing.
LEMMA ShowsNothing == ASSUME NEW exact, NEW m PROVE Shows(exact, m, <<>>, <<>>, m)
<1> SUFFICES ASSUME NEW t, NEW e \in Seq(Event)
             PROVE  \E u : \E d \in Seq(Event) :
                      /\ ReadsTo(TextPage(m, t, Collapsed(e)), <<>>, TextPage(m, u, Collapsed(e \o d)))
                      /\ Alike(exact, d, <<>>)
  BY DEF Shows
<1>1. <<>> \in Seq(Event) /\ e \o <<>> = e
  BY EmptySeq, ConcatEmptySeq
<1>2. ReadsTo(TextPage(m, t, Collapsed(e)), <<>>, TextPage(m, t, Collapsed(e)))
  BY ReadsNothing
<1>3. Alike(exact, <<>>, <<>>)
  BY DEF Alike
<1> QED BY <1>1, <1>2, <1>3, Zenon

\* One text after another.
LEMMA ShowsBoth ==
  ASSUME NEW exact, NEW p, NEW q, NEW r, NEW s \in Seq(Word), NEW t \in Seq(Word),
         NEW d \in Seq(Event), NEW e \in Seq(Event),
         Shows(exact, p, s, d, q), Shows(exact, q, t, e, r)
  PROVE  Shows(exact, p, s \o t, d \o e, r)
<1> SUFFICES ASSUME NEW tag, NEW c \in Seq(Event)
             PROVE  \E u : \E f \in Seq(Event) :
                      /\ ReadsTo(TextPage(p, tag, Collapsed(c)), s \o t, TextPage(r, u, Collapsed(c \o f)))
                      /\ Alike(exact, f, d \o e)
  BY DEF Shows
<1>1. \E u : \E f \in Seq(Event) :
        /\ ReadsTo(TextPage(p, tag, Collapsed(c)), s, TextPage(q, u, Collapsed(c \o f)))
        /\ Alike(exact, f, d)
  BY Zenon DEF Shows
<1>10. PICK u1 : \E f \in Seq(Event) :
        /\ ReadsTo(TextPage(p, tag, Collapsed(c)), s, TextPage(q, u1, Collapsed(c \o f)))
        /\ Alike(exact, f, d)
  BY <1>1, Zenon
<1>11. PICK d1 \in Seq(Event) :
        /\ ReadsTo(TextPage(p, tag, Collapsed(c)), s, TextPage(q, u1, Collapsed(c \o d1)))
        /\ Alike(exact, d1, d)
  BY <1>10, Zenon
<1> DEFINE c1 == c \o d1
<1>2. c1 \in Seq(Event)
  OBVIOUS
<1> HIDE DEF c1
<1>12. \E u : \E f \in Seq(Event) :
        /\ ReadsTo(TextPage(q, u1, Collapsed(c1)), t, TextPage(r, u, Collapsed(c1 \o f)))
        /\ Alike(exact, f, e)
  BY <1>2, Zenon DEF Shows
<1>13. PICK u2 : \E f \in Seq(Event) :
        /\ ReadsTo(TextPage(q, u1, Collapsed(c1)), t, TextPage(r, u2, Collapsed(c1 \o f)))
        /\ Alike(exact, f, e)
  BY <1>12, Zenon
<1>3. PICK e1 \in Seq(Event) :
        /\ ReadsTo(TextPage(q, u1, Collapsed(c1)), t, TextPage(r, u2, Collapsed(c1 \o e1)))
        /\ Alike(exact, e1, e)
  BY <1>13, Zenon
<1> DEFINE f == d1 \o e1
<1>4. f \in Seq(Event) /\ c1 \o e1 = c \o f
  <2>1. ConcatAssociates(Event)
    BY Associative
  <2>2. (c \o d1) \o e1 = c \o (d1 \o e1)
    BY <1>3, <1>11, <2>1, ZenonT(30) DEF ConcatAssociates
  <2> QED BY <2>2 DEF c1
<1>5. Alike(exact, f, d \o e)
  BY <1>11, <1>3, AlikeConcat
<1> HIDE DEF f
<1>6. ReadsTo(TextPage(p, tag, Collapsed(c)), s, TextPage(q, u1, Collapsed(c1)))
  BY <1>11 DEF c1
<1>7. ReadsTo(TextPage(q, u1, Collapsed(c1)), t, TextPage(r, u2, Collapsed(c \o f)))
  BY <1>3, <1>4
<1>8. ReadsTo(TextPage(p, tag, Collapsed(c)), s \o t, TextPage(r, u2, Collapsed(c \o f)))
  BY <1>6, <1>7, ReadsBoth
<1> QED BY <1>4, <1>5, <1>8

\* One thing is seen, exactly.
LEMMA ShowsEvent ==
  ASSUME NEW exact, NEW from, NEW to, NEW text, NEW x \in Event,
         \A t, seen : \E u : ReadsTo(TextPage(from, t, seen), text, TextPage(to, u, See(seen, x)))
  PROVE  Shows(exact, from, text, <<x>>, to)
<1> SUFFICES ASSUME NEW t, NEW e \in Seq(Event)
             PROVE  \E u : \E d \in Seq(Event) :
                      /\ ReadsTo(TextPage(from, t, Collapsed(e)), text, TextPage(to, u, Collapsed(e \o d)))
                      /\ Alike(exact, d, <<x>>)
  BY DEF Shows
<1> DEFINE d == <<x>>
<1>1. d \in Seq(Event)
  OBVIOUS
<1>2. e \o <<x>> = Append(e, x)
  BY AppendIsConcat
<1>3. Collapsed(e \o d) = See(Collapsed(e), x)
  BY <1>2, CollapsedMore
<1>4. Alike(exact, d, d)
  BY DEF Alike
<1> HIDE DEF d
<1>5. PICK u : ReadsTo(TextPage(from, t, Collapsed(e)), text, TextPage(to, u, See(Collapsed(e), x)))
  OBVIOUS
<1> QED BY <1>1, <1>3, <1>4, <1>5, Zenon DEF d

\* A character is an event.
LEMMA CharEventType == ASSUME NEW c \in Word PROVE CharEvent(c) \in Event
<1>1. CASE c \in Blank
  BY <1>1 DEF CharEvent, Event
<1>2. CASE c \notin Blank
  <2>1. CharEvent(c) = <<"text", c>>
    BY <1>2 DEF CharEvent
  <2>2. <<"text", c>> \in {"text", "open", "close"} \X Word
    OBVIOUS
  <2> QED BY <2>1, <2>2 DEF Event
<1> QED BY <1>1, <1>2

\* A character that means nothing to a browser.
LEMMA ShowsChar ==
  ASSUME NEW exact, NEW m \in {"data", "raw"}, NEW c \in Word, c # "<", m = "data" => c # "&"
  PROVE  Shows(exact, m, <<c>>, <<CharEvent(c)>>, m)
<1> DEFINE x == CharEvent(c)
<1>1. ASSUME NEW t, NEW seen
      PROVE  ReadsTo(TextPage(m, t, seen), <<c>>, TextPage(m, t, See(seen, x)))
  <2>1. Token(TextPage(m, t, seen), c) = TextPage(m, t, See(seen, x))
    <3>1. CASE m = "data"
      <4>1. TextPage(m, t, seen) = DataPage(t, seen) /\ TextPage(m, t, See(seen, x)) = DataPage(t, See(seen, x))
        BY <3>1 DEF TextPage
      <4>2. Token(DataPage(t, seen), c) = DataPage(t, See(seen, CharEvent(c)))
        BY <3>1, TextToken
      <4> QED BY <4>1, <4>2, Zenon
    <3>2. CASE m = "raw"
      <4>1. TextPage(m, t, seen) = RawPage(t, seen) /\ TextPage(m, t, See(seen, x)) = RawPage(t, See(seen, x))
        BY <3>2 DEF TextPage
      <4>2. Token(RawPage(t, seen), c) = RawPage(t, See(seen, CharEvent(c)))
        BY RawToken
      <4> QED BY <4>1, <4>2, Zenon
    <3> QED BY <3>1, <3>2
  <2> HIDE DEF x
  <2> QED BY <2>1, ReadsOne
<1>2. x \in Event
  BY CharEventType
<1> HIDE DEF x
<1>3. \A t, seen : \E u : ReadsTo(TextPage(m, t, seen), <<c>>, TextPage(m, u, See(seen, x)))
  BY <1>1
<1>4. Shows(exact, m, <<c>>, <<x>>, m)
  BY <1>2, <1>3, ShowsEvent
<1> QED BY <1>4 DEF x

\* Entities and what they stand for are words.
LEMMA EntityWords ==
  ASSUME NEW c \in EntityNames
  PROVE  c \in Word /\ Decoded(c) \in Word
<1>1. EntityNames \subseteq OwnWords
  BY DEF OwnWords, EntityNames
<1>2. Decoded(c) \in OwnWords
  BY ZenonT(30) DEF Decoded, OwnWords, EntityNames
<1> QED BY <1>1, <1>2, OwnAreWords

\* An entity shows its character.
LEMMA ShowsEntity ==
  ASSUME NEW exact, NEW c \in EntityNames
  PROVE  Shows(exact, "data", <<"&", c, ";">>, <<CharEvent(Decoded(c))>>, "data")
<1> DEFINE x == CharEvent(Decoded(c))
           a == "&"
           b == ";"
           text == <<"&", c, ";">>
<1>1. ASSUME NEW t, NEW seen
      PROVE  ReadsTo(TextPage("data", t, seen), text, TextPage("data", c, See(seen, x)))
  <2>1. Token(DataPage(t, seen), a) = EntityPage("", seen)
    BY DataToken
  <2>2. Token(EntityPage("", seen), c) = EntityPage(c, seen)
        /\ Token(EntityPage(c, seen), b) = DataPage(c, See(seen, x))
    BY EntityToken
  <2>3. a \in Word /\ b \in Word /\ c \in Word
    <3>1. a \in OwnWords /\ b \in OwnWords
      BY DEF OwnWords
    <3> QED BY <3>1, OwnAreWords, EntityWords
  <2> HIDE DEF a, b, x
  <2>4. ReadsTo(DataPage(t, seen), <<a, c, b>>, Token(Token(Token(DataPage(t, seen), a), c), b))
    BY <2>3, ReadsThree
  <2>5. ReadsTo(DataPage(t, seen), <<a, c, b>>, DataPage(c, See(seen, x)))
    BY <2>1, <2>2, <2>4, Zenon
  <2>6. TextPage("data", t, seen) = DataPage(t, seen)
        /\ TextPage("data", c, See(seen, x)) = DataPage(c, See(seen, x))
    BY DEF TextPage
  <2> QED BY <2>5, <2>6, Zenon DEF text, a, b
<1>2. x \in Event
  <2>1. Decoded(c) \in Word
    BY EntityWords
  <2> QED BY <2>1, CharEventType
<1> HIDE DEF x, text
<1> DEFINE m == "data"
<1> HIDE DEF m
<1>3. \A t, seen : \E u : ReadsTo(TextPage(m, t, seen), text, TextPage(m, u, See(seen, x)))
  BY <1>1 DEF m
<1>4. Shows(exact, m, text, <<x>>, m)
  BY <1>2, <1>3, ShowsEvent
<1> QED BY <1>4 DEF x, text, m

\* Texts that each show something, one after another.
LEMMA ShowsAll ==
  ASSUME NEW exact, NEW m, NEW n \in Nat, NEW f \in [1 .. n -> Seq(Word)],
         NEW g \in [1 .. n -> Seq(Event)], \A k \in 1 .. n : Shows(exact, m, f[k], g[k], m)
  PROVE  Shows(exact, m, FlattenSeq(f), FlattenSeq(g), m)
<1> DEFINE F(i) == [k \in 1 .. i |-> f[k]]
           G(i) == [k \in 1 .. i |-> g[k]]
           T == {i \in Nat : Shows(exact, m, FlattenSeq(F(i)), FlattenSeq(G(i)), m)}
<1>1. 0 \in T
  <2>1. F(0) = <<>> /\ G(0) = <<>>
    OBVIOUS
  <2> HIDE DEF F, G
  <2>2. Shows(exact, m, FlattenSeq(F(0)), FlattenSeq(G(0)), m)
    BY <2>1, FlattenEmpty, ShowsNothing, Zenon
  <2> QED BY <2>2
<1>2. ASSUME NEW i \in 0 .. n - 1, i \in T
      PROVE  i + 1 \in T
  <2>1. i \in Nat /\ i + 1 \in 1 .. n
    OBVIOUS
  <2>2. F(i) \in [1 .. i -> Seq(Word)] /\ F(i + 1) \in [1 .. i + 1 -> Seq(Word)]
        /\ G(i) \in [1 .. i -> Seq(Event)] /\ G(i + 1) \in [1 .. i + 1 -> Seq(Event)]
    BY <2>1
  <2>3. [k \in 1 .. i |-> F(i + 1)[k]] = F(i) /\ F(i + 1)[i + 1] = f[i + 1]
    BY <2>1
  <2>4. [k \in 1 .. i |-> G(i + 1)[k]] = G(i) /\ G(i + 1)[i + 1] = g[i + 1]
    BY <2>1
  <2> HIDE DEF F, G
  <2>5. FlattenSeq(F(i + 1)) = FlattenSeq(F(i)) \o f[i + 1]
    <3>1. FlattenSeq(F(i + 1)) = FlattenSeq([k \in 1 .. i |-> F(i + 1)[k]]) \o F(i + 1)[i + 1]
      BY <2>1, <2>2, FlattenGrows
    <3> QED BY <2>3, <3>1, Zenon
  <2>6. FlattenSeq(G(i + 1)) = FlattenSeq(G(i)) \o g[i + 1]
    <3>1. FlattenSeq(G(i + 1)) = FlattenSeq([k \in 1 .. i |-> G(i + 1)[k]]) \o G(i + 1)[i + 1]
      BY <2>1, <2>2, FlattenGrows
    <3> QED BY <2>4, <3>1, Zenon
  <2>7. FlattenSeq(F(i)) \in Seq(Word) /\ FlattenSeq(G(i)) \in Seq(Event)
    <3>1. F(i) \in Seq(Seq(Word)) /\ G(i) \in Seq(Seq(Event))
      BY <2>1, <2>2, FunctionIsSeq
    <3> QED BY <3>1, FlattenType
  <2>8. f[i + 1] \in Seq(Word) /\ g[i + 1] \in Seq(Event) /\ Shows(exact, m, f[i + 1], g[i + 1], m)
    BY <2>1
  <2>9. Shows(exact, m, FlattenSeq(F(i)), FlattenSeq(G(i)), m)
    BY <1>2
  <2>10. Shows(exact, m, FlattenSeq(F(i)) \o f[i + 1], FlattenSeq(G(i)) \o g[i + 1], m)
    BY <2>7, <2>8, <2>9, ShowsBoth
  <2>11. Shows(exact, m, FlattenSeq(F(i + 1)), FlattenSeq(G(i + 1)), m)
    BY <2>5, <2>6, <2>10, Zenon
  <2> QED BY <2>1, <2>11
<1>3. F(n) = f /\ G(n) = g
  OBVIOUS
<1> HIDE DEF F, G, T
<1>4. n \in T
  <2>1. \A i \in 0 .. n : i \in T
    BY <1>1, <1>2, InductionUpTo
  <2> QED BY <2>1
<1>5. Shows(exact, m, FlattenSeq(F(n)), FlattenSeq(G(n)), m)
  BY <1>4 DEF T
<1> QED BY <1>3, <1>5, Zenon

\* A character is printed so that it is seen.
LEMMA ShowsEscape ==
  ASSUME NEW exact, NEW c \in Word
  PROVE  W!Escape(c) \in Seq(Word) /\ Shows(exact, "data", W!Escape(c), <<CharEvent(c)>>, "data")
<1>1. ASSUME NEW name \in EntityNames, W!Escape(c) = <<"&", name, ";">>, Decoded(name) = c
      PROVE  W!Escape(c) \in Seq(Word) /\ Shows(exact, "data", W!Escape(c), <<CharEvent(c)>>, "data")
  <2> DEFINE a == "&"
             b == ";"
  <2>1. Shows(exact, "data", <<"&", name, ";">>, <<CharEvent(Decoded(name))>>, "data")
    BY ShowsEntity
  <2>2. a \in Word /\ b \in Word /\ name \in Word
    <3>1. a \in OwnWords /\ b \in OwnWords
      BY DEF OwnWords
    <3> QED BY <3>1, OwnAreWords, EntityWords
  <2> HIDE DEF a, b
  <2>3. <<a, name, b>> \in Seq(Word)
    BY <2>2
  <2>4. <<"&", name, ";">> \in Seq(Word)
    BY <2>3 DEF a, b
  <2> QED BY <1>1, <2>1, <2>4, Zenon
<1>2. CASE c = "&"
  <2>1. W!Escape(c) = <<"&", "amp", ";">> /\ Decoded("amp") = c /\ "amp" \in EntityNames
    BY <1>2 DEF W!Escape, Decoded, EntityNames
  <2> QED BY <1>1, <2>1
<1>3. CASE c = "<"
  <2>1. W!Escape(c) = <<"&", "lt", ";">> /\ Decoded("lt") = c /\ "lt" \in EntityNames
    BY <1>3 DEF W!Escape, Decoded, EntityNames
  <2> QED BY <1>1, <2>1
<1>4. CASE c = ">"
  <2>1. W!Escape(c) = <<"&", "gt", ";">> /\ Decoded("gt") = c /\ "gt" \in EntityNames
    BY <1>4 DEF W!Escape, Decoded, EntityNames
  <2> QED BY <1>1, <2>1
<1>5. CASE c = "\""
  <2>1. W!Escape(c) = <<"&", "quot", ";">> /\ Decoded("quot") = c /\ "quot" \in EntityNames
    BY <1>5 DEF W!Escape, Decoded, EntityNames
  <2> QED BY <1>1, <2>1
<1>6. CASE c \notin {"&", "<", ">", "\""}
  <2>1. W!Escape(c) = <<c>>
    BY <1>6 DEF W!Escape
  <2> DEFINE m == "data"
  <2>2. m \in {"data", "raw"} /\ c # "<" /\ c # "&"
    BY <1>6
  <2> HIDE DEF m
  <2>3. Shows(exact, m, <<c>>, <<CharEvent(c)>>, m)
    BY <2>2, ShowsChar
  <2>4. <<c>> \in Seq(Word)
    OBVIOUS
  <2> QED BY <2>1, <2>3, <2>4, Zenon DEF m
<1> QED BY <1>2, <1>3, <1>4, <1>5, <1>6

\* The characters of a text are events.
LEMMA CharsType ==
  ASSUME NEW txt \in Seq(Word)
  PROVE  /\ Chars(txt) = [k \in 1 .. Len(txt) |-> CharEvent(txt[k])]
         /\ Chars(txt) \in Seq(Event) /\ Len(Chars(txt)) = Len(txt)
<1> DEFINE n == Len(txt)
           f == [k \in 1 .. n |-> CharEvent(txt[k])]
<1>1. n \in Nat /\ DOMAIN txt = 1 .. n /\ \A k \in 1 .. n : txt[k] \in Word
  OBVIOUS
<1>2. Chars(txt) = f
  BY <1>1, Zenon DEF Chars, CharEvent
<1> HIDE DEF n
<1>3. f \in [1 .. n -> Event]
  BY <1>1, CharEventType
<1>4. f \in Seq(Event) /\ Len(f) = n
  BY <1>1, <1>3, FunctionIsSeq
<1> QED BY <1>2, <1>4 DEF n

\* So is a text.
LEMMA ShowsStr ==
  ASSUME NEW exact, NEW txt \in Seq(Word)
  PROVE  W!PrintStr(txt) \in Seq(Word) /\ Shows(exact, "data", W!PrintStr(txt), Chars(txt), "data")
<1> DEFINE n == Len(txt)
           f == [k \in 1 .. n |-> W!Escape(txt[k])]
           c == Chars(txt)
           g == [k \in 1 .. n |-> <<c[k]>>]
           m == "data"
<1>1. n \in Nat /\ DOMAIN txt = 1 .. n /\ \A k \in 1 .. n : txt[k] \in Word
  OBVIOUS
<1>2. W!PrintStr(txt) = FlattenSeq(f)
  <2>1. W!PrintStr(txt) = W!FlattenSeq(f)
    BY <1>1, Zenon DEF W!PrintStr
  <2> QED BY <2>1, SameFlatten, Zenon
<1>3. c \in Seq(Event) /\ Len(c) = n /\ \A k \in 1 .. n : c[k] = CharEvent(txt[k])
  <2>1. c = [k \in 1 .. n |-> CharEvent(txt[k])] /\ c \in Seq(Event) /\ Len(c) = n
    BY CharsType
  <2> HIDE DEF c
  <2> QED BY <2>1
<1> HIDE DEF n, c
<1>4. \A k \in 1 .. n : /\ W!Escape(txt[k]) \in Seq(Word)
                        /\ Shows(exact, m, W!Escape(txt[k]), <<CharEvent(txt[k])>>, m)
  BY <1>1, ShowsEscape
<1> HIDE DEF m
<1>5. f \in [1 .. n -> Seq(Word)] /\ g \in [1 .. n -> Seq(Event)]
  <2>1. \A k \in 1 .. n : <<c[k]>> \in Seq(Event)
    BY <1>3
  <2> QED BY <1>4, <2>1
<1>6. \A k \in 1 .. n : Shows(exact, m, f[k], g[k], m)
  BY <1>3, <1>4
<1>7. FlattenSeq(g) = c
  BY <1>3, FlattenSingles
<1>8. f \in Seq(Seq(Word))
  BY <1>1, <1>5, FunctionIsSeq
<1> HIDE DEF f, g
<1>9. Shows(exact, m, FlattenSeq(f), FlattenSeq(g), m)
  BY <1>1, <1>5, <1>6, ShowsAll
<1>10. FlattenSeq(f) \in Seq(Word)
  BY <1>8, FlattenType
<1> QED BY <1>2, <1>7, <1>9, <1>10, Zenon DEF m, c

-----------------------------------------------------------------------------
(* What tags show.                                                         *)

\* A closing tag.
LEMMA ShowsClose ==
  ASSUME NEW exact, NEW t \in Word, t # ">", t # "/", NEW node, node.tag = t
  PROVE  /\ W!PrintClose(node) \in Seq(Word)
         /\ <<"close", t>> \in Event
         /\ \A m \in {"data", "raw"} : Shows(exact, m, W!PrintClose(node), <<<<"close", t>>>>, "data")
<1> DEFINE a == "<"
           b == "/"
           c == ">"
           data == "data"
           x == <<"close", t>>
           text == <<a, b, t, c>>
<1>1. a \in Word /\ b \in Word /\ c \in Word
  <2>1. a \in OwnWords /\ b \in OwnWords /\ c \in OwnWords
    BY DEF OwnWords
  <2> QED BY <2>1, OwnAreWords
<1>2. W!PrintClose(node) = text
  BY DEF W!PrintClose
<1>3. x \in Event
  <2>1. x \in {"text", "open", "close"} \X Word
    OBVIOUS
  <2> QED BY <2>1 DEF Event
<1>4. \A u, seen : /\ Token(ClosePage(u, seen), t) = ClosePage(t, seen)
                   /\ Token(ClosePage(u, seen), c) = DataPage(u, See(seen, <<"close", u>>))
  BY CloseToken
<1>5. \A u, seen : /\ Token(DataPage(u, seen), a) = TagPage(u, seen)
                   /\ Token(TagPage(u, seen), b) = ClosePage(u, seen)
  <2>1. ASSUME NEW u, NEW seen
        PROVE  Token(DataPage(u, seen), a) = TagPage(u, seen)
    BY DataToken
  <2>2. ASSUME NEW u, NEW seen
        PROVE  Token(TagPage(u, seen), b) = ClosePage(u, seen)
    BY TagToken
  <2> QED BY <2>1, <2>2
<1>8. \A u, seen : /\ Token(RawPage(u, seen), a) = RawTagPage(u, seen)
                   /\ Token(RawTagPage(u, seen), b) = ClosePage(u, seen)
  <2>1. ASSUME NEW u, NEW seen
        PROVE  Token(RawPage(u, seen), a) = RawTagPage(u, seen)
    BY RawToken
  <2>2. ASSUME NEW u, NEW seen
        PROVE  Token(RawTagPage(u, seen), b) = ClosePage(u, seen)
    BY RawToken
  <2> QED BY <2>1, <2>2
<1> HIDE DEF a, b, c, text, x
<1>6. ASSUME NEW m \in {"data", "raw"}
      PROVE  Shows(exact, m, text, <<x>>, data)
  <2>1. ASSUME NEW u, NEW seen
        PROVE  ReadsTo(TextPage(m, u, seen), text, TextPage(data, t, See(seen, x)))
    <3> DEFINE s == TextPage(m, u, seen)
    <3>1. s = DataPage(u, seen) \/ s = RawPage(u, seen)
      BY DEF TextPage
    <3>2. TextPage(data, t, See(seen, x)) = DataPage(t, See(seen, x))
      BY DEF TextPage
    <3> HIDE DEF s, data
    <3>3. Token(Token(s, a), b) = ClosePage(u, seen)
      <4>1. CASE s = DataPage(u, seen)
        BY <1>5, <4>1
      <4>2. CASE s = RawPage(u, seen)
        BY <1>8, <4>2
      <4> QED BY <3>1, <4>1, <4>2
    <3>4. Token(Token(Token(Token(s, a), b), t), c) = DataPage(t, See(seen, x))
      BY <1>4, <3>3, Zenon DEF x
    <3>5. ReadsTo(s, <<a, b, t, c>>, Token(Token(Token(Token(s, a), b), t), c))
      BY <1>1, ReadsFour
    <3> QED BY <3>2, <3>4, <3>5, Zenon DEF s, text
  <2> HIDE DEF data
  <2>2. \A u, seen : \E v : ReadsTo(TextPage(m, u, seen), text, TextPage(data, v, See(seen, x)))
    BY <2>1
  <2> QED BY <1>3, <2>2, ShowsEvent
<1>7. text \in Seq(Word)
  BY <1>1 DEF text
<1> QED BY <1>2, <1>3, <1>6, <1>7, Zenon DEF x

Flat(lvl) == lvl = FLOW_STYLE

\* Inside a tag in flow style nothing is between the parts of a page, outside
\* of it each part is on a line of its own.
LEMMA ShowsLine ==
  ASSUME NEW exact, NEW from \in {"data", "raw"}, NEW to \in {"data", "raw"}, NEW text \in Seq(Word),
         NEW e \in Seq(Event), Shows(exact, from, text, e, to), NEW lvl, lvl # 0
  PROVE  /\ W!OnLine(lvl, text) \in Seq(Word)
         /\ Line(e, Flat(lvl)) \in Seq(Event)
         /\ Shows(exact, from, W!OnLine(lvl, text), Line(e, Flat(lvl)), to)
<1>1. CASE lvl = FLOW_STYLE
  <2>1. W!Indent(lvl) = <<>> /\ W!Nl(lvl) = <<>>
    BY <1>1 DEF W!Indent, W!Nl
  <2>2. W!OnLine(lvl, text) = text
    <3>1. <<>> \o text = text /\ text \o <<>> = text
      BY ConcatEmptySeq
    <3>2. W!OnLine(lvl, text) = (<<>> \o text) \o <<>>
      BY <2>1, Zenon DEF W!OnLine
    <3> QED BY <3>1, <3>2, Zenon
  <2>3. Line(e, Flat(lvl)) = e
    BY <1>1 DEF Line, Flat
  <2> QED BY <2>2, <2>3, Zenon
<1>2. CASE lvl # FLOW_STYLE
  <2> DEFINE a == "indent"
             b == "\n"
             i == <<a>>
             n == <<b>>
             blank == <<BlankEvent>>
  <2>1. W!Indent(lvl) = i /\ W!Nl(lvl) = n
    BY <1>2 DEF W!Indent, W!Nl
  <2>2. CharEvent(a) = BlankEvent /\ CharEvent(b) = BlankEvent /\ a # "<" /\ b # "<" /\ a # "&" /\ b # "&"
    BY DEF CharEvent, Blank, BlankEvent
  <2>3. a \in Word /\ b \in Word
    <3>1. a \in OwnWords /\ b \in OwnWords
      BY DEF OwnWords
    <3> QED BY <3>1, OwnAreWords
  <2> HIDE DEF a, b
  <2>4. Shows(exact, from, <<a>>, <<CharEvent(a)>>, from) /\ Shows(exact, to, <<b>>, <<CharEvent(b)>>, to)
    BY <2>2, <2>3, ShowsChar
  <2>5. Shows(exact, from, i, blank, from) /\ Shows(exact, to, n, blank, to)
    BY <2>2, <2>4, Zenon
  <2>6. i \in Seq(Word) /\ n \in Seq(Word)
    BY <2>3
  <2>7. blank \in Seq(Event)
    <3>1. BlankEvent \in Event
      BY DEF Event, BlankEvent
    <3> HIDE DEF BlankEvent
    <3> QED BY <3>1
  <2> HIDE DEF i, n, blank
  <2>8. Shows(exact, from, i \o text, blank \o e, to) /\ i \o text \in Seq(Word) /\ blank \o e \in Seq(Event)
    BY <2>5, <2>6, <2>7, ShowsBoth, ConcatProperties
  <2>9. /\ Shows(exact, from, (i \o text) \o n, (blank \o e) \o blank, to)
        /\ (i \o text) \o n \in Seq(Word) /\ (blank \o e) \o blank \in Seq(Event)
    BY <2>5, <2>6, <2>7, <2>8, ShowsBoth, ConcatProperties
  <2>10. W!OnLine(lvl, text) = (i \o text) \o n
    BY <2>1, Zenon DEF W!OnLine
  <2>11. Line(e, Flat(lvl)) = (blank \o e) \o blank
    <3>1. ~ Flat(lvl)
      BY <1>2 DEF Flat
    <3> QED BY <3>1, Zenon DEF Line, blank, BlankEvent
  <2> QED BY <2>9, <2>10, <2>11, Zenon
<1> QED BY <1>1, <1>2

-----------------------------------------------------------------------------
(* What an opening tag shows.                                              *)

\* An attribute as it is in the tree, and as the browser has it if all is well.
TreeAttr     == [name : AttrName, value : {<<>>} \cup [1 .. 1 -> AnyText]]
AsRead(attr) == Named(<<attr.name>>, attr.value)

\* No value ends at a quote of its own.
Quiet(attr)    == attr.value # <<>> => \A k \in 1 .. Len(attr.value[1]) : attr.value[1][k] # Quote
AttrTame(attr) == attr.value # <<>> => Harmless(attr.value[1])

\* In an opening tag, where the next attribute may begin.
Opened(s, t, seen) ==
  \/ \E l \in Seq(BrowserAttr) : s = AttrsPage(t, l, seen)
  \/ \E l \in Seq(BrowserAttr) : \E a \in BrowserAttr : s = NamePage(t, Append(l, a), seen)

\* The attributes so far are typed, and > ends the tag.
LEMMA OpenedEnds ==
  ASSUME NEW s, NEW t, NEW seen, Opened(s, t, seen)
  PROVE  /\ s.attrs \in Seq(BrowserAttr)
         /\ Token(s, " ") = AttrsPage(t, s.attrs, seen)
         /\ Token(s, ">") = AfterOpen(t, See(seen, <<"open", t, Kept(s.attrs)>>))
<1> DEFINE b == " "
           c == ">"
<1>1. b \in Blank
  BY DEF Blank
<1>2. \A l : /\ Token(AttrsPage(t, l, seen), c) = AfterOpen(t, See(seen, <<"open", t, Kept(l)>>))
             /\ Token(NamePage(t, l, seen), c) = AfterOpen(t, See(seen, <<"open", t, Kept(l)>>))
  BY OpenToken
<1> HIDE DEF b, c
<1>3. \A l : /\ Token(AttrsPage(t, l, seen), b) = AttrsPage(t, l, seen)
             /\ Token(NamePage(t, l, seen), b) = AttrsPage(t, l, seen)
  BY <1>1, BlankToken
<1>4. ASSUME NEW l \in Seq(BrowserAttr), s = AttrsPage(t, l, seen) \/ s = NamePage(t, l, seen)
      PROVE  /\ s.attrs \in Seq(BrowserAttr)
             /\ Token(s, b) = AttrsPage(t, s.attrs, seen)
             /\ Token(s, c) = AfterOpen(t, See(seen, <<"open", t, Kept(s.attrs)>>))
  <2>1. s.attrs = l
    BY <1>4 DEF AttrsPage, NamePage, Page
  <2>2. CASE s = AttrsPage(t, l, seen)
    BY <1>2, <1>3, <2>1, <2>2, Zenon
  <2>3. CASE s = NamePage(t, l, seen)
    BY <1>2, <1>3, <2>1, <2>3, Zenon
  <2> QED BY <1>4, <2>2, <2>3
<1>5. \E l \in Seq(BrowserAttr) : s = AttrsPage(t, l, seen) \/ s = NamePage(t, l, seen)
  <2>1. CASE \E l \in Seq(BrowserAttr) : s = AttrsPage(t, l, seen)
    BY <2>1
  <2>2. CASE \E l \in Seq(BrowserAttr) : \E a \in BrowserAttr : s = NamePage(t, Append(l, a), seen)
    <3>1. PICK l \in Seq(BrowserAttr) : \E a \in BrowserAttr : s = NamePage(t, Append(l, a), seen)
      BY <2>2
    <3>2. PICK a \in BrowserAttr : s = NamePage(t, Append(l, a), seen)
      BY <3>1
    <3>3. Append(l, a) \in Seq(BrowserAttr)
      OBVIOUS
    <3> QED BY <3>2, <3>3
  <2> QED BY <2>1, <2>2 DEF Opened
<1> QED BY <1>4, <1>5 DEF b, c

\* What neither ends the tag nor begins a value leaves it open.
LEMMA OpenedStays ==
  ASSUME NEW s, NEW t, NEW seen, Opened(s, t, seen), NEW c \in Word, c \notin {">", "="}
  PROVE  Opened(Token(s, c), t, seen)
<1> DEFINE B == BrowserAttr
<1>0. \A l \in Seq(B) : \A a \in B : Append(l, a) \in Seq(B)
  OBVIOUS
<1>1. CASE c \in Blank
  <2>1. \A l : /\ Token(AttrsPage(t, l, seen), c) = AttrsPage(t, l, seen)
               /\ Token(NamePage(t, l, seen), c) = AttrsPage(t, l, seen)
    BY <1>1, BlankToken
  <2> QED BY <1>0, <2>1, Zenon DEF Opened
<1>2. CASE c \notin Blank
  <2>0. c # ">"
    OBVIOUS
  <2>1. ASSUME NEW l \in Seq(B), s = AttrsPage(t, l, seen)
        PROVE  Opened(Token(s, c), t, seen)
    <3> DEFINE a == Named(<<c>>, <<>>)
    <3>1. Token(AttrsPage(t, l, seen), c) = NamePage(t, Append(l, a), seen)
      BY <1>2, <2>0, AttrToken
    <3>2. a \in B
      <4> DEFINE n == <<c>>
                 v == <<>>
      <4>1. n \in Seq(Word) /\ v \in Seq(Seq(Word))
        OBVIOUS
      <4> HIDE DEF n, v
      <4> QED BY <4>1 DEF BrowserAttr, Named
    <3> HIDE DEF a
    <3> QED BY <2>1, <3>1, <3>2, Zenon DEF Opened
  <2>2. ASSUME NEW l \in Seq(B), NEW a \in B, s = NamePage(t, Append(l, a), seen)
        PROVE  Opened(Token(s, c), t, seen)
    <3> DEFINE d == Named(Append(a.name, c), a.value)
    <3>1. Token(NamePage(t, Append(l, a), seen), c) = NamePage(t, Append(l, d), seen)
      BY <1>2, NameToken
    <3>2. d \in B
      <4>1. a.name \in Seq(Word) /\ a.value \in Seq(Seq(Word))
        BY DEF BrowserAttr
      <4>2. Append(a.name, c) \in Seq(Word)
        BY <4>1
      <4> QED BY <4>1, <4>2 DEF BrowserAttr, Named
    <3> HIDE DEF d
    <3> QED BY <2>2, <3>1, <3>2, Zenon DEF Opened
  <2> QED BY <2>1, <2>2, Zenon DEF Opened
<1> QED BY <1>1, <1>2

\* A value goes on until the quote after it, or is over at a quote in it, after
\* which come names.
ValueRead(s, t, attrs, name, seen, v, k) ==
  IF \A j \in 1 .. k : v[j] # Quote
  THEN s = ValuePage(t, Append(attrs, Named(name, <<SubSeq(v, 1, k)>>)), seen)
  ELSE Opened(s, t, seen)

\* A value without a dangerous quote is read to its end, one way or the other.
LEMMA ReadsValue ==
  ASSUME NEW t, NEW attrs \in Seq(BrowserAttr), NEW name \in Seq(Word), NEW seen,
         NEW v \in Seq(Word), Harmless(v)
  PROVE  \E r : /\ ReadsTo(ValuePage(t, Append(attrs, Named(name, <<<<>>>>)), seen), v, r)
                /\ ValueRead(r, t, attrs, name, seen, v, Len(v))
<1> DEFINE n == Len(v)
           part(k) == SubSeq(v, 1, k)
           s0 == ValuePage(t, Append(attrs, Named(name, <<<<>>>>)), seen)
           Is(k) == \E r : /\ ReadsTo(s0, part(k), r)
                           /\ ValueRead(r, t, attrs, name, seen, v, k)
           T == {k \in Nat : Is(k)}
<1>0. n \in Nat
  OBVIOUS
<1>5. ASSUME NEW a \in BrowserAttr, NEW c, c # Quote
      PROVE  Token(ValuePage(t, Append(attrs, a), seen), c)
               = ValuePage(t, Append(attrs, Named(a.name, <<Append(a.value[1], c)>>)), seen)
  BY <1>5, ValueToken
<1>1. 0 \in T
  <2>1. part(0) = <<>>
    OBVIOUS
  <2>2. ValueRead(s0, t, attrs, name, seen, v, 0)
    <3>1. \A j \in 1 .. 0 : v[j] # Quote
      OBVIOUS
    <3> HIDE DEF part
    <3>2. s0 = ValuePage(t, Append(attrs, Named(name, <<part(0)>>)), seen)
      BY <2>1, Zenon
    <3> QED BY <3>1, <3>2, Zenon DEF ValueRead, part
  <2> HIDE DEF part, s0
  <2>3. Is(0)
    BY <2>1, <2>2, ReadsNothing, Zenon
  <2> QED BY <2>3
<1>2. ASSUME NEW k \in 0 .. n - 1, k \in T
      PROVE  k + 1 \in T
  <2>1. k \in Nat /\ k + 1 \in Nat /\ k + 1 \in 1 .. n /\ v[k + 1] \in Word
    OBVIOUS
  <2> DEFINE c == v[k + 1]
  <2>2. part(k) \in Seq(Word) /\ part(k + 1) = Append(part(k), c)
    <3>1. \A m \in 1 .. n : SubSeq(v, 1, m) = Append(SubSeq(v, 1, m - 1), v[m])
      BY SubSeqRecursiveSecond, SMTT(30)
    <3>2. part(k + 1) = Append(SubSeq(v, 1, (k + 1) - 1), c) /\ (k + 1) - 1 = k
      BY <2>1, <3>1
    <3> QED BY <2>1, <3>2
  <2>3. PICK r : ReadsTo(s0, part(k), r) /\ ValueRead(r, t, attrs, name, seen, v, k)
    BY <1>2
  <2> HIDE DEF part, s0
  <2>4. ReadsTo(s0, part(k + 1), Token(r, c))
    <3>1. ReadsTo(s0, Append(part(k), c), Token(r, c))
      BY <2>1, <2>2, <2>3, ReadsMore
    <3> QED BY <2>2, <3>1, Zenon
  <2>5. ValueRead(Token(r, c), t, attrs, name, seen, v, k + 1)
    <3>1. CASE \E j \in 1 .. k : v[j] = Quote
      <4>1. Opened(r, t, seen)
        BY <2>3, <3>1 DEF ValueRead
      <4>2. c \notin {">", "="}
        <5>1. PICK j \in 1 .. k : v[j] = Quote
          BY <3>1
        <5>2. j \in DOMAIN v /\ k + 1 \in DOMAIN v /\ j < k + 1
          BY <2>1
        <5> QED BY <5>1, <5>2 DEF Harmless, Quote
      <4>3. Opened(Token(r, c), t, seen)
        BY <2>1, <4>1, <4>2, OpenedStays
      <4>4. \E j \in 1 .. k + 1 : v[j] = Quote
        BY <3>1
      <4> QED BY <4>3, <4>4 DEF ValueRead
    <3>2. CASE /\ \A j \in 1 .. k : v[j] # Quote
               /\ c = Quote
      <4>1. r = ValuePage(t, Append(attrs, Named(name, <<part(k)>>)), seen)
        BY <2>3, <3>2, Zenon DEF ValueRead, part
      <4> DEFINE l == Append(attrs, Named(name, <<part(k)>>))
      <4>2. l \in Seq(BrowserAttr)
        <5>1. <<part(k)>> \in Seq(Seq(Word))
          BY <2>2
        <5>2. Named(name, <<part(k)>>) \in BrowserAttr
          BY <5>1 DEF Named, BrowserAttr
        <5> QED BY <5>2
      <4> HIDE DEF l
      <4>3. Token(r, c) = AttrsPage(t, l, seen)
        <5>1. Token(ValuePage(t, l, seen), Quote) = AttrsPage(t, l, seen)
          BY QuoteToken DEF Quote
        <5> HIDE DEF c
        <5> QED BY <3>2, <4>1, <5>1, Zenon DEF l
      <4>4. Opened(Token(r, c), t, seen)
        BY <4>2, <4>3, Zenon DEF Opened
      <4>5. \E j \in 1 .. k + 1 : v[j] = Quote
        BY <2>1, <3>2
      <4> QED BY <4>4, <4>5 DEF ValueRead
    <3>3. CASE /\ \A j \in 1 .. k : v[j] # Quote
               /\ c # Quote
      <4>1. r = ValuePage(t, Append(attrs, Named(name, <<part(k)>>)), seen)
        BY <2>3, <3>3, Zenon DEF ValueRead, part
      <4>2. \A j \in 1 .. k + 1 : v[j] # Quote
        BY <2>1, <3>3
      <4> DEFINE w == <<part(k)>>
                 a == Named(name, w)
      <4>3. a \in BrowserAttr /\ a.name = name /\ a.value[1] = part(k)
        <5>1. w \in Seq(Seq(Word)) /\ w[1] = part(k)
          BY <2>2
        <5> HIDE DEF w
        <5>2. a \in BrowserAttr /\ a.name = name /\ a.value = w
          BY <5>1 DEF Named, BrowserAttr
        <5> QED BY <5>1, <5>2, Zenon
      <4> HIDE DEF a
      <4>4. Token(ValuePage(t, Append(attrs, a), seen), c)
              = ValuePage(t, Append(attrs, Named(a.name, <<Append(a.value[1], c)>>)), seen)
        <5> HIDE DEF c
        <5>1. a \in BrowserAttr
          BY <4>3
        <5> QED BY <1>5, <3>3, <5>1
      <4>5. Token(r, c) = ValuePage(t, Append(attrs, Named(name, <<part(k + 1)>>)), seen)
        BY <2>2, <4>1, <4>3, <4>4, Zenon DEF a
      <4> QED BY <4>2, <4>5, Zenon DEF ValueRead, part
    <3> QED BY <3>1, <3>2, <3>3
  <2>6. Is(k + 1)
    BY <2>4, <2>5, Zenon
  <2> QED BY <2>1, <2>6
<1>3. n \in T
  <2> HIDE DEF T
  <2>1. \A k \in 0 .. n : k \in T
    BY <1>0, <1>1, <1>2, InductionUpTo
  <2> QED BY <1>0, <2>1
<1>4. part(n) = v
  BY SubSeqFull
<1> QED BY <1>3, <1>4

\* An attribute in an opening tag: the tag goes on after it, and it is read as
\* it is if its value has no quote.
LEMMA ReadsAttr ==
  ASSUME NEW s, NEW t, NEW seen, Opened(s, t, seen), NEW a \in TreeAttr, AttrTame(a)
  PROVE  /\ W!PrintAttr(a) \in Seq(Word)
         /\ AsRead(a) \in BrowserAttr
         /\ \E r : /\ ReadsTo(s, W!PrintAttr(a), r)
                   /\ Opened(r, t, seen)
                   /\ Quiet(a) => r.attrs = Append(s.attrs, AsRead(a))
<1> DEFINE B == BrowserAttr
           l == s.attrs
           b == " "
           e == "="
           q == Quote
           none == <<>>
           n == a.name
           name == <<n>>
           first == Named(name, none)
           s1 == AttrsPage(t, l, seen)
           s2 == NamePage(t, Append(l, first), seen)
<1>1. b \in Word /\ e \in Word /\ q \in Word
  <2>1. b \in OwnWords /\ e \in OwnWords /\ q \in OwnWords
    BY DEF OwnWords, Quote
  <2> QED BY <2>1, OwnAreWords
<1>2. n \in Word /\ n \notin Blank /\ n # ">"
  <2>1. n \in AttrName
    BY DEF TreeAttr
  <2> HIDE DEF n
  <2> QED BY <2>1 DEF AttrName, Blank, Word
<1>3. l \in Seq(B) /\ Token(s, b) = s1
  BY OpenedEnds
<1> HIDE DEF l, b, n
<1>4. Token(s1, n) = s2
  BY <1>2, AttrToken
<1>5. name \in Seq(Word) /\ first \in B
  <2>1. name \in Seq(Word) /\ none \in Seq(Seq(Word))
    BY <1>2
  <2> HIDE DEF name, none
  <2> QED BY <2>1 DEF BrowserAttr, Named
<1> HIDE DEF first, none
<1>6. Token(Token(s, b), n) = s2
  BY <1>3, <1>4, Zenon
<1>7. CASE a.value = <<>>
  <2>1. W!PrintAttr(a) = <<b, n>>
    BY <1>7 DEF W!PrintAttr, b, n
  <2>2. ReadsTo(s, <<b, n>>, Token(Token(s, b), n))
    BY <1>1, <1>2, ReadsTwo
  <2>3. <<b, n>> \in Seq(Word)
    BY <1>1, <1>2
  <2>4. AsRead(a) = first
    BY <1>7, Zenon DEF AsRead, first, name, n, none
  <2>5. Opened(s2, t, seen)
    BY <1>3, <1>5, Zenon DEF Opened
  <2>6. s2.attrs = Append(l, first)
    BY DEF NamePage, Page
  <2> HIDE DEF s2
  <2> QED BY <1>5, <1>6, <2>1, <2>2, <2>3, <2>4, <2>5, <2>6, Zenon DEF l
<1>8. CASE a.value # <<>>
  <2> DEFINE v == a.value[1]
             w == <<v>>
             empty == <<<<>>>>
             second == Named(name, empty)
             s3 == BeforePage(t, Append(l, second), seen)
             s4 == ValuePage(t, Append(l, second), seen)
             prefix == <<b, n, e, q>>
  <2>1. a.value = w /\ v \in Seq(Word)
    <3>1. a.value \in [1 .. 1 -> Seq(Word)]
      BY <1>8 DEF TreeAttr, AnyText, Word
    <3> QED BY <3>1
  <2>2. AsRead(a) = Named(name, w) /\ Named(name, w) \in B
    <3>1. w \in Seq(Seq(Word))
      BY <2>1
    <3> HIDE DEF w
    <3>2. AsRead(a) = Named(name, w)
      BY <2>1, Zenon DEF AsRead, name, n
    <3> QED BY <1>5, <3>1, <3>2 DEF BrowserAttr, Named
  <2>3. Token(s2, e) = s3
    <3> DEFINE c == "x"
    <3>1. c \notin Blank /\ c \notin {">", "="}
      BY DEF Blank
    <3> HIDE DEF c
    <3>2. Token(NamePage(t, Append(l, first), seen), "=")
            = BeforePage(t, Append(l, Named(first.name, <<<<>>>>)), seen)
      BY <1>3, <1>5, <3>1, NameToken
    <3>3. first.name = name
      BY DEF first, Named
    <3> QED BY <3>2, <3>3, Zenon
  <2>4. Token(s3, q) = s4
    BY QuoteToken DEF Quote
  <2> HIDE DEF s1, s2, s3, s4, e, q, v, w, empty, second
  <2>5. ReadsTo(s, prefix, s4)
    <3>1. ReadsTo(s, <<b, n, e, q>>, Token(Token(Token(Token(s, b), n), e), q))
      BY <1>1, <1>2, ReadsFour
    <3> QED BY <1>6, <2>3, <2>4, <3>1, Zenon
  <2>6. PICK r : ReadsTo(s4, v, r) /\ ValueRead(r, t, l, name, seen, v, Len(v))
    <3>1. Harmless(v)
      BY <1>8 DEF AttrTame, v
    <3>2. \E r : /\ ReadsTo(ValuePage(t, Append(l, Named(name, <<<<>>>>)), seen), v, r)
                 /\ ValueRead(r, t, l, name, seen, v, Len(v))
      <4> HIDE DEF name
      <4> QED BY <1>3, <1>5, <2>1, <3>1, ReadsValue
    <3> QED BY <3>2, Zenon DEF s4, second, empty
  <2> DEFINE last == <<q>>
             text == (prefix \o v) \o last
  <2>7. prefix \in Seq(Word) /\ last \in Seq(Word) /\ prefix \o v \in Seq(Word) /\ text \in Seq(Word)
    BY <1>1, <1>2, <2>1
  <2>8. W!PrintAttr(a) = text
    BY <1>8, Zenon DEF W!PrintAttr, v, b, n, e, q, Quote
  <2> HIDE DEF prefix, name
  <2>9. ReadsTo(s, prefix \o v, r)
    BY <2>1, <2>5, <2>6, <2>7, ReadsBoth
  <2>10. ReadsTo(s, text, Token(r, q))
    <3>1. ReadsTo(r, last, Token(r, q))
      BY ReadsOne
    <3> HIDE DEF last
    <3> QED BY <2>7, <2>9, <3>1, ReadsBoth
  <2> HIDE DEF text
  <2>11. Len(v) \in Nat
    BY <2>1
  <2>12. /\ Opened(Token(r, q), t, seen)
         /\ Quiet(a) => Token(r, q).attrs = Append(l, AsRead(a))
    <3>1. CASE \A j \in 1 .. Len(v) : v[j] # Quote
      <4> DEFINE l2 == Append(l, Named(name, w))
      <4>1. r = ValuePage(t, l2, seen)
        <5>1. r = ValuePage(t, Append(l, Named(name, <<SubSeq(v, 1, Len(v))>>)), seen)
          BY <2>6, <3>1, Zenon DEF ValueRead
        <5>2. SubSeq(v, 1, Len(v)) = v
          BY <2>1, SubSeqFull
        <5> QED BY <5>1, <5>2, Zenon DEF w
      <4>2. l2 \in Seq(B)
        BY <1>3, <2>2
      <4>3. l2 = Append(l, AsRead(a))
        BY <2>2, Zenon
      <4> HIDE DEF l2
      <4>4. Token(r, q) = AttrsPage(t, l2, seen)
        <5>1. Token(ValuePage(t, l2, seen), q) = AttrsPage(t, l2, seen)
          BY QuoteToken DEF q, Quote
        <5> QED BY <4>1, <5>1, Zenon
      <4>5. Token(r, q).attrs = l2
        BY <4>4 DEF AttrsPage, Page
      <4> QED BY <4>2, <4>3, <4>4, <4>5, Zenon DEF Opened
    <3>2. CASE ~ \A j \in 1 .. Len(v) : v[j] # Quote
      <4>1. Opened(r, t, seen)
        BY <2>6, <3>2, Zenon DEF ValueRead
      <4>2. q \notin {">", "="}
        BY DEF q, Quote
      <4>3. Opened(Token(r, q), t, seen)
        BY <1>1, <4>1, <4>2, OpenedStays
      <4>4. ~ Quiet(a)
        BY <1>8, <3>2, Zenon DEF Quiet, v
      <4> QED BY <4>3, <4>4
    <3> QED BY <3>1, <3>2
  <2> QED BY <2>2, <2>7, <2>8, <2>10, <2>12, Zenon DEF l
<1> QED BY <1>7, <1>8

\* The n attributes f, printed and read.
AttrsText(f, n) == FlattenSeq([k \in 1 .. n |-> W!PrintAttr(f[k])])
AttrsRead(f, n) == [k \in 1 .. n |-> AsRead(f[k])]
NoneRead(t, seen) == AttrsPage(t, <<>>, seen)
AttrsGood(t, seen, f, n) ==
  \E r : /\ ReadsTo(NoneRead(t, seen), AttrsText(f, n), r)
         /\ Opened(r, t, seen)
         /\ (\A k \in 1 .. n : Quiet(f[k])) => r.attrs = AttrsRead(f, n)

\* All the attributes of a tag.
LEMMA ReadsAttrs ==
  ASSUME NEW t, NEW seen, NEW n \in Nat, NEW f \in [1 .. n -> TreeAttr],
         \A k \in 1 .. n : AttrTame(f[k])
  PROVE  AttrsText(f, n) \in Seq(Word) /\ AttrsGood(t, seen, f, n)
<1> DEFINE B == BrowserAttr
           F(i) == [k \in 1 .. i |-> W!PrintAttr(f[k])]
           G(i) == [k \in 1 .. i |-> AsRead(f[k])]
           none == <<>>
           s0 == AttrsPage(t, none, seen)
           calm == \A k \in 1 .. n : Quiet(f[k])
           Is(i) == \E r : /\ ReadsTo(s0, FlattenSeq(F(i)), r)
                           /\ Opened(r, t, seen)
                           /\ calm => r.attrs = G(i)
           T == {i \in Nat : Is(i)}
<1>1. 0 \in T
  <2>1. F(0) = none /\ G(0) = none
    OBVIOUS
  <2>2. none \in Seq(B)
    OBVIOUS
  <2>3. s0.attrs = none
    BY DEF AttrsPage, Page
  <2>4. FlattenSeq(none) = none
    BY FlattenEmpty
  <2>5. ReadsTo(s0, none, s0)
    BY ReadsNothing
  <2> HIDE DEF F, G, none
  <2>6. Opened(s0, t, seen)
    BY <2>2, Zenon DEF Opened
  <2>7. Is(0)
    BY <2>1, <2>3, <2>4, <2>5, <2>6, Zenon
  <2> QED BY <2>7
<1>2. \A k \in 1 .. n : W!PrintAttr(f[k]) \in Seq(Word) /\ AsRead(f[k]) \in B
  <2>1. ASSUME NEW k \in 1 .. n
        PROVE  W!PrintAttr(f[k]) \in Seq(Word) /\ AsRead(f[k]) \in B
    <3> DEFINE x == AttrsPage(t, none, seen)
    <3>1. Opened(x, t, seen)
      <4>1. none \in Seq(B)
        OBVIOUS
      <4> HIDE DEF none
      <4> QED BY <4>1, Zenon DEF Opened
    <3>2. f[k] \in TreeAttr /\ AttrTame(f[k])
      OBVIOUS
    <3> HIDE DEF x
    <3> QED BY <3>1, <3>2, ReadsAttr
  <2> QED BY <2>1
<1>3. \A i \in 0 .. n : F(i) \in [1 .. i -> Seq(Word)] /\ FlattenSeq(F(i)) \in Seq(Word)
  <2>1. ASSUME NEW i \in 0 .. n
        PROVE  F(i) \in [1 .. i -> Seq(Word)] /\ FlattenSeq(F(i)) \in Seq(Word)
    <3>1. F(i) \in [1 .. i -> Seq(Word)] /\ i \in Nat
      BY <1>2
    <3> HIDE DEF F
    <3>2. F(i) \in Seq(Seq(Word))
      BY <3>1, FunctionIsSeq
    <3> QED BY <3>1, <3>2, FlattenType
  <2> QED BY <2>1
<1>4. ASSUME NEW i \in 0 .. n - 1, i \in T
      PROVE  i + 1 \in T
  <2>1. i \in Nat /\ i + 1 \in Nat /\ i + 1 \in 1 .. n /\ i \in 0 .. n /\ i + 1 \in 0 .. n
    OBVIOUS
  <2> DEFINE a == f[i + 1]
             text == W!PrintAttr(a)
  <2>2. a \in TreeAttr /\ AttrTame(a) /\ text \in Seq(Word) /\ AsRead(a) \in B
    BY <1>2, <2>1
  <2>3. PICK r : /\ ReadsTo(s0, FlattenSeq(F(i)), r)
                 /\ Opened(r, t, seen)
                 /\ calm => r.attrs = G(i)
    BY <1>4
  <2> HIDE DEF s0
  <2>4. FlattenSeq(F(i + 1)) = FlattenSeq(F(i)) \o text
    <3>1. [k \in 1 .. i |-> F(i + 1)[k]] = F(i) /\ F(i + 1)[i + 1] = text
      BY <2>1
    <3>2. F(i + 1) \in [1 .. i + 1 -> Seq(Word)]
      BY <1>3, <2>1
    <3> HIDE DEF F, text
    <3>3. FlattenSeq(F(i + 1)) = FlattenSeq([k \in 1 .. i |-> F(i + 1)[k]]) \o F(i + 1)[i + 1]
      BY <2>1, <3>2, FlattenGrows
    <3> QED BY <3>1, <3>3, Zenon
  <2>5. G(i + 1) = Append(G(i), AsRead(a))
    <3> DEFINE y == AsRead(a)
    <3>1. \A k \in 1 .. i + 1 : k \in 1 .. n
      BY <2>1
    <3>2. G(i) \in [1 .. i -> B] /\ G(i + 1) \in [1 .. i + 1 -> B]
      BY <1>2, <2>1, <3>1
    <3>3. \A k \in 1 .. i : G(i + 1)[k] = G(i)[k]
      BY <2>1
    <3>4. G(i + 1)[i + 1] = y
      BY <2>1
    <3> HIDE DEF G, y
    <3>5. G(i) \in Seq(B) /\ Len(G(i)) = i /\ G(i + 1) \in Seq(B) /\ Len(G(i + 1)) = i + 1
      BY <2>1, <3>2, FunctionIsSeq
    <3>6. y \in B
      BY <2>2 DEF y
    <3>7. Append(G(i), y) \in Seq(B) /\ Len(Append(G(i), y)) = i + 1
          /\ \A k \in 1 .. i : Append(G(i), y)[k] = G(i)[k]
          /\ Append(G(i), y)[i + 1] = y
      BY <3>5, <3>6
    <3>8. \A k \in 1 .. i + 1 : G(i + 1)[k] = Append(G(i), y)[k]
      BY <2>1, <3>3, <3>4, <3>7
    <3>9. G(i + 1) = Append(G(i), y)
      BY <3>5, <3>7, <3>8, SeqEqual
    <3> QED BY <3>9 DEF y
  <2>6. PICK q : /\ ReadsTo(r, text, q)
                 /\ Opened(q, t, seen)
                 /\ Quiet(a) => q.attrs = Append(r.attrs, AsRead(a))
    <3> HIDE DEF a
    <3>1. \E q : /\ ReadsTo(r, W!PrintAttr(a), q)
                 /\ Opened(q, t, seen)
                 /\ Quiet(a) => q.attrs = Append(r.attrs, AsRead(a))
      BY <2>2, <2>3, ReadsAttr
    <3> QED BY <3>1
  <2> HIDE DEF F, text
  <2>7. ReadsTo(s0, FlattenSeq(F(i)) \o text, q)
    <3>1. FlattenSeq(F(i)) \in Seq(Word)
      BY <1>3, <2>1
    <3> QED BY <2>2, <2>3, <2>6, <3>1, ReadsBoth
  <2>8. calm => Quiet(a)
    BY <2>1
  <2> HIDE DEF G, calm, a
  <2>9. Is(i + 1)
    BY <2>3, <2>4, <2>5, <2>6, <2>7, <2>8, Zenon
  <2> QED BY <2>1, <2>9
<1>5. Is(n)
  <2> HIDE DEF T, Is
  <2>1. n \in T
    <3>1. \A i \in 0 .. n : i \in T
      BY <1>1, <1>4, InductionUpTo
    <3> QED BY <3>1
  <2> QED BY <2>1 DEF T
<1>6. FlattenSeq(F(n)) \in Seq(Word)
  BY <1>3
<1> QED BY <1>5, <1>6, Zenon DEF AttrsGood, AttrsText, AttrsRead, NoneRead

\* The browser keeps attributes.
LEMMA KeptType == ASSUME NEW attrs \in Seq(BrowserAttr) PROVE Kept(attrs) \in Seq(BrowserAttr)
<1> DEFINE B == BrowserAttr
           n == Len(attrs)
           First(k) == \A j \in 1 .. k - 1 : attrs[j].name # attrs[k].name
           f == [k \in 1 .. n |-> IF First(k) THEN <<attrs[k]>> ELSE <<>>]
<1> HIDE DEF B
<1>1. n \in Nat /\ DOMAIN attrs = 1 .. n /\ \A k \in 1 .. n : attrs[k] \in B
  BY DEF B
<1>2. Kept(attrs) = FlattenSeq(f)
  BY <1>1, Zenon DEF Kept
<1> HIDE DEF n, First
<1>3. f \in [1 .. n -> Seq(B)]
  <2>1. \A k \in 1 .. n : <<attrs[k]>> \in Seq(B) /\ <<>> \in Seq(B)
    BY <1>1
  <2> QED BY <2>1
<1>4. f \in Seq(Seq(B))
  BY <1>1, <1>3, FunctionIsSeq
<1> HIDE DEF f
<1>5. FlattenSeq(f) \in Seq(B)
  BY <1>4, FlattenType
<1> QED BY <1>2, <1>5 DEF B

\* In which mode the text after an opening tag is read.
After(t) == IF t \in {"script", "style"} THEN "raw" ELSE "data"

Tame(exact, attrs) ==
  \A k \in DOMAIN attrs : AttrTame(attrs[k]) /\ (exact => Quiet(attrs[k]))

\* An opening tag is seen as one, exactly if no value has a quote.
LEMMA ShowsOpen ==
  ASSUME NEW exact, NEW node, NEW attrs \in Seq(TreeAttr), node.attrs = attrs, Tame(exact, attrs),
         NEW t \in Word, t \notin {"/", ">"}, node.tag = t
  PROVE  /\ W!PrintOpen(node) \in Seq(Word)
         /\ Opening(node) \in Event
         /\ Shows(exact, "data", W!PrintOpen(node), <<Opening(node)>>, After(t))
<1> DEFINE B == BrowserAttr
           n == Len(attrs)
           texts == [k \in 1 .. n |-> W!PrintAttr(attrs[k])]
           read == [k \in 1 .. n |-> AsRead(attrs[k])]
           a == "<"
           c == ">"
           first == <<a, t>>
           last == <<c>>
           mid == FlattenSeq(texts)
           text == (first \o mid) \o last
           slash == "/"
<1>0. t # slash /\ t # c
  OBVIOUS
<1>1. a \in Word /\ c \in Word
  <2>1. a \in OwnWords /\ c \in OwnWords
    BY DEF OwnWords
  <2> QED BY <2>1, OwnAreWords
<1>2. n \in Nat /\ DOMAIN attrs = 1 .. n /\ attrs \in [1 .. n -> TreeAttr]
  OBVIOUS
<1>3. \A k \in 1 .. n : AttrTame(attrs[k])
  BY <1>2 DEF Tame
<1>4. exact => \A k \in 1 .. n : Quiet(attrs[k])
  BY <1>2 DEF Tame
<1>5. W!PrintOpen(node) = text
  <2>1. W!PrintOpen(node) = (first \o W!FlattenSeq(texts)) \o last
    BY <1>2, Zenon DEF W!PrintOpen
  <2> QED BY <2>1, SameFlatten, Zenon
<1>6. Opening(node) = <<"open", t, Kept(read)>>
  BY <1>2, Zenon DEF Opening, ShownAttrs, AsRead, Named
<1> HIDE DEF n
<1>7. read \in Seq(B)
  <2>1. \A k \in 1 .. n : AsRead(attrs[k]) \in B
    <3>1. ASSUME NEW k \in 1 .. n
          PROVE  AsRead(attrs[k]) \in B
      <4> DEFINE m == attrs[k].name
                 v == attrs[k].value
      <4>1. attrs[k] \in TreeAttr
        BY <1>2
      <4>2. m \in Word /\ v \in {<<>>} \cup [1 .. 1 -> Seq(Word)]
        BY <4>1 DEF TreeAttr, AttrName, AnyText, Word
      <4> HIDE DEF m, v
      <4>3. v \in Seq(Seq(Word))
        <5>1. CASE v = <<>>
          BY <5>1
        <5>2. CASE v \in [1 .. 1 -> Seq(Word)]
          BY <5>2, FunctionIsSeq
        <5> QED BY <4>2, <5>1, <5>2
      <4>4. <<m>> \in Seq(Word)
        BY <4>2
      <4> QED BY <4>3, <4>4 DEF BrowserAttr, AsRead, Named, m, v
    <3> QED BY <3>1
  <2>2. read \in [1 .. n -> B]
    BY <2>1
  <2> QED BY <1>2, <2>2, FunctionIsSeq
<1> HIDE DEF a, c, slash, text, read, texts
<1>8. ASSUME NEW l \in Seq(B)
      PROVE  <<"open", t, Kept(l)>> \in Event
  <2> DEFINE k == Kept(l)
             Attrs == Seq(BrowserAttr)
  <2>1. k \in Attrs
    BY KeptType
  <2> HIDE DEF k, Attrs
  <2>2. <<"open", t, k>> \in {"open"} \X Word \X Attrs
    BY <2>1
  <2> QED BY <2>2 DEF Event, k, Attrs
<1>9. first \in Seq(Word) /\ last \in Seq(Word) /\ mid \in Seq(Word)
  <2>1. mid \in Seq(Word)
    <3>1. \A seen : mid \in Seq(Word)
      BY <1>2, <1>3, ReadsAttrs DEF texts, AttrsText
    <3> QED BY <3>1
  <2> HIDE DEF mid
  <2> QED BY <1>1, <2>1
<1> HIDE DEF mid
<1>10. first \o mid \in Seq(Word) /\ text \in Seq(Word)
  BY <1>9 DEF text
<1>11. ASSUME NEW u, NEW seen
       PROVE  \E l \in Seq(B) :
                /\ ReadsTo(TextPage("data", u, seen), text,
                           TextPage(After(t), t, See(seen, <<"open", t, Kept(l)>>)))
                /\ exact => l = read
  <2> DEFINE s == DataPage(u, seen)
             s1 == AttrsPage(t, <<>>, seen)
  <2>1. TextPage("data", u, seen) = s
    BY DEF TextPage
  <2>2. Token(s, a) = TagPage(u, seen)
    BY DataToken DEF a
  <2>3. Token(TagPage(u, seen), t) = s1
    BY <1>0, TagToken DEF slash
  <2>4. PICK r : /\ ReadsTo(s1, mid, r)
                 /\ Opened(r, t, seen)
                 /\ (\A k \in 1 .. n : Quiet(attrs[k])) => r.attrs = read
    <3>1. \E r : /\ ReadsTo(NoneRead(t, seen), AttrsText(attrs, n), r)
                 /\ Opened(r, t, seen)
                 /\ (\A k \in 1 .. n : Quiet(attrs[k])) => r.attrs = AttrsRead(attrs, n)
      <4>1. n \in Nat /\ attrs \in [1 .. n -> TreeAttr] /\ \A k \in 1 .. n : AttrTame(attrs[k])
        BY <1>2, <1>3
      <4>2. AttrsGood(t, seen, attrs, n)
        BY <4>1, ReadsAttrs
      <4> QED BY <4>2, Zenon DEF AttrsGood
    <3> QED BY <3>1, Zenon DEF mid, texts, read, AttrsText, AttrsRead, NoneRead
  <2> DEFINE l == r.attrs
             x == <<"open", t, Kept(l)>>
  <2>5. l \in Seq(B) /\ Token(r, c) = AfterOpen(t, See(seen, x))
    BY <2>4, OpenedEnds DEF c
  <2>6. AfterOpen(t, See(seen, x)) = TextPage(After(t), t, See(seen, x))
    <3> DEFINE y == See(seen, x)
    <3> HIDE DEF y
    <3>1. AfterOpen(t, y) = TextPage(After(t), t, y)
      BY DEF AfterOpen, After, TextPage
    <3> QED BY <3>1 DEF y
  <2> HIDE DEF s, s1, l, x
  <2>7. ReadsTo(s, first, s1)
    <3>1. ReadsTo(s, <<a, t>>, Token(Token(s, a), t))
      BY <1>1, ReadsTwo
    <3> QED BY <2>2, <2>3, <3>1, Zenon
  <2> HIDE DEF first
  <2>8. ReadsTo(s, first \o mid, r)
    BY <1>9, <2>4, <2>7, ReadsBoth
  <2>9. ReadsTo(r, last, Token(r, c))
    BY ReadsOne
  <2> HIDE DEF last
  <2>10. ReadsTo(s, (first \o mid) \o last, Token(r, c))
    BY <1>9, <1>10, <2>8, <2>9, ReadsBoth
  <2>11. exact => l = read
    BY <1>4, <2>4 DEF l
  <2>12. ReadsTo(TextPage("data", u, seen), text, TextPage(After(t), t, See(seen, <<"open", t, Kept(l)>>)))
    BY <2>1, <2>5, <2>6, <2>10, Zenon DEF text, x
  <2> QED BY <2>5, <2>11, <2>12
<1> DEFINE o == <<"open", t, Kept(read)>>
           m == After(t)
           data == "data"
<1> HIDE DEF m, data
<1>12. Shows(exact, data, text, <<o>>, m)
  <2> SUFFICES ASSUME NEW u, NEW e \in Seq(Event)
               PROVE  \E v : \E d \in Seq(Event) :
                        /\ ReadsTo(TextPage(data, u, Collapsed(e)), text, TextPage(m, v, Collapsed(e \o d)))
                        /\ Alike(exact, d, <<o>>)
    BY DEF Shows
  <2>1. PICK l \in Seq(B) :
          /\ ReadsTo(TextPage(data, u, Collapsed(e)), text,
                     TextPage(m, t, See(Collapsed(e), <<"open", t, Kept(l)>>)))
          /\ exact => l = read
    BY <1>11 DEF data, m
  <2> DEFINE x == <<"open", t, Kept(l)>>
             d == <<x>>
  <2>2. x \in Event /\ o \in Event
    BY <1>7, <1>8
  <2>3. NoAttr(x) = NoAttr(o)
    BY DEF NoAttr
  <2>4. exact => x = o
    BY <2>1
  <2> HIDE DEF x, o
  <2>5. d \in Seq(Event) /\ Append(e, x) = e \o d
    BY <2>2, AppendIsConcat
  <2>6. Collapsed(e \o d) = See(Collapsed(e), x)
    <3>1. Collapsed(Append(e, x)) = See(Collapsed(e), x)
      BY <2>2, CollapsedMore
    <3> QED BY <2>5, <3>1, Zenon
  <2>7. Alike(exact, d, <<o>>)
    <3>1. CASE exact
      BY <2>4, <3>1 DEF Alike
    <3>2. CASE ~ exact
      <4>1. \A y \in Event : NoAttrs(<<y>>) = <<NoAttr(y)>>
        <5>1. ASSUME NEW y \in Event
              PROVE  NoAttrs(<<y>>) = <<NoAttr(y)>>
          <6> DEFINE none == <<>>
          <6>1. none \in Seq(Event) /\ NoAttrs(none) = none
            BY DEF NoAttrs
          <6>2. Append(none, y) = <<y>> /\ Append(none, NoAttr(y)) = <<NoAttr(y)>>
            OBVIOUS
          <6> HIDE DEF none
          <6>3. NoAttrs(Append(none, y)) = Append(NoAttrs(none), NoAttr(y))
            BY <6>1, NoAttrsMore
          <6> QED BY <6>1, <6>2, <6>3, Zenon
        <5> QED BY <5>1
      <4>2. NoAttrs(d) = NoAttrs(<<o>>)
        BY <2>2, <2>3, <4>1, Zenon
      <4> QED BY <3>2, <4>2 DEF Alike
    <3> QED BY <3>1, <3>2
  <2> HIDE DEF d
  <2>8. ReadsTo(TextPage(data, u, Collapsed(e)), text, TextPage(m, t, Collapsed(e \o d)))
    BY <2>1, <2>6, Zenon DEF x
  <2> QED BY <2>5, <2>7, <2>8, Zenon
<1>13. Opening(node) \in Event
  BY <1>6, <1>7, <1>8, Zenon
<1> QED BY <1>5, <1>6, <1>10, <1>12, <1>13, Zenon DEF o, m, data

\* A level is flow style, or the column of a line.
IsLevel(lvl) == lvl = FLOW_STYLE \/ (lvl \in Nat /\ lvl > 0 /\ lvl + 2 < FLOW_STYLE)

\* The lines of a source are indented at every level.
LEMMA SourceIndent ==
  ASSUME NEW lvl, IsLevel(lvl)
  PROVE  lvl # 0 /\ W!Indent(W!Plus2(lvl)) = <<"indent">>
<1>1. FLOW_STYLE \in Nat /\ FLOW_STYLE > 12
  BY StackAssumption DEF RowLevel
<1>2. \A a, b \in Nat : a < b => a % b = a
  OBVIOUS
<1>3. CASE lvl = FLOW_STYLE
  <2>1. (FLOW_STYLE + 2) % (FLOW_STYLE + 1) = 1
    BY <1>1
  <2>2. W!Plus2(lvl) = 1
    BY <1>3, <2>1 DEF W!Plus2
  <2> QED BY <1>1, <1>3, <2>2 DEF W!Indent
<1>4. CASE lvl # FLOW_STYLE
  <2>1. lvl \in Nat /\ lvl > 0 /\ lvl + 2 < FLOW_STYLE
    BY <1>4 DEF IsLevel
  <2>2. W!Plus2(lvl) = lvl + 2
    BY <1>1, <1>2, <2>1 DEF W!Plus2
  <2>3. lvl + 2 \notin {0, FLOW_STYLE}
    BY <1>1, <2>1
  <2> QED BY <2>1, <2>2, <2>3 DEF W!Indent
<1> QED BY <1>3, <1>4

-----------------------------------------------------------------------------
(* What a script shows.                                                    *)

\* In a script, exactly these events are seen next.
RawShows(text, d) ==
  \A t : \A e \in Seq(Event) :
    ReadsTo(RawPage(t, Collapsed(e)), text, RawPage(t, Collapsed(e \o d)))

\* Events that cannot be told apart where blanks in a row are one.
SameSeen(d, f) == \A e \in Seq(Event) : Collapsed(e \o d) = Collapsed(e \o f)

\* What is seen exactly is shown.
LEMMA RawIsShown ==
  ASSUME NEW exact, NEW text, NEW d \in Seq(Event), RawShows(text, d)
  PROVE  Shows(exact, "raw", text, d, "raw")
<1>1. \A u, seen : TextPage("raw", u, seen) = RawPage(u, seen)
  BY DEF TextPage
<1>2. Alike(exact, d, d)
  BY DEF Alike
<1> DEFINE m == "raw"
<1> HIDE DEF m
<1>3. \A u : \A f \in Seq(Event) : ReadsTo(TextPage(m, u, Collapsed(f)), text, TextPage(m, u, Collapsed(f \o d)))
  BY <1>1 DEF m, RawShows
<1>4. Shows(exact, m, text, d, m)
  BY <1>2, <1>3, Zenon DEF Shows
<1> QED BY <1>4 DEF m

\* In a script every character but < is seen at once.
LEMMA RawChar ==
  ASSUME NEW c \in Word, c # "<"
  PROVE  RawShows(<<c>>, <<CharEvent(c)>>)
<1> DEFINE x == CharEvent(c)
<1>1. x \in Event
  BY CharEventType
<1>2. \A t, seen : Token(RawPage(t, seen), c) = RawPage(t, See(seen, x))
  BY RawToken
<1> HIDE DEF x
<1> SUFFICES ASSUME NEW t, NEW e \in Seq(Event)
             PROVE  ReadsTo(RawPage(t, Collapsed(e)), <<c>>, RawPage(t, Collapsed(e \o <<x>>)))
  BY DEF RawShows, x
<1>3. e \o <<x>> = Append(e, x)
  BY <1>1, AppendIsConcat
<1>4. Collapsed(Append(e, x)) = See(Collapsed(e), x)
  BY <1>1, CollapsedMore
<1>5. ReadsTo(RawPage(t, Collapsed(e)), <<c>>, Token(RawPage(t, Collapsed(e)), c))
  BY ReadsOne
<1> QED BY <1>2, <1>3, <1>4, <1>5, Zenon

\* One text after another.
LEMMA RawBoth ==
  ASSUME NEW a \in Seq(Word), NEW b \in Seq(Word), NEW d \in Seq(Event), NEW f \in Seq(Event),
         RawShows(a, d), RawShows(b, f)
  PROVE  a \o b \in Seq(Word) /\ d \o f \in Seq(Event) /\ RawShows(a \o b, d \o f)
<1>1. a \o b \in Seq(Word) /\ d \o f \in Seq(Event)
  OBVIOUS
<1>2. ASSUME NEW t, NEW e \in Seq(Event)
      PROVE  ReadsTo(RawPage(t, Collapsed(e)), a \o b, RawPage(t, Collapsed(e \o (d \o f))))
  <2> DEFINE g == e \o d
  <2>1. g \in Seq(Event)
    OBVIOUS
  <2>2. ReadsTo(RawPage(t, Collapsed(e)), a, RawPage(t, Collapsed(g)))
    BY DEF RawShows
  <2> HIDE DEF g
  <2>3. ReadsTo(RawPage(t, Collapsed(g)), b, RawPage(t, Collapsed(g \o f)))
    BY <2>1 DEF RawShows
  <2>4. ReadsTo(RawPage(t, Collapsed(e)), a \o b, RawPage(t, Collapsed(g \o f)))
    BY <2>2, <2>3, ReadsBoth
  <2>5. g \o f = e \o (d \o f)
    BY Associative DEF g, ConcatAssociates
  <2> QED BY <2>4, <2>5, Zenon
<1> QED BY <1>1, <1>2 DEF RawShows

\* What cannot be told apart is shown by the same texts.
LEMMA RawSame ==
  ASSUME NEW text, NEW d, NEW f, RawShows(text, d), SameSeen(d, f)
  PROVE  RawShows(text, f)
<1> SUFFICES ASSUME NEW t, NEW e \in Seq(Event)
             PROVE  ReadsTo(RawPage(t, Collapsed(e)), text, RawPage(t, Collapsed(e \o f)))
  BY DEF RawShows
<1>1. ReadsTo(RawPage(t, Collapsed(e)), text, RawPage(t, Collapsed(e \o d)))
  BY Zenon DEF RawShows
<1>2. Collapsed(e \o d) = Collapsed(e \o f)
  BY DEF SameSeen
<1> QED BY <1>1, <1>2, Zenon

\* What is seen next depends on what can be seen alone.
LEMMA SeenNext ==
  ASSUME NEW a \in Seq(Event), NEW b \in Seq(Event), Collapsed(a) = Collapsed(b), NEW d \in Seq(Event)
  PROVE  Collapsed(a \o d) = Collapsed(b \o d)
<1> DEFINE n == Len(d)
           part(k) == SubSeq(d, 1, k)
           T == {k \in Nat : Collapsed(a \o part(k)) = Collapsed(b \o part(k))}
<1>1. n \in Nat
  OBVIOUS
<1>2. 0 \in T
  <2>1. part(0) = <<>>
    OBVIOUS
  <2>2. a \o <<>> = a /\ b \o <<>> = b
    OBVIOUS
  <2> HIDE DEF part
  <2>3. Collapsed(a \o part(0)) = Collapsed(b \o part(0))
    BY <2>1, <2>2, Zenon
  <2> QED BY <2>3
<1>3. ASSUME NEW k \in 0 .. n - 1, k \in T
      PROVE  k + 1 \in T
  <2>1. k \in Nat /\ k + 1 \in 1 .. n
    BY <1>1
  <2> DEFINE x == d[k + 1]
             p == part(k)
  <2>2. x \in Event /\ p \in Seq(Event)
    BY <2>1
  <2>3. part(k + 1) = Append(p, x)
    <3>1. \A m \in 1 .. Len(d) : SubSeq(d, 1, m) = Append(SubSeq(d, 1, m - 1), d[m])
      BY SubSeqRecursiveSecond
    <3>2. (k + 1) - 1 = k
      BY <2>1
    <3> QED BY <2>1, <3>1, <3>2
  <2>4. Collapsed(a \o p) = Collapsed(b \o p)
    BY <1>3
  <2> HIDE DEF x, p, part, n
  <2>5. ASSUME NEW c \in Seq(Event)
        PROVE  Collapsed(c \o Append(p, x)) = See(Collapsed(c \o p), x)
    <3>1. c \o Append(p, x) = Append(c \o p, x) /\ c \o p \in Seq(Event)
      BY <2>2, SMTT(30)
    <3> QED BY <2>2, <3>1, CollapsedMore
  <2>6. Collapsed(a \o Append(p, x)) = Collapsed(b \o Append(p, x))
    BY <2>4, <2>5, Zenon
  <2>7. Collapsed(a \o part(k + 1)) = Collapsed(b \o part(k + 1))
    BY <2>3, <2>6, Zenon
  <2> QED BY <2>1, <2>7
<1>4. n \in T
  <2> HIDE DEF T
  <2>1. \A k \in 0 .. n : k \in T
    BY <1>1, <1>2, <1>3, InductionUpTo
  <2> QED BY <1>1, <2>1
<1>5. part(n) = d
  OBVIOUS
<1>6. Collapsed(a \o part(n)) = Collapsed(b \o part(n))
  BY <1>4
<1> HIDE DEF part, n
<1> QED BY <1>5, <1>6, Zenon

\* The same before it, and the same after it.
LEMMA SameAround ==
  ASSUME NEW d \in Seq(Event), NEW f \in Seq(Event), SameSeen(d, f), NEW a \in Seq(Event)
  PROVE  SameSeen(a \o d, a \o f) /\ SameSeen(d \o a, f \o a)
<1>1. ConcatAssociates(Event)
  BY Associative
<1>2. ASSUME NEW e \in Seq(Event)
      PROVE  Collapsed(e \o (a \o d)) = Collapsed(e \o (a \o f))
  <2>1. e \o a \in Seq(Event)
    OBVIOUS
  <2>2. Collapsed((e \o a) \o d) = Collapsed((e \o a) \o f)
    BY <2>1, Zenon DEF SameSeen
  <2> QED BY <1>1, <2>2, Zenon DEF ConcatAssociates
<1>3. ASSUME NEW e \in Seq(Event)
      PROVE  Collapsed(e \o (d \o a)) = Collapsed(e \o (f \o a))
  <2>1. e \o d \in Seq(Event) /\ e \o f \in Seq(Event)
    OBVIOUS
  <2>2. Collapsed(e \o d) = Collapsed(e \o f)
    BY Zenon DEF SameSeen
  <2>3. Collapsed((e \o d) \o a) = Collapsed((e \o f) \o a)
    BY <2>1, <2>2, SeenNext, Zenon
  <2> QED BY <1>1, <2>3, Zenon DEF ConcatAssociates
<1> QED BY <1>2, <1>3 DEF SameSeen

ABlank == <<BlankEvent>>

\* Blanks after a blank are none.
LEMMA BlanksVanish ==
  ASSUME NEW d \in Seq({BlankEvent})
  PROVE  d \in Seq(Event) /\ ABlank \in Seq(Event) /\ SameSeen(ABlank \o d, ABlank)
<1> DEFINE x == BlankEvent
           n == Len(d)
           part(k) == SubSeq(d, 1, k)
<1>1. x \in Event
  BY DEF BlankEvent, Event
<1>2. \A seen \in Seq(Event) : See(See(seen, x), x) = See(seen, x)
  <2> SUFFICES ASSUME NEW seen \in Seq(Event) PROVE See(See(seen, x), x) = See(seen, x)
    OBVIOUS
  <2>1. CASE seen # <<>> /\ Last(seen) = x
    BY <2>1 DEF See, BlankEvent
  <2>2. CASE ~ (seen # <<>> /\ Last(seen) = x)
    <3>1. See(seen, x) = Append(seen, x)
      BY <2>2 DEF See, BlankEvent
    <3> DEFINE s == Append(seen, x)
    <3>2. s # <<>> /\ Last(s) = x
      <4> HIDE DEF x
      <4> QED BY <1>1 DEF Last
    <3> HIDE DEF s
    <3>3. See(s, x) = s
      BY <3>2 DEF See, BlankEvent
    <3> QED BY <3>1, <3>3, Zenon DEF s
  <2> QED BY <2>1, <2>2
<1> HIDE DEF x
<1>3. ABlank = <<x>>
  BY DEF ABlank, x
<1>4. n \in Nat /\ \A k \in 1 .. n : d[k] = x
  BY DEF x
<1>5. d \in Seq(Event) /\ ABlank \in Seq(Event)
  BY <1>1, <1>3 DEF x
<1>6. ASSUME NEW e \in Seq(Event)
      PROVE  Collapsed(e \o (ABlank \o d)) = Collapsed(e \o ABlank)
  <2> DEFINE b == e \o ABlank
             T == {k \in Nat : Collapsed(b \o part(k)) = Collapsed(b)}
  <2>1. b \in Seq(Event)
    BY <1>5
  <2>2. See(Collapsed(b), x) = Collapsed(b)
    <3>1. b = Append(e, x)
      BY <1>1, <1>3, AppendIsConcat
    <3>2. Collapsed(b) = See(Collapsed(e), x) /\ Collapsed(e) \in Seq(Event)
      BY <1>1, <3>1, CollapsedMore, CollapsedGrows
    <3> HIDE DEF b
    <3> QED BY <1>2, <3>2, Zenon
  <2>3. 0 \in T
    <3>1. part(0) = <<>> /\ b \o <<>> = b
      BY <2>1
    <3> HIDE DEF part, b
    <3>2. Collapsed(b \o part(0)) = Collapsed(b)
      BY <3>1, Zenon
    <3> QED BY <3>2
  <2>4. ASSUME NEW k \in 0 .. n - 1, k \in T
        PROVE  k + 1 \in T
    <3>1. k \in Nat /\ k + 1 \in 1 .. n /\ (k + 1) - 1 = k
      BY <1>4
    <3> DEFINE p == part(k)
    <3>2. p \in Seq(Event)
      BY <1>5, <3>1
    <3>3. part(k + 1) = Append(p, x)
      <4>1. \A m \in 1 .. Len(d) : SubSeq(d, 1, m) = Append(SubSeq(d, 1, m - 1), d[m])
        BY SubSeqRecursiveSecond
      <4> QED BY <1>4, <3>1, <4>1
    <3>4. Collapsed(b \o p) = Collapsed(b)
      BY <2>4
    <3> HIDE DEF p, part, b, n
    <3>5. b \o Append(p, x) = Append(b \o p, x) /\ b \o p \in Seq(Event)
      BY <1>1, <2>1, <3>2, SMTT(30)
    <3>6. Collapsed(Append(b \o p, x)) = See(Collapsed(b \o p), x)
      BY <1>1, <3>5, CollapsedMore
    <3>7. Collapsed(b \o part(k + 1)) = Collapsed(b)
      BY <2>2, <3>3, <3>4, <3>5, <3>6, Zenon
    <3> QED BY <3>1, <3>7
  <2>5. n \in T
    <3> HIDE DEF T
    <3>1. \A k \in 0 .. n : k \in T
      BY <1>4, <2>3, <2>4, InductionUpTo
    <3> QED BY <1>4, <3>1
  <2>6. part(n) = d
    OBVIOUS
  <2>7. Collapsed(b \o part(n)) = Collapsed(b)
    BY <2>5
  <2> HIDE DEF part, n
  <2>8. Collapsed(b \o d) = Collapsed(b)
    BY <2>6, <2>7, Zenon
  <2>9. e \o (ABlank \o d) = b \o d
    BY <1>5, Associative DEF ConcatAssociates
  <2> QED BY <2>8, <2>9, Zenon
<1> QED BY <1>5, <1>6 DEF SameSeen

EndsBlank(d) == d = <<>> \/ \E g \in Seq(Event) : d = g \o ABlank

\* What has a blank before it and at its end has no need of another.
LEMMA BlankAtEnd ==
  ASSUME NEW d \in Seq(Event), EndsBlank(d)
  PROVE  SameSeen((ABlank \o d) \o ABlank, ABlank \o d)
<1>1. ABlank \in Seq({BlankEvent})
  BY DEF ABlank
<1>2. ABlank \in Seq(Event) /\ SameSeen(ABlank \o ABlank, ABlank)
  BY <1>1, BlanksVanish
<1>3. ConcatAssociates(Event)
  BY Associative
<1>4. CASE d = <<>>
  <2>1. ABlank \o d = ABlank
    BY <1>2, <1>4
  <2> QED BY <1>2, <2>1, Zenon
<1>5. ASSUME NEW g \in Seq(Event), d = g \o ABlank
      PROVE  SameSeen((ABlank \o d) \o ABlank, ABlank \o d)
  <2> DEFINE f == ABlank \o g
             two == ABlank \o ABlank
  <2>1. f \in Seq(Event) /\ two \in Seq(Event)
    BY <1>2
  <2>2. SameSeen(f \o two, f \o ABlank)
    BY <1>2, <2>1, SameAround
  <2>3. ABlank \o d = f \o ABlank
    BY <1>2, <1>3, <1>5, Zenon DEF ConcatAssociates
  <2>4. (ABlank \o d) \o ABlank = f \o two
    <3> HIDE DEF f
    <3>1. (f \o ABlank) \o ABlank = f \o (ABlank \o ABlank)
      BY <1>2, <2>1, Associative DEF ConcatAssociates
    <3> QED BY <2>3, <3>1, Zenon
  <2> QED BY <2>2, <2>3, <2>4, Zenon
<1> QED BY <1>4, <1>5 DEF EndsBlank

\* Of two in a row, the second.
LEMMA EndsBlankBoth ==
  ASSUME NEW d \in Seq(Event), NEW f \in Seq(Event), EndsBlank(d), EndsBlank(f)
  PROVE  EndsBlank(d \o f)
<1>1. CASE f = <<>>
  BY <1>1
<1>2. ASSUME NEW g \in Seq(Event), f = g \o ABlank
      PROVE  EndsBlank(d \o f)
  <2>1. ABlank \in Seq(Event)
    BY DEF ABlank, BlankEvent, Event
  <2>2. d \o f = (d \o g) \o ABlank
    BY <1>2, <2>1, Associative DEF ConcatAssociates
  <2>3. d \o g \in Seq(Event)
    OBVIOUS
  <2> QED BY <2>2, <2>3 DEF EndsBlank
<1> QED BY <1>1, <1>2 DEF EndsBlank

\* Lines that each show something behind a blank, one after another.
LEMMA RawLines ==
  ASSUME NEW n \in Nat \ {0}, NEW f \in [1 .. n -> Seq(Word)], NEW g \in [1 .. n -> Seq(Event)],
         \A k \in 1 .. n : EndsBlank(g[k]) /\ RawShows(f[k], ABlank \o g[k])
  PROVE  /\ FlattenSeq(f) \in Seq(Word) /\ FlattenSeq(g) \in Seq(Event)
         /\ RawShows(FlattenSeq(f), ABlank \o FlattenSeq(g))
<1> DEFINE F(i) == [k \in 1 .. i |-> f[k]]
           G(i) == [k \in 1 .. i |-> g[k]]
           Is(a, d) == /\ a \in Seq(Word) /\ d \in Seq(Event) /\ EndsBlank(d)
                       /\ RawShows(a, ABlank \o d)
           T == {i \in Nat : i > 0 => Is(FlattenSeq(F(i)), FlattenSeq(G(i)))}
<1>0. ABlank \in Seq(Event)
  BY DEF ABlank, BlankEvent, Event
<1>1. 0 \in T
  OBVIOUS
<1>2. ASSUME NEW i \in 0 .. n - 1, i \in T
      PROVE  i + 1 \in T
  <2>1. i \in Nat /\ i + 1 \in 1 .. n
    OBVIOUS
  <2>2. F(i) \in [1 .. i -> Seq(Word)] /\ F(i + 1) \in [1 .. i + 1 -> Seq(Word)]
        /\ G(i) \in [1 .. i -> Seq(Event)] /\ G(i + 1) \in [1 .. i + 1 -> Seq(Event)]
    BY <2>1
  <2>3. [k \in 1 .. i |-> F(i + 1)[k]] = F(i) /\ F(i + 1)[i + 1] = f[i + 1]
    BY <2>1
  <2>4. [k \in 1 .. i |-> G(i + 1)[k]] = G(i) /\ G(i + 1)[i + 1] = g[i + 1]
    BY <2>1
  <2>a. i = 0 => F(i) = <<>> /\ G(i) = <<>>
    OBVIOUS
  <2> HIDE DEF F, G
  <2>5. FlattenSeq(F(i + 1)) = FlattenSeq(F(i)) \o f[i + 1]
    <3>1. FlattenSeq(F(i + 1)) = FlattenSeq([k \in 1 .. i |-> F(i + 1)[k]]) \o F(i + 1)[i + 1]
      BY <2>1, <2>2, FlattenGrows
    <3> QED BY <2>3, <3>1, Zenon
  <2>6. FlattenSeq(G(i + 1)) = FlattenSeq(G(i)) \o g[i + 1]
    <3>1. FlattenSeq(G(i + 1)) = FlattenSeq([k \in 1 .. i |-> G(i + 1)[k]]) \o G(i + 1)[i + 1]
      BY <2>1, <2>2, FlattenGrows
    <3> QED BY <2>4, <3>1, Zenon
  <2> DEFINE a == FlattenSeq(F(i))
             d == FlattenSeq(G(i))
             b == f[i + 1]
             h == g[i + 1]
  <2>7. b \in Seq(Word) /\ h \in Seq(Event) /\ EndsBlank(h) /\ RawShows(b, ABlank \o h)
    BY <2>1
  <2>8. Is(a \o b, d \o h)
    <3>1. CASE i = 0
      <4>1. a = <<>> /\ d = <<>>
        BY <2>a, <3>1, FlattenEmpty, Zenon
      <4> HIDE DEF a, d, b, h
      <4>2. a \o b = b /\ d \o h = h
        BY <2>7, <4>1
      <4> QED BY <2>7, <4>2, Zenon
    <3>2. CASE i # 0
      <4>1. i > 0
        BY <2>1, <3>2
      <4>2. Is(a, d)
        BY <1>2, <4>1
      <4> HIDE DEF a, d, b, h
      <4>3. EndsBlank(d \o h) /\ a \o b \in Seq(Word) /\ d \o h \in Seq(Event)
        BY <2>7, <4>2, EndsBlankBoth
      <4>4. /\ ABlank \o d \in Seq(Event) /\ ABlank \o h \in Seq(Event)
            /\ (ABlank \o d) \o ABlank \in Seq(Event)
        BY <1>0, <2>7, <4>2
      <4>5. RawShows(a \o b, (ABlank \o d) \o (ABlank \o h))
        BY <2>7, <4>2, <4>4, RawBoth
      <4>6. SameSeen(((ABlank \o d) \o ABlank) \o h, (ABlank \o d) \o h)
        <5>1. SameSeen((ABlank \o d) \o ABlank, ABlank \o d)
          BY <4>2, BlankAtEnd
        <5> QED BY <2>7, <4>4, <5>1, SameAround
      <4>7. /\ (ABlank \o d) \o (ABlank \o h) = ((ABlank \o d) \o ABlank) \o h
            /\ (ABlank \o d) \o h = ABlank \o (d \o h)
        <5> DEFINE w == ABlank \o d
        <5>1. d \in Seq(Event) /\ h \in Seq(Event) /\ w \in Seq(Event)
          BY <2>7, <4>2, <4>4
        <5>2. \A x, y, z \in Seq(Event) : (x \o y) \o z = x \o (y \o z)
          <6>1. ConcatAssociates(Event)
            BY Associative
          <6> QED BY <6>1, Zenon DEF ConcatAssociates
        <5>3. (ABlank \o d) \o h = ABlank \o (d \o h)
          BY <1>0, <5>1, <5>2, Zenon
        <5> HIDE DEF w
        <5>4. (w \o ABlank) \o h = w \o (ABlank \o h)
          BY <1>0, <5>1, <5>2, Zenon
        <5> QED BY <5>3, <5>4, Zenon DEF w
      <4>8. RawShows(a \o b, ABlank \o (d \o h))
        BY <4>5, <4>6, <4>7, RawSame, Zenon
      <4> QED BY <4>3, <4>8
    <3> QED BY <3>1, <3>2
  <2> HIDE DEF Is
  <2>9. Is(FlattenSeq(F(i + 1)), FlattenSeq(G(i + 1)))
    BY <2>5, <2>6, <2>8, Zenon
  <2> QED BY <2>1, <2>9
<1>3. F(n) = f /\ G(n) = g
  OBVIOUS
<1> HIDE DEF F, G, T
<1>4. n \in T
  <2>1. \A i \in 0 .. n : i \in T
    BY <1>1, <1>2, InductionUpTo
  <2> QED BY <2>1
<1>5. Is(FlattenSeq(F(n)), FlattenSeq(G(n)))
  <2> HIDE DEF Is
  <2> QED BY <1>4 DEF T
<1> QED BY <1>3, <1>5, Zenon

\* A line of a script is seen as it is, with the line break after it.
LEMMA RawLine ==
  ASSUME NEW txt \in Unclosed
  PROVE  /\ txt \in Seq(Word)
         /\ RawShows(txt \o <<"\n">>, Chars(txt) \o ABlank)
<1> DEFINE n == Len(txt)
           c == Chars(txt)
           nl == "\n"
           blank == <<BlankEvent>>
           d == c \o blank
           lt == "<"
           slash == "/"
<1>1. /\ txt \in Seq(Word) /\ n \in Nat
      /\ \A k \in 1 .. n : txt[k] \in Word
      /\ \A k \in 1 .. n - 1 : txt[k] = lt => txt[k + 1] # slash
  BY DEF Unclosed, AnyText, Word
<1>2. c \in Seq(Event) /\ Len(c) = n /\ \A k \in 1 .. n : c[k] = CharEvent(txt[k]) /\ c[k] \in Event
  <2>1. c = [k \in 1 .. n |-> CharEvent(txt[k])] /\ c \in Seq(Event) /\ Len(c) = n
    BY <1>1, CharsType
  <2>2. \A k \in 1 .. n : CharEvent(txt[k]) \in Event
    BY <1>1, CharEventType
  <2> HIDE DEF c
  <2> QED BY <2>1, <2>2
<1>3. nl \in Word
  <2>1. nl \in OwnWords
    BY DEF OwnWords
  <2> QED BY <2>1, OwnAreWords
<1>4. nl # lt /\ nl # slash /\ CharEvent(nl) = BlankEvent /\ BlankEvent \in Event /\ lt # slash
  BY DEF CharEvent, Blank, BlankEvent, Event
<1>5. ASSUME NEW t, NEW seen, NEW b
      PROVE  /\ Token(RawPage(t, seen), lt) = RawTagPage(t, seen)
             /\ b # lt => Token(RawPage(t, seen), b) = RawPage(t, See(seen, CharEvent(b)))
             /\ b # slash => Token(RawTagPage(t, seen), b) = Token(RawPage(t, See(seen, CharEvent(lt))), b)
  BY RawToken
<1> HIDE DEF n, c, lt, slash, nl
<1> SUFFICES ASSUME NEW t, NEW e \in Seq(Event)
             PROVE  ReadsTo(RawPage(t, Collapsed(e)), txt \o <<nl>>, RawPage(t, Collapsed(e \o d)))
  <2>1. RawShows(txt \o <<nl>>, d)
    BY Zenon DEF RawShows
  <2>2. d = c \o ABlank
    BY Zenon DEF ABlank
  <2> HIDE DEF d
  <2> QED BY <1>1, <2>1, <2>2, Zenon DEF c, nl
<1> DEFINE V(k) == Collapsed(e \o SubSeq(c, 1, k))
           part(k) == SubSeq(txt, 1, k)
           s0 == RawPage(t, Collapsed(e))
           \* the browser reads on as if all had been seen
           Is(k) == \E s : /\ ReadsTo(s0, part(k), s)
                           /\ \A a : (a = slash => ~ (k \in 1 .. n /\ txt[k] = lt))
                                       => Token(s, a) = Token(RawPage(t, V(k)), a)
           T == {k \in Nat : Is(k)}
<1>6. 0 \in T
  <2>1. part(0) = <<>> /\ V(0) = Collapsed(e)
    <3>1. SubSeq(c, 1, 0) = <<>> /\ e \o <<>> = e
      BY <1>2
    <3>2. V(0) = Collapsed(e)
      BY <3>1, Zenon
    <3>3. part(0) = <<>>
      BY <1>1
    <3> QED BY <3>2, <3>3
  <2> HIDE DEF part, V
  <2>2. Is(0)
    BY <2>1, ReadsNothing, Zenon
  <2> QED BY <2>2
<1>7. \A k \in 0 .. n - 1 : V(k + 1) = See(V(k), CharEvent(txt[k + 1]))
  <2>1. ASSUME NEW k \in 0 .. n - 1
        PROVE  V(k + 1) = See(V(k), CharEvent(txt[k + 1]))
    <3>1. k + 1 \in 1 .. n /\ (k + 1) - 1 = k
      BY <1>1
    <3> DEFINE p == SubSeq(c, 1, k)
               x == c[k + 1]
    <3>2. SubSeq(c, 1, k + 1) = Append(p, x)
      <4>1. \A m \in 1 .. Len(c) : SubSeq(c, 1, m) = Append(SubSeq(c, 1, m - 1), c[m])
        BY <1>2, SubSeqRecursiveSecond
      <4>2. k + 1 \in 1 .. Len(c)
        BY <1>2, <3>1
      <4>3. SubSeq(c, 1, k + 1) = Append(SubSeq(c, 1, (k + 1) - 1), c[k + 1])
        BY <4>1, <4>2
      <4> QED BY <3>1, <4>3
    <3>3. p \in Seq(Event) /\ x \in Event /\ x = CharEvent(txt[k + 1])
      BY <1>1, <1>2, <3>1
    <3> HIDE DEF p, x
    <3>4. e \o Append(p, x) = Append(e \o p, x) /\ e \o p \in Seq(Event)
      <4> DEFINE y == <<x>>
      <4>1. y \in Seq(Event) /\ e \o p \in Seq(Event)
        BY <3>3
      <4>2. Append(p, x) = p \o y /\ Append(e \o p, x) = (e \o p) \o y
        BY <3>3, <4>1, AppendIsConcat
      <4>3. (e \o p) \o y = e \o (p \o y)
        BY <3>3, <4>1, ConcatAssociative, SMTT(30)
      <4> QED BY <4>1, <4>2, <4>3, SMTT(30)
    <3>5. Collapsed(Append(e \o p, x)) = See(Collapsed(e \o p), x)
      BY <3>3, <3>4, CollapsedMore
    <3> QED BY <3>2, <3>3, <3>4, <3>5, Zenon DEF p
  <2> QED BY <2>1
<1>8. ASSUME NEW k \in 0 .. n - 1, k \in T
      PROVE  k + 1 \in T
  <2>1. k \in Nat /\ k + 1 \in Nat /\ k + 1 \in 1 .. n /\ txt[k + 1] \in Word
    BY <1>1
  <2> DEFINE a == txt[k + 1]
             ce == CharEvent(a)
  <2>2. part(k) \in Seq(Word) /\ part(k + 1) = Append(part(k), a)
    <3>1. \A m \in 1 .. n : SubSeq(txt, 1, m) = Append(SubSeq(txt, 1, m - 1), txt[m])
      BY <1>1, SubSeqRecursiveSecond DEF n
    <3>2. part(k + 1) = Append(SubSeq(txt, 1, (k + 1) - 1), a) /\ (k + 1) - 1 = k
      BY <2>1, <3>1
    <3> QED BY <1>1, <2>1, <3>2
  <2>3. PICK s : /\ ReadsTo(s0, part(k), s)
                 /\ \A b : (b = slash => ~ (k \in 1 .. n /\ txt[k] = lt))
                             => Token(s, b) = Token(RawPage(t, V(k)), b)
    BY <1>8
  <2>4. V(k + 1) = See(V(k), ce)
    BY <1>7
  <2>5. a = slash => ~ (k \in 1 .. n /\ txt[k] = lt)
    BY <1>1
  <2> HIDE DEF part, V, s0, a
  <2>6. ReadsTo(s0, part(k + 1), Token(s, a))
    <3>1. a \in Word
      BY <2>1 DEF a
    <3>2. ReadsTo(s0, Append(part(k), a), Token(s, a))
      BY <2>2, <2>3, <3>1, ReadsMore
    <3> QED BY <2>2, <3>2, Zenon
  <2>7. Token(s, a) = Token(RawPage(t, V(k)), a)
    BY <2>3, <2>5
  <2>8. ASSUME NEW b, b = slash => ~ (k + 1 \in 1 .. n /\ txt[k + 1] = lt)
        PROVE  Token(Token(s, a), b) = Token(RawPage(t, V(k + 1)), b)
    <3>1. CASE a = lt
      <4>1. Token(s, a) = RawTagPage(t, V(k))
        BY <1>5, <2>7, <3>1, Zenon
      <4>2. b # slash
        BY <2>1, <2>8, <3>1 DEF a
      <4>3. Token(RawTagPage(t, V(k)), b) = Token(RawPage(t, See(V(k), CharEvent(lt))), b)
        <5> DEFINE v == V(k)
        <5> HIDE DEF v
        <5>1. Token(RawTagPage(t, v), b) = Token(RawPage(t, See(v, CharEvent(lt))), b)
          BY <1>5, <4>2
        <5> QED BY <5>1 DEF v
      <4> QED BY <2>4, <3>1, <4>1, <4>3, Zenon
    <3>2. CASE a # lt
      <4>1. Token(s, a) = RawPage(t, See(V(k), ce))
        <5> DEFINE v == V(k)
        <5> HIDE DEF v
        <5>1. Token(RawPage(t, v), a) = RawPage(t, See(v, ce))
          BY <1>5, <3>2
        <5> QED BY <2>7, <5>1, Zenon DEF v
      <4> QED BY <2>4, <4>1, Zenon
    <3> QED BY <3>1, <3>2
  <2>9. Is(k + 1)
    BY <2>6, <2>8, Zenon
  <2> QED BY <2>1, <2>9
<1>9. Is(n)
  <2> HIDE DEF T, Is
  <2>1. \A k \in 0 .. n : k \in T
    BY <1>1, <1>6, <1>8, InductionUpTo
  <2>2. n \in T
    BY <1>1, <2>1
  <2> QED BY <2>2 DEF T
<1>10. PICK s : /\ ReadsTo(s0, part(n), s)
                /\ \A a : (a = slash => ~ (n \in 1 .. n /\ txt[n] = lt))
                            => Token(s, a) = Token(RawPage(t, V(n)), a)
  BY <1>9
<1>11. part(n) = txt /\ V(n) = Collapsed(e \o c)
  <2>1. SubSeq(txt, 1, n) = txt
    BY <1>1, SubSeqFull DEF n
  <2>2. SubSeq(c, 1, n) = c
    BY <1>2, SubSeqFull
  <2> QED BY <2>1, <2>2
<1> HIDE DEF s0, part, V
<1>12. Token(s, nl) = RawPage(t, Collapsed(e \o d))
  <2>1. Token(s, nl) = Token(RawPage(t, V(n)), nl)
    BY <1>4, <1>10
  <2>2. Token(s, nl) = RawPage(t, See(Collapsed(e \o c), BlankEvent))
    <3> DEFINE v == Collapsed(e \o c)
    <3> HIDE DEF v
    <3>1. Token(RawPage(t, v), nl) = RawPage(t, See(v, CharEvent(nl)))
      BY <1>4, <1>5
    <3> QED BY <1>4, <1>11, <2>1, <3>1, Zenon DEF v
  <2> DEFINE x == BlankEvent
  <2>3. x \in Event
    BY <1>4
  <2> HIDE DEF x
  <2>4. blank = <<x>>
    BY DEF x
  <2> HIDE DEF blank
  <2>5. e \o d = Append(e \o c, x) /\ e \o c \in Seq(Event)
    <3>1. e \o c \in Seq(Event) /\ blank \in Seq(Event)
      BY <1>2, <2>3, <2>4
    <3>2. Append(e \o c, x) = (e \o c) \o blank
      BY <2>3, <2>4, <3>1, AppendIsConcat
    <3>3. (e \o c) \o blank = e \o (c \o blank)
      BY <1>2, <3>1, ConcatAssociative, SMTT(30)
    <3> QED BY <3>1, <3>2, <3>3
  <2> HIDE DEF d
  <2>6. Collapsed(Append(e \o c, x)) = See(Collapsed(e \o c), x)
    BY <2>3, <2>5, CollapsedMore
  <2> QED BY <2>2, <2>5, <2>6, Zenon DEF x
<1>13. ReadsTo(s0, txt \o <<nl>>, Token(s, nl))
  <2>1. ReadsTo(s, <<nl>>, Token(s, nl))
    BY ReadsOne
  <2> DEFINE u == <<nl>>
  <2>2. u \in Seq(Word)
    BY <1>3
  <2> HIDE DEF u
  <2>3. ReadsTo(s0, txt, s) /\ ReadsTo(s, u, Token(s, nl))
    BY <1>10, <1>11, <2>1 DEF u
  <2>4. ReadsTo(s0, txt \o u, Token(s, nl))
    BY <1>1, <2>2, <2>3, ReadsBoth
  <2> QED BY <2>4 DEF u
<1> QED BY <1>12, <1>13, Zenon DEF s0

\* The blanks of a text.
LEMMA CharsBlank ==
  ASSUME NEW line \in Seq(Word), NEW c \in 0 .. Len(line), \A k \in 1 .. c : line[k] = Space
  PROVE  LET rest == SubSeq(line, c + 1, Len(line))
         IN /\ rest \in Seq(Word)
            /\ \E d \in Seq({BlankEvent}) : Chars(line) = d \o Chars(rest)
<1> DEFINE rest == SubSeq(line, c + 1, Len(line))
           x == BlankEvent
           d == [k \in 1 .. c |-> x]
           n == Len(line)
           h == Chars(line)
           r == Chars(rest)
<1>1. n \in Nat /\ c \in Nat /\ c <= n
  OBVIOUS
<1>2. rest \in Seq(Word) /\ Len(rest) = n - c /\ \A k \in 1 .. n - c : rest[k] = line[c + k]
  BY <1>1
<1>3. CharEvent(Space) = x
  BY DEF CharEvent, Blank, Space, BlankEvent
<1> HIDE DEF rest, x
<1>4. d \in [1 .. c -> {x}]
  OBVIOUS
<1>5. d \in Seq({x}) /\ Len(d) = c /\ \A k \in 1 .. c : d[k] = x
  <2>1. d \in Seq({x}) /\ Len(d) = c
    BY <1>1, <1>4, FunctionIsSeq
  <2> QED BY <2>1
<1>6. h \in Seq(Event) /\ Len(h) = n /\ \A k \in 1 .. n : h[k] = CharEvent(line[k])
  <2>1. h = [k \in 1 .. n |-> CharEvent(line[k])] /\ h \in Seq(Event) /\ Len(h) = n
    BY CharsType
  <2> HIDE DEF h
  <2> QED BY <2>1
<1>7. r \in Seq(Event) /\ Len(r) = n - c /\ \A k \in 1 .. n - c : r[k] = CharEvent(rest[k])
  <2>1. r = [k \in 1 .. n - c |-> CharEvent(rest[k])] /\ r \in Seq(Event) /\ Len(r) = n - c
    BY <1>2, CharsType
  <2> HIDE DEF r
  <2> QED BY <2>1
<1>8. x \in Event
  BY DEF x, BlankEvent, Event
<1> HIDE DEF d, h, r, n
<1>9. d \in Seq(Event)
  BY <1>5, <1>8
<1>10. d \o r \in Seq(Event) /\ Len(d \o r) = n
  BY <1>1, <1>5, <1>7, <1>9
<1>11. ASSUME NEW k \in 1 .. n
       PROVE  h[k] = (d \o r)[k]
  <2>1. CASE k <= c
    <3>1. k \in 1 .. c /\ line[k] = Space
      BY <1>1, <2>1
    <3>2. (d \o r)[k] = d[k]
      BY <1>5, <1>7, <1>9, <3>1, ConcatAt
    <3> QED BY <1>3, <1>5, <1>6, <3>1, <3>2
  <2>2. CASE k > c
    <3> DEFINE j == k - c
    <3>1. j \in 1 .. n - c /\ c + j = k
      BY <1>1, <2>2
    <3>2. (d \o r)[c + j] = r[j]
      BY <1>1, <1>5, <1>7, <1>9, <3>1, ConcatAt
    <3> QED BY <1>2, <1>6, <1>7, <3>1, <3>2
  <2>3. k <= c \/ k > c
    BY <1>1
  <2> QED BY <2>1, <2>2, <2>3, Zenon
<1>12. h = d \o r
  BY <1>6, <1>10, <1>11, SeqEqual
<1> QED BY <1>2, <1>5, <1>12, Zenon DEF h, r, rest, x

\* A part of a text without the end of a script has none either.
LEMMA UnclosedPart ==
  ASSUME NEW txt \in Unclosed, NEW a \in Nat \ {0}, NEW b \in 0 .. Len(txt)
  PROVE  SubSeq(txt, a, b) \in Unclosed
<1> DEFINE p == SubSeq(txt, a, b)
           lt == "<"
           slash == "/"
<1>1. txt \in Seq(STRING) /\ \A k \in 1 .. Len(txt) - 1 : txt[k] = lt => txt[k + 1] # slash
  BY DEF Unclosed, AnyText
<1> HIDE DEF lt, slash
<1>2. p \in Seq(STRING)
  <2>1. \A k \in a .. b : txt[k] \in STRING
    BY <1>1
  <2> QED BY <1>1, <2>1, SubSeqProperties
<1>3. Len(p) \in Nat /\ \A k \in 1 .. Len(p) : p[k] = txt[a + k - 1] /\ a + k - 1 \in 1 .. b
  BY <1>1, SMTT(30)
<1> HIDE DEF p
<1>4. ASSUME NEW k \in 1 .. Len(p) - 1, p[k] = lt
      PROVE  p[k + 1] # slash
  <2> DEFINE j == a + k - 1
  <2>1. k \in 1 .. Len(p) /\ k + 1 \in 1 .. Len(p) /\ a + (k + 1) - 1 = j + 1
    BY <1>3
  <2>2. p[k] = txt[j] /\ p[k + 1] = txt[a + (k + 1) - 1] /\ j \in 1 .. b /\ a + (k + 1) - 1 \in 1 .. b
    BY <1>3, <2>1
  <2>3. j \in 1 .. Len(txt) - 1
    BY <1>1, <2>1, <2>2
  <2> QED BY <1>1, <1>4, <2>1, <2>2, <2>3
<1>5. p \in Unclosed
  BY <1>2, <1>4 DEF Unclosed, AnyText, lt, slash
<1> QED BY <1>5 DEF p

\* A line that is not empty, behind the indentation and without its common spaces.
LEMMA RawFullLine ==
  ASSUME NEW line \in Unclosed, NEW c \in 0 .. Len(line), \A k \in 1 .. c : line[k] = Space
  PROVE  LET text == (<<"indent">> \o SubSeq(line, c + 1, Len(line))) \o <<"\n">>
             look == Line(Chars(line), FALSE)
         IN /\ text \in Seq(Word) /\ look \in Seq(Event) /\ EndsBlank(look)
            /\ RawShows(text, ABlank \o look)
<1> DEFINE i == "indent"
           nl == "\n"
           ind == <<i>>
           brk == <<nl>>
           rest == SubSeq(line, c + 1, Len(line))
           h == Chars(line)
           r == Chars(rest)
<1>1. line \in Seq(Word)
  BY DEF Unclosed, AnyText, Word
<1>2. rest \in Unclosed
  <2>1. c + 1 \in Nat \ {0} /\ Len(line) \in 0 .. Len(line)
    BY <1>1
  <2> QED BY <2>1, UnclosedPart
<1>3. rest \in Seq(Word) /\ RawShows(rest \o brk, r \o ABlank)
  BY <1>2, RawLine
<1>4. ind \in Seq(Word) /\ brk \in Seq(Word) /\ RawShows(ind, ABlank)
  <2>1. i \in OwnWords /\ nl \in OwnWords /\ i # "<" /\ CharEvent(i) = BlankEvent
    BY DEF OwnWords, CharEvent, Blank, BlankEvent
  <2> HIDE DEF i, nl
  <2>2. i \in Word /\ nl \in Word
    BY <2>1, OwnAreWords
  <2>3. RawShows(<<i>>, <<CharEvent(i)>>)
    BY <2>1, <2>2, RawChar
  <2> QED BY <2>1, <2>2, <2>3 DEF ABlank
<1>5. PICK d \in Seq({BlankEvent}) : h = d \o r
  BY <1>1, CharsBlank, Zenon
<1>6. d \in Seq(Event) /\ ABlank \in Seq(Event) /\ r \in Seq(Event) /\ h \in Seq(Event)
  BY <1>1, <1>3, BlanksVanish, CharsType
<1> HIDE DEF ind, brk, rest, h, r
<1>7. \A x, y, z \in Seq(Event) : (x \o y) \o z = x \o (y \o z)
  <2>1. ConcatAssociates(Event)
    BY Associative
  <2> QED BY <2>1, Zenon DEF ConcatAssociates
<1>8. \A x, y, z \in Seq(Word) : (x \o y) \o z = x \o (y \o z)
  <2>1. ConcatAssociates(Word)
    BY Associative
  <2> QED BY <2>1, Zenon DEF ConcatAssociates
<1> DEFINE look == (ABlank \o h) \o ABlank
           end == r \o ABlank
           text == (ind \o rest) \o brk
           blanks == ABlank \o d
<1>9. look \in Seq(Event) /\ end \in Seq(Event) /\ blanks \in Seq({BlankEvent}) /\ ABlank \o h \in Seq(Event)
  <2>1. blanks \in Seq({BlankEvent})
    BY DEF ABlank
  <2> QED BY <1>6, <2>1
<1>10. text = ind \o (rest \o brk) /\ rest \o brk \in Seq(Word)
  <2>1. rest \o brk \in Seq(Word)
    BY <1>3, <1>4
  <2> QED BY <1>3, <1>4, <1>8, <2>1, Zenon
<1>11. text \in Seq(Word) /\ RawShows(text, ABlank \o end)
  <2> HIDE DEF text, end
  <2>1. RawShows(rest \o brk, end)
    BY <1>3 DEF end
  <2> QED BY <1>4, <1>6, <1>9, <1>10, <2>1, RawBoth
<1>12. SameSeen(ABlank \o end, (ABlank \o blanks) \o end)
  <2>1. SameSeen(ABlank \o blanks, ABlank)
    BY <1>9, BlanksVanish
  <2>2. SameSeen(ABlank, ABlank \o blanks) /\ ABlank \o blanks \in Seq(Event)
    <3>1. blanks \in Seq(Event)
      BY <1>9, BlanksVanish
    <3> QED BY <1>6, <2>1, <3>1 DEF SameSeen
  <2> HIDE DEF end, blanks
  <2> QED BY <1>6, <1>9, <2>2, SameAround
<1>13. (ABlank \o blanks) \o end = ABlank \o look
  <2>1. blanks \in Seq(Event)
    BY <1>6
  <2>2. (ABlank \o blanks) \o end = ABlank \o (blanks \o end)
    <3>1. end \in Seq(Event) /\ ABlank \in Seq(Event)
      BY <1>6, <1>9
    <3> HIDE DEF blanks, end
    <3> QED BY <1>7, <2>1, <3>1
  <2>3. blanks \o end = (blanks \o r) \o ABlank
    <3> HIDE DEF blanks
    <3> QED BY <1>6, <1>7, <2>1
  <2>4. blanks \o r = ABlank \o (d \o r)
    BY <1>6, <1>7
  <2> HIDE DEF blanks, end
  <2> QED BY <1>5, <2>2, <2>3, <2>4, Zenon
<1>14. RawShows(text, ABlank \o look)
  <2> HIDE DEF text, end, blanks, look
  <2> QED BY <1>11, <1>12, <1>13, RawSame, Zenon
<1>15. EndsBlank(look)
  BY <1>9, Zenon DEF EndsBlank
<1>16. Line(h, FALSE) = look
  BY Zenon DEF Line, ABlank, BlankEvent
<1> QED BY <1>9, <1>11, <1>14, <1>15, <1>16, Zenon DEF text, ind, rest, brk, h

\* The leading spaces are spaces.
LEMMA LeadingSpacesAre ==
  ASSUME NEW X, NEW s \in Seq(X)
  PROVE  /\ LeadingSpaces(s) \in 0 .. Len(s)
         /\ \A k \in 1 .. LeadingSpaces(s) : s[k] = Space
<1> DEFINE T == {n \in 0 .. Len(s) : \A k \in 1 .. n : s[k] = Space}
           Leads(n) == /\ \A k \in 1 .. n : s[k] = Space
                       /\ n < Len(s) => s[n + 1] # Space
<1>1. Len(s) \in Nat
  OBVIOUS
<1>2. T \subseteq 0 .. Len(s) /\ T # {}
  <2>1. 0 \in T
    BY <1>1
  <2> QED BY <2>1
<1>3. PICK n \in T : \A l \in T : l <= n
  <2> HIDE DEF T
  <2> QED BY <1>1, <1>2, GreatestNatural
<1>4. n < Len(s) => s[n + 1] # Space
  <2> SUFFICES ASSUME n < Len(s), s[n + 1] = Space PROVE FALSE
    OBVIOUS
  <2>1. n + 1 \in 0 .. Len(s) /\ \A k \in 1 .. n + 1 : k \in 1 .. n \/ k = n + 1
    BY <1>1, <1>3
  <2>2. n + 1 \in T
    BY <1>3, <2>1
  <2> QED BY <1>1, <1>3, <2>2
<1>5. \E m \in 0 .. Len(s) : Leads(m)
  BY <1>3, <1>4
<1>6. LeadingSpaces(s) = CHOOSE m \in 0 .. Len(s) : Leads(m)
  BY Zenon DEF LeadingSpaces
<1>7. LeadingSpaces(s) \in 0 .. Len(s) /\ Leads(LeadingSpaces(s))
  <2> HIDE DEF Leads
  <2> QED BY <1>5, <1>6
<1> QED BY <1>7

\* The line that ends at a line break.
LEMMA LineAtType ==
  ASSUME NEW s \in Unclosed, NEW k \in 1 .. Len(s)
  PROVE  LineAt(s, k) \in Seq(Unclosed) /\ (s[k] = NL => LineAt(s, k) # <<>>)
<1> DEFINE B == {0} \cup {j \in 1 .. k - 1 : s[j] = NL}
           start == CHOOSE j \in B : \A l \in B : l <= j
           line == SubSeq(s, start + 1, k - 1)
<1>1. LineAt(s, k) = IF s[k] = NL THEN <<line>> ELSE <<>>
  BY Zenon DEF LineAt
<1>2. Len(s) \in Nat /\ k - 1 \in Nat
  BY DEF Unclosed, AnyText
<1>3. B \subseteq 0 .. k - 1 /\ B # {}
  BY <1>2
<1> HIDE DEF B
<1>4. \E j \in B : \A l \in B : l <= j
  BY <1>2, <1>3, GreatestNatural
<1>5. start \in B
  BY <1>4
<1> HIDE DEF start
<1>6. start + 1 \in Nat \ {0} /\ k - 1 \in 0 .. Len(s)
  <2>1. start \in 0 .. k - 1
    BY <1>3, <1>5
  <2> QED BY <1>2, <2>1
<1>7. line \in Unclosed
  BY <1>6, UnclosedPart
<1> HIDE DEF line
<1>8. <<line>> \in Seq(Unclosed) /\ <<line>> # <<>> /\ <<>> \in Seq(Unclosed)
  BY <1>7
<1> QED BY <1>1, <1>8

\* A source has a line.
LEMMA LinesOfType ==
  ASSUME NEW source \in Source
  PROVE  LinesOf(source) \in Seq(Unclosed) /\ LinesOf(source) # <<>>
<1> DEFINE n == Len(source)
           f == [k \in DOMAIN source |-> LineAt(source, k)]
<1>1. source \in Unclosed /\ DOMAIN source = 1 .. n /\ n \in Nat
  BY DEF Source, Unclosed, AnyText
<1>2. PICK k \in 1 .. n : source[k] = NL
  <2>1. \E k \in DOMAIN source : source[k] = NL
    BY DEF Source, NL
  <2> QED BY <1>1, <2>1
<1>3. \A m \in 1 .. n : LineAt(source, m) \in Seq(Unclosed)
  BY <1>1, LineAtType
<1>4. f \in [1 .. n -> Seq(Unclosed)]
  BY <1>1, <1>3
<1>5. f[k] # <<>>
  BY <1>1, <1>2, LineAtType
<1>6. LinesOf(source) = FlattenSeq(f)
  BY Zenon DEF LinesOf
<1> HIDE DEF f
<1>7. f \in Seq(Seq(Unclosed)) /\ Len(f) = n
  BY <1>1, <1>4, FunctionIsSeq
<1>8. FlattenSeq(f) \in Seq(Unclosed)
  BY <1>7, FlattenType
<1>9. FlattenSeq(f) # <<>>
  <2>1. f[k] \in Seq(Unclosed)
    BY <1>4
  <2>2. PICK v : v \in Range(f[k])
    <3>1. 1 \in DOMAIN f[k]
      BY <1>5, <2>1
    <3> QED BY <3>1 DEF Range
  <2>3. v \in Range(FlattenSeq(f))
    BY <1>7, <2>2, FlattenRange
  <2>4. Range(<<>>) = {}
    BY DEF Range
  <2> QED BY <2>3, <2>4, Zenon
<1> QED BY <1>6, <1>8, <1>9, Zenon

\* A line that SourceLook has.
SeenLine(ls, k) == ls[k] # <<>> /\ (k = 1 => \A j \in DOMAIN ls : j # 1 => ls[j] = <<>>)

\* The lines that are printed are those that are seen, and empty ones between them.
LEMMA PrintedAre ==
  ASSUME NEW ls \in Seq(Unclosed), ls # <<>>
  PROVE  /\ FirstPrinted(ls) \in 1 .. Len(ls) /\ LastPrinted(ls) \in FirstPrinted(ls) .. Len(ls)
         /\ \A k \in 1 .. Len(ls) :
              SeenLine(ls, k) <=> ls[k] # <<>> /\ k \in FirstPrinted(ls) .. LastPrinted(ls)
<1> DEFINE n == Len(ls)
           F == FullLines(ls)
           later == F \ {1}
           a == FirstPrinted(ls)
           b == LastPrinted(ls)
<1>1. n \in Nat /\ 1 \in 1 .. n /\ DOMAIN ls = 1 .. n
  OBVIOUS
<1>2. F = {k \in 1 .. n : ls[k] # <<>>}
  BY <1>1 DEF FullLines
<1>3. a = IF later = {} THEN 1 ELSE CHOOSE m \in later : \A k \in later : m <= k
  <2> DEFINE At(X) == IF X = {} THEN 1 ELSE CHOOSE m \in X : \A k \in X : m <= k
  <2>1. a = At(later)
    BY Zenon DEF FirstPrinted
  <2> QED BY <2>1
<1>4. b = IF F = {} THEN 1 ELSE CHOOSE m \in F : \A k \in F : k <= m
  <2> DEFINE At(X) == IF X = {} THEN 1 ELSE CHOOSE m \in X : \A k \in X : k <= m
  <2>1. b = At(F)
    BY Zenon DEF LastPrinted
  <2> QED BY <2>1
<1>5. F \subseteq 1 .. n /\ F \subseteq 0 .. n /\ F \subseteq Nat
  BY <1>1, <1>2
<1>6. \A k \in 1 .. n : k \in F <=> ls[k] # <<>>
  BY <1>2
<1> HIDE DEF F, a, b, n
<1>7. later # {} => a \in later /\ \A k \in later : a <= k
  <2> SUFFICES ASSUME later # {} PROVE a \in later /\ \A k \in later : a <= k
    OBVIOUS
  <2>1. later \subseteq Nat
    BY <1>5
  <2> HIDE DEF later
  <2>2. \E m \in later : \A k \in later : m <= k
    BY <2>1, LeastNatural
  <2> QED BY <1>3, <2>2
<1>8. F # {} => b \in F /\ \A k \in F : k <= b
  <2> SUFFICES ASSUME F # {} PROVE b \in F /\ \A k \in F : k <= b
    OBVIOUS
  <2>1. \E m \in F : \A k \in F : k <= m
    BY <1>1, <1>5, GreatestNatural
  <2> QED BY <1>4, <2>1
<1>9. later = {} => a = 1
  BY <1>3
<1>10. F = {} => b = 1
  BY <1>4
<1>11. a \in 1 .. n /\ b \in a .. n
  <2>1. CASE later # {}
    <3>1. a \in F /\ b \in F /\ a <= b
      BY <1>7, <1>8, <2>1
    <3> QED BY <1>1, <1>5, <3>1
  <2>2. CASE later = {} /\ F # {}
    <3>1. a = 1 /\ b \in F
      BY <1>8, <1>9, <2>2
    <3> QED BY <1>1, <1>5, <3>1
  <2>3. CASE F = {}
    <3>1. a = 1 /\ b = 1
      BY <1>9, <1>10, <2>3
    <3> QED BY <1>1, <3>1
  <2> QED BY <2>1, <2>2, <2>3
<1>12. ASSUME NEW k \in 1 .. n
       PROVE  SeenLine(ls, k) <=> ls[k] # <<>> /\ k \in a .. b
  <2>1. SeenLine(ls, k) <=> k \in F /\ (k = 1 => later = {})
    <3>1. later = {} <=> \A j \in DOMAIN ls : j # 1 => ls[j] = <<>>
      BY <1>1, <1>2
    <3> QED BY <1>6, <3>1, Zenon DEF SeenLine
  <2>2. k \in F /\ (k = 1 => later = {}) <=> k \in F /\ k \in a .. b
    <3>1. ASSUME k \in F, k = 1 => later = {}
          PROVE  k \in a .. b
      <4>1. k <= b
        BY <1>8, <3>1
      <4>2. a <= k
        <5>1. CASE later = {}
          BY <1>1, <1>9, <5>1
        <5>2. CASE later # {}
          BY <1>7, <3>1, <5>2
        <5> QED BY <5>1, <5>2
      <4> QED BY <1>1, <1>11, <4>1, <4>2
    <3>2. ASSUME k \in a .. b, k = 1
          PROVE  later = {}
      <4> SUFFICES ASSUME later # {} PROVE FALSE
        OBVIOUS
      <4>1. a \in 1 .. n /\ a # 1
        BY <1>7, <1>11
      <4> QED BY <1>1, <3>2, <4>1
    <3> QED BY <3>1, <3>2
  <2> QED BY <1>6, <2>1, <2>2
<1> QED BY <1>11, <1>12 DEF a, b, n

\* No more is cut off than the spaces in front.
LEMMA CommonSpacesAre ==
  ASSUME NEW ls \in Seq(Unclosed), NEW k \in 1 .. Len(ls), ls[k] # <<>>
  PROVE  CommonSpaces(ls) \in 0 .. LeadingSpaces(ls[k])
<1> DEFINE F == FullLines(ls)
           C == {LeadingSpaces(ls[m]) : m \in F}
           Least(n) == \A m \in F : n <= LeadingSpaces(ls[m])
           c == CHOOSE n \in C : Least(n)
<1>1. F = {m \in 1 .. Len(ls) : ls[m] # <<>>}
  BY DEF FullLines
<1>2. CommonSpaces(ls) = c
  BY Zenon DEF CommonSpaces
<1>3. ASSUME NEW m \in F PROVE LeadingSpaces(ls[m]) \in Nat
  <2>1. ls[m] \in Unclosed
    BY <1>1
  <2>2. ls[m] \in Seq(STRING)
    BY <2>1 DEF Unclosed, AnyText
  <2>3. Len(ls[m]) \in Nat /\ LeadingSpaces(ls[m]) \in 0 .. Len(ls[m])
    BY <2>2, LeadingSpacesAre
  <2> QED BY <2>3
<1>4. k \in F
  BY <1>1
<1> HIDE DEF F
<1>5. C \subseteq Nat /\ C # {} /\ LeadingSpaces(ls[k]) \in C
  BY <1>3, <1>4
<1>6. PICK n \in C : \A l \in C : n <= l
  <2> HIDE DEF C
  <2> QED BY <1>5, LeastNatural
<1>7. Least(n)
  BY <1>6
<1>8. c \in C /\ Least(c)
  <2> HIDE DEF C, Least
  <2> QED BY <1>6, <1>7
<1> HIDE DEF c
<1>9. c \in Nat /\ c <= LeadingSpaces(ls[k]) /\ LeadingSpaces(ls[k]) \in Nat
  BY <1>4, <1>5, <1>8
<1> HIDE DEF C, Least
<1> QED BY <1>2, <1>9

\* The writer's operators on lines are those of the page.
LEMMA SameLines ==
  ASSUME NEW source, NEW indent
  PROVE  W!PrintedLines(W!LinesOf(source), indent) = PrintedLines(LinesOf(source), indent)
<1>1. W!Space = Space /\ W!NL = NL
  BY DEF Space, W!Space, NL, W!NL
<1>2. \A s : W!LeadingSpaces(s) = LeadingSpaces(s)
  BY <1>1, Zenon DEF LeadingSpaces, W!LeadingSpaces
<1>3. \A s, k : W!LineAt(s, k) = LineAt(s, k)
  BY Zenon DEF LineAt, W!LineAt, NL, W!NL
<1>4. \A s : W!LinesOf(s) = LinesOf(s)
  BY <1>3, SameFlatten, Zenon DEF LinesOf, W!LinesOf
<1>5. \A ls : W!FullLines(ls) = FullLines(ls)
  BY Zenon DEF FullLines, W!FullLines
<1>6. \A ls : W!CommonSpaces(ls) = CommonSpaces(ls)
  BY <1>2, <1>5, Zenon DEF CommonSpaces, W!CommonSpaces
<1>7. \A ls : W!FirstPrinted(ls) = FirstPrinted(ls)
  BY Zenon DEF FirstPrinted, W!FirstPrinted, FullLines, W!FullLines
<1>8. \A ls : W!LastPrinted(ls) = LastPrinted(ls)
  BY Zenon DEF LastPrinted, W!LastPrinted, FullLines, W!FullLines
<1>9. \A ls, k, i : W!CutLine(ls, k, i) = CutLine(ls, k, i)
  BY <1>6, Zenon DEF CutLine, W!CutLine
<1>10. \A ls, i : W!PrintedLines(ls, i) = PrintedLines(ls, i)
  BY <1>7, <1>8, <1>9, Zenon DEF PrintedLines, W!PrintedLines
<1> QED BY <1>4, <1>10, Zenon

\* What each line shows, if it is seen.
LineLook(ls, k) == IF SeenLine(ls, k) THEN Line(Chars(ls[k]), FALSE) ELSE <<>>
\* What is printed of it.
LineText(ls, k) == CutLine(ls, k, <<"indent">>) \o <<"\n">>

\* Behind a blank, a printed line shows its look.
LEMMA ShowsLineOf ==
  ASSUME NEW ls \in Seq(Unclosed), NEW k \in 1 .. Len(ls),
         SeenLine(ls, k) <=> ls[k] # <<>>
  PROVE  /\ LineText(ls, k) \in Seq(Word) /\ LineLook(ls, k) \in Seq(Event) /\ EndsBlank(LineLook(ls, k))
         /\ RawShows(LineText(ls, k), ABlank \o LineLook(ls, k))
<1> DEFINE line == ls[k]
           c == CommonSpaces(ls)
           nl == "\n"
           look == Line(Chars(line), FALSE)
           text == (<<"indent">> \o SubSeq(line, c + 1, Len(line))) \o <<"\n">>
           none == <<>>
<1>1. line \in Unclosed /\ line \in Seq(Word)
  <2>1. line \in Unclosed
    OBVIOUS
  <2> HIDE DEF line
  <2> QED BY <2>1 DEF Unclosed, AnyText, Word
<1>2. CASE line = <<>>
  <2>1. LineText(ls, k) = none \o <<nl>> /\ LineLook(ls, k) = none
    BY <1>2 DEF LineText, CutLine, LineLook
  <2>2. nl \in OwnWords /\ nl # "<" /\ CharEvent(nl) = BlankEvent
    BY DEF OwnWords, CharEvent, Blank, BlankEvent
  <2> HIDE DEF nl
  <2>3. nl \in Word
    BY <2>2, OwnAreWords
  <2>4. RawShows(<<nl>>, <<CharEvent(nl)>>)
    BY <2>2, <2>3, RawChar
  <2>5. RawShows(<<nl>>, ABlank)
    BY <2>2, <2>4, Zenon DEF ABlank
  <2>6. none \o <<nl>> = <<nl>> /\ <<nl>> \in Seq(Word)
    BY <2>3
  <2>7. ABlank \in Seq(Event)
    BY DEF ABlank, BlankEvent, Event
  <2>8. ABlank \o none = ABlank /\ none \in Seq(Event) /\ EndsBlank(none)
    BY <2>7 DEF EndsBlank
  <2> HIDE DEF none
  <2> QED BY <2>1, <2>5, <2>6, <2>8, Zenon
<1>3. CASE line # <<>>
  <2>1. c \in 0 .. LeadingSpaces(line)
    BY <1>3, CommonSpacesAre
  <2>2. LeadingSpaces(line) \in 0 .. Len(line) /\ \A m \in 1 .. LeadingSpaces(line) : line[m] = Space
    BY <1>1, LeadingSpacesAre
  <2>3. LineText(ls, k) = text /\ LineLook(ls, k) = look
    BY <1>3, Zenon DEF LineText, CutLine, LineLook
  <2> HIDE DEF line, c
  <2>4. c \in 0 .. Len(line) /\ \A m \in 1 .. c : line[m] = Space
    <3>1. Len(line) \in Nat
      BY <1>1
    <3> QED BY <2>1, <2>2, <3>1
  <2>5. /\ text \in Seq(Word) /\ look \in Seq(Event) /\ EndsBlank(look)
        /\ RawShows(text, ABlank \o look)
    BY <1>1, <2>4, RawFullLine, Zenon
  <2> HIDE DEF text, look
  <2> QED BY <2>3, <2>5, Zenon
<1> QED BY <1>2, <1>3

\* A source shows its lines.
LEMMA ShowsSource ==
  ASSUME NEW source \in Source, NEW lvl, IsLevel(lvl)
  PROVE  /\ W!PrintSource(source, lvl) \in Seq(Word) /\ SourceLook(source) \in Seq(Event)
         /\ RawShows(W!PrintSource(source, lvl), SourceLook(source))
<1> DEFINE ls == LinesOf(source)
           n == Len(ls)
           a == FirstPrinted(ls)
           b == LastPrinted(ls)
           m == b - a + 1
           ind == <<"indent">>
           p == PrintedLines(ls, ind)
           f == [k \in 1 .. m |-> LineText(ls, a + k - 1)]
           g == [k \in 1 .. m |-> LineLook(ls, a + k - 1)]
           h == [k \in 1 .. n |-> LineLook(ls, k)]
<1>1. W!PrintSource(source, lvl) = FlattenSeq([k \in DOMAIN p |-> p[k] \o <<"\n">>])
  <2>1. W!PrintedLines(W!LinesOf(source), W!Indent(W!Plus2(lvl))) = p
    BY SourceIndent, SameLines, Zenon
  <2>2. W!PrintSource(source, lvl) = W!FlattenSeq([k \in DOMAIN p |-> p[k] \o <<"\n">>])
    <3> DEFINE At(x) == W!FlattenSeq([k \in DOMAIN x |-> x[k] \o <<"\n">>])
    <3>1. W!PrintSource(source, lvl) = At(W!PrintedLines(W!LinesOf(source), W!Indent(W!Plus2(lvl))))
      BY Zenon DEF W!PrintSource
    <3> HIDE DEF At, p
    <3>2. W!PrintSource(source, lvl) = At(p)
      BY <2>1, <3>1, Zenon
    <3> QED BY <3>2 DEF At
  <2> QED BY <2>2, SameFlatten, Zenon
<1>2. SourceLook(source) = ABlank \o FlattenSeq([k \in DOMAIN ls |-> LineLook(ls, k)])
  <2>1. \A x, k : SeenLine(x, k) <=> x[k] # <<>> /\ (k = 1 => \A j \in DOMAIN x : j # 1 => x[j] = <<>>)
    BY Zenon DEF SeenLine
  <2> QED BY <2>1, Zenon DEF SourceLook, LineLook, ABlank, BlankEvent
<1>3. ls \in Seq(Unclosed) /\ ls # <<>>
  BY LinesOfType
<1> HIDE DEF ls
<1>4. n \in Nat /\ DOMAIN ls = 1 .. n
  BY <1>3
<1>5. /\ a \in 1 .. n /\ b \in a .. n
      /\ \A k \in 1 .. n : SeenLine(ls, k) <=> ls[k] # <<>> /\ k \in a .. b
  BY <1>3, PrintedAre
<1>6. p = [k \in 1 .. m |-> CutLine(ls, a + k - 1, ind)]
  BY Zenon DEF PrintedLines
<1> HIDE DEF a, b, n
<1>7. m \in Nat \ {0} /\ \A k \in 1 .. m : a + k - 1 \in a .. b /\ a + k - 1 \in 1 .. n
  BY <1>4, <1>5
<1>8. [k \in DOMAIN p |-> p[k] \o <<"\n">>] = f
  <2> HIDE DEF m, ind
  <2>1. DOMAIN p = 1 .. m /\ \A k \in 1 .. m : p[k] = CutLine(ls, a + k - 1, ind)
    BY <1>6
  <2>2. \A k \in 1 .. m : LineText(ls, a + k - 1) = p[k] \o <<"\n">>
    BY <2>1, Zenon DEF LineText, ind
  <2> HIDE DEF p
  <2> QED BY <2>1, <2>2, Zenon
<1>9. ASSUME NEW k \in 1 .. n
      PROVE  LineLook(ls, k) \in Seq(Event) /\ (k \notin a .. b => LineLook(ls, k) = <<>>)
  <2>1. ls[k] \in Seq(Word)
    BY <1>3, <1>4 DEF Unclosed, AnyText, Word
  <2>2. Line(Chars(ls[k]), FALSE) \in Seq(Event)
    <3> DEFINE c == Chars(ls[k])
    <3>1. c \in Seq(Event)
      BY <2>1, CharsType
    <3>2. ABlank \in Seq(Event)
      BY DEF ABlank, BlankEvent, Event
    <3>3. Line(c, FALSE) = (ABlank \o c) \o ABlank
      BY Zenon DEF Line, ABlank, BlankEvent
    <3> HIDE DEF c
    <3>4. ABlank \o c \in Seq(Event)
      BY <3>1, <3>2, ConcatProperties
    <3>5. (ABlank \o c) \o ABlank \in Seq(Event)
      BY <3>2, <3>4, ConcatProperties
    <3> QED BY <3>3, <3>5, Zenon DEF c
  <2>3. <<>> \in Seq(Event)
    OBVIOUS
  <2> QED BY <1>5, <2>2, <2>3 DEF LineLook
<1>10. \A k \in a .. b : /\ LineText(ls, k) \in Seq(Word) /\ LineLook(ls, k) \in Seq(Event)
                         /\ EndsBlank(LineLook(ls, k))
                         /\ RawShows(LineText(ls, k), ABlank \o LineLook(ls, k))
  <2> SUFFICES ASSUME NEW k \in a .. b
               PROVE  /\ LineText(ls, k) \in Seq(Word) /\ LineLook(ls, k) \in Seq(Event)
                      /\ EndsBlank(LineLook(ls, k))
                      /\ RawShows(LineText(ls, k), ABlank \o LineLook(ls, k))
    OBVIOUS
  <2>1. k \in 1 .. Len(ls)
    BY <1>4, <1>5 DEF n
  <2>2. SeenLine(ls, k) <=> ls[k] # <<>>
    BY <1>5, <2>1 DEF n
  <2> QED BY <1>3, <2>1, <2>2, ShowsLineOf
<1> HIDE DEF m
<1>11. f \in [1 .. m -> Seq(Word)] /\ g \in [1 .. m -> Seq(Event)]
  BY <1>7, <1>10
<1>12. \A k \in 1 .. m : EndsBlank(g[k]) /\ RawShows(f[k], ABlank \o g[k])
  BY <1>7, <1>10
<1>13. h \in [1 .. n -> Seq(Event)] /\ \A k \in 1 .. n : k \notin a .. b => h[k] = <<>>
  BY <1>9
<1>14. FlattenSeq(h) = FlattenSeq([k \in 1 .. m |-> h[a + k - 1]])
  <2> HIDE DEF h
  <2>1. a \in 1 .. n /\ b \in a .. n /\ n \in Nat
    BY <1>4, <1>5
  <2>2. FlattenSeq(h) = FlattenSeq([k \in 1 .. b - a + 1 |-> h[a + k - 1]])
    BY <1>13, <2>1, FlattenPart, Zenon
  <2> QED BY <2>2, Zenon DEF m
<1>15. [k \in 1 .. m |-> h[a + k - 1]] = g
  BY <1>7
<1> HIDE DEF f, g, h
<1>16. /\ FlattenSeq(f) \in Seq(Word) /\ FlattenSeq(g) \in Seq(Event)
       /\ RawShows(FlattenSeq(f), ABlank \o FlattenSeq(g))
  BY <1>7, <1>11, <1>12, RawLines
<1>17. W!PrintSource(source, lvl) = FlattenSeq(f)
  BY <1>1, <1>8, Zenon
<1>18. SourceLook(source) = ABlank \o FlattenSeq(g)
  <2>1. [k \in DOMAIN ls |-> LineLook(ls, k)] = h
    BY <1>4, Zenon DEF h
  <2> QED BY <1>2, <1>14, <1>15, <2>1, Zenon
<1>19. ABlank \o FlattenSeq(g) \in Seq(Event)
  <2>1. ABlank \in Seq(Event)
    BY DEF ABlank, BlankEvent, Event
  <2> QED BY <1>16, <2>1
<1> DEFINE x == FlattenSeq(f)
           y == ABlank \o FlattenSeq(g)
<1>20. x \in Seq(Word) /\ y \in Seq(Event) /\ RawShows(x, y)
  BY <1>16, <1>19
<1> HIDE DEF x, y
<1>21. W!PrintSource(source, lvl) = x /\ SourceLook(source) = y
  BY <1>17, <1>18, Zenon DEF x, y
<1> QED BY <1>20, <1>21, Zenon

-----------------------------------------------------------------------------
(* What the nodes show.                                                    *)

\* No attribute of the node is in the way.
NodeTame(exact, node) == node.kind \notin {"string", "entity"} => Tame(exact, node.attrs)

\* The names of tags are neither what a browser takes for the end of a tag nor
\* that of a script.
LEMMA TagNames ==
  ASSUME NEW t \in TagName
  PROVE  t \in Word /\ t \notin {"/", ">"} /\ After(t) = "data"
BY DEF TagName, Word, After

\* The line of an opening tag, and that of the closing one.
LEMMA ShowsTag ==
  ASSUME NEW exact, NEW node, NEW attrs \in Seq(TreeAttr), node.attrs = attrs, Tame(exact, attrs),
         NEW t \in Word, t \notin {"/", ">"}, node.tag = t, NEW lvl, IsLevel(lvl)
  PROVE  LET flow  == Flat(lvl)
             open  == W!OnLine(lvl, W!PrintOpen(node))
             close == W!OnLine(lvl, W!PrintClose(node))
         IN /\ open \in Seq(Word) /\ Line(<<Opening(node)>>, flow) \in Seq(Event)
            /\ Shows(exact, "data", open, Line(<<Opening(node)>>, flow), After(t))
            /\ close \in Seq(Word) /\ Line(<<<<"close", t>>>>, flow) \in Seq(Event)
            /\ Shows(exact, After(t), close, Line(<<<<"close", t>>>>, flow), "data")
<1> DEFINE data == "data"
           m == After(t)
           o == Opening(node)
           x == <<"close", t>>
           p == W!PrintOpen(node)
           q == W!PrintClose(node)
<1>1. data \in {"data", "raw"} /\ m \in {"data", "raw"}
  BY DEF After
<1>2. p \in Seq(Word) /\ o \in Event /\ Shows(exact, data, p, <<o>>, m)
  BY ShowsOpen
<1>3. q \in Seq(Word) /\ x \in Event /\ \A n \in {"data", "raw"} : Shows(exact, n, q, <<x>>, data)
  BY ShowsClose
<1>4. Shows(exact, m, q, <<x>>, data)
  BY <1>1, <1>3
<1>5. lvl # 0
  BY SourceIndent
<1> HIDE DEF data, m, o, x, p, q
<1>6. <<o>> \in Seq(Event) /\ <<x>> \in Seq(Event)
  BY <1>2, <1>3
<1>7. /\ W!OnLine(lvl, p) \in Seq(Word) /\ Line(<<o>>, Flat(lvl)) \in Seq(Event)
      /\ Shows(exact, data, W!OnLine(lvl, p), Line(<<o>>, Flat(lvl)), m)
  <2> DEFINE e == <<o>>
  <2> HIDE DEF e
  <2>1. e \in Seq(Event) /\ Shows(exact, data, p, e, m)
    BY <1>2, <1>6 DEF e
  <2>2. /\ W!OnLine(lvl, p) \in Seq(Word) /\ Line(e, Flat(lvl)) \in Seq(Event)
        /\ Shows(exact, data, W!OnLine(lvl, p), Line(e, Flat(lvl)), m)
    BY <1>1, <1>2, <1>5, <2>1, ShowsLine, ZenonT(30)
  <2> QED BY <2>2 DEF e
<1>8. /\ W!OnLine(lvl, q) \in Seq(Word) /\ Line(<<x>>, Flat(lvl)) \in Seq(Event)
      /\ Shows(exact, m, W!OnLine(lvl, q), Line(<<x>>, Flat(lvl)), data)
  <2> DEFINE e == <<x>>
  <2> HIDE DEF e
  <2>1. e \in Seq(Event) /\ Shows(exact, m, q, e, data)
    BY <1>4, <1>6 DEF e
  <2>2. /\ W!OnLine(lvl, q) \in Seq(Word) /\ Line(e, Flat(lvl)) \in Seq(Event)
        /\ Shows(exact, m, W!OnLine(lvl, q), Line(e, Flat(lvl)), data)
    BY <1>1, <1>3, <1>5, <2>1, ShowsLine, ZenonT(30)
  <2> QED BY <2>2 DEF e
<1> QED BY <1>7, <1>8, Zenon DEF data, m, o, x, p, q

\* An element and what is in it, as text and as events.
LEMMA ShowsThree ==
  ASSUME NEW exact, NEW k, NEW m, NEW n, NEW l, NEW s \in Seq(Word), NEW t \in Seq(Word), NEW u \in Seq(Word),
         NEW d \in Seq(Event), NEW e \in Seq(Event), NEW f \in Seq(Event),
         Shows(exact, k, s, d, m), Shows(exact, m, t, e, n), Shows(exact, n, u, f, l)
  PROVE  /\ (s \o t) \o u \in Seq(Word) /\ (d \o e) \o f \in Seq(Event)
         /\ Shows(exact, k, (s \o t) \o u, (d \o e) \o f, l)
<1>1. s \o t \in Seq(Word) /\ d \o e \in Seq(Event) /\ Shows(exact, k, s \o t, d \o e, n)
  BY ShowsBoth, ConcatProperties
<1> DEFINE v == s \o t
           c == d \o e
<1> HIDE DEF v, c
<1>2. v \in Seq(Word) /\ c \in Seq(Event) /\ Shows(exact, k, v, c, n)
  BY <1>1 DEF v, c
<1>3. v \o u \in Seq(Word) /\ c \o f \in Seq(Event) /\ Shows(exact, k, v \o u, c \o f, l)
  BY <1>2, ShowsBoth, ConcatProperties
<1> QED BY <1>3 DEF v, c

VerbatimLook(node, source, flow) ==
  (Line(<<Opening(node)>>, flow) \o SourceLook(source)) \o Line(<<<<"close", node.tag>>>>, flow)

\* A script or style sheet shows its source.
LEMMA ShowsVerbatim ==
  ASSUME NEW exact, NEW node, node.tag \in {"script", "style"}, node.attrs = <<>>,
         NEW source \in Source, node.source = source, NEW lvl, IsLevel(lvl)
  PROVE  /\ W!PrintVerbatim(node, lvl) \in Seq(Word)
         /\ VerbatimLook(node, source, Flat(lvl)) \in Seq(Event)
         /\ Shows(exact, "data", W!PrintVerbatim(node, lvl), VerbatimLook(node, source, Flat(lvl)), "data")
<1> DEFINE t == node.tag
           flow == Flat(lvl)
           open == W!OnLine(lvl, W!PrintOpen(node))
           close == W!OnLine(lvl, W!PrintClose(node))
           seen == Line(<<Opening(node)>>, flow)
           closed == Line(<<<<"close", t>>>>, flow)
           none == <<>>
           text == W!PrintSource(source, lvl)
           look == SourceLook(source)
           data == "data"
           raw == "raw"
<1>1. t \in Word /\ t \notin {"/", ">"} /\ After(t) = raw
  <2>1. t \in OwnWords
    BY ZenonT(30) DEF OwnWords
  <2>2. t \notin {"/", ">"} /\ After(t) = raw
    BY DEF After
  <2> QED BY <2>1, <2>2, OwnAreWords
<1>2. none \in Seq(TreeAttr) /\ Tame(exact, none)
  BY DEF Tame
<1> HIDE DEF none
<1>3. /\ open \in Seq(Word) /\ seen \in Seq(Event) /\ Shows(exact, data, open, seen, raw)
      /\ close \in Seq(Word) /\ closed \in Seq(Event) /\ Shows(exact, raw, close, closed, data)
  <2>1. node.attrs = none /\ node.tag = t
    BY DEF none
  <2> HIDE DEF t
  <2>2. /\ open \in Seq(Word) /\ seen \in Seq(Event) /\ Shows(exact, data, open, seen, After(t))
        /\ close \in Seq(Word) /\ closed \in Seq(Event) /\ Shows(exact, After(t), close, closed, data)
    BY <1>1, <1>2, <2>1, ShowsTag
  <2> QED BY <1>1, <2>2, Zenon
<1>4. W!PrintVerbatim(node, lvl) = (open \o text) \o close
  BY Zenon DEF W!PrintVerbatim
<1>5. text \in Seq(Word) /\ look \in Seq(Event) /\ RawShows(text, look)
  BY ShowsSource, Zenon
<1> HIDE DEF open, close, seen, closed, text, look, data, t, flow
<1>6. Shows(exact, raw, text, look, raw)
  BY <1>5, RawIsShown
<1> HIDE DEF raw
<1>7. /\ (open \o text) \o close \in Seq(Word) /\ (seen \o look) \o closed \in Seq(Event)
      /\ Shows(exact, data, (open \o text) \o close, (seen \o look) \o closed, data)
  BY <1>3, <1>5, <1>6, ShowsThree
<1> QED BY <1>4, <1>7, Zenon DEF VerbatimLook, seen, closed, look, data, flow, t

\* The fields of the nodes.
LEMMA LeafFields ==
  ASSUME NEW node \in LeafNode
  PROVE  \/ node.kind = "string" /\ node.txt \in Seq(Word)
         \/ node.kind = "entity" /\ node.name \in {"times", "minus"}
         \/ node.kind = "empty" /\ node.tag \in TagName /\ node.attrs \in Seq(TreeAttr)
         \/ /\ node.kind = "verbatim" /\ node.tag \in {"script", "style"} /\ node.attrs = <<>>
            /\ node.source \in Source
<1> DEFINE A == Seq(Word)
           L == Seq(TreeAttr)
<1>1. AnyText = A /\ AttrList = L
  BY DEF AnyText, Word, AttrList, TreeAttr
<1> HIDE DEF A, L
<1>2. CASE node \in [kind : {"string"}, txt : A]
  BY <1>2 DEF A
<1>3. CASE node \in [kind : {"entity"}, name : {"times", "minus"}]
  BY <1>3
<1>4. CASE node \in [kind : {"empty"}, tag : TagName, attrs : L]
  BY <1>4 DEF L
<1>5. CASE node \in [kind : {"verbatim"}, tag : {"script", "style"}, attrs : {<<>>}, source : Source]
  BY <1>5
<1> QED BY <1>1, <1>2, <1>3, <1>4, <1>5 DEF LeafNode

\* What a tag has.
LEMMA TagFields ==
  ASSUME NEW X, NEW node \in TagOver(X)
  PROVE  /\ node.kind = "simple" /\ node.tag \in TagName /\ node.attrs \in Seq(TreeAttr)
         /\ node.style \in {"block", "flow"} /\ node.body \in Seq(X)
<1> DEFINE L == Seq(TreeAttr)
           N == Seq(X)
<1>1. AttrList = L
  BY DEF AttrList, TreeAttr
<1>2. TagOver(X) = [kind : {"simple"}, tag : TagName, attrs : AttrList, style : {"block", "flow"}, body : N]
  BY DEF TagOver
<1> HIDE DEF L, N
<1> QED BY <1>1, <1>2 DEF L, N

\* A node without children shows its look.
LEMMA ShowsLeaf ==
  ASSUME NEW exact, NEW node \in LeafNode, NodeTame(exact, node), NEW lvl, IsLevel(lvl), NEW parts
  PROVE  /\ W!Leaf(node, lvl) \in Seq(Word)
         /\ NodeLook(node, Flat(lvl), parts) \in Seq(Event)
         /\ Shows(exact, "data", W!Leaf(node, lvl), NodeLook(node, Flat(lvl), parts), "data")
<1> DEFINE data == "data"
           flow == Flat(lvl)
           look == NodeLook(node, flow, parts)
<1>0. data \in {"data", "raw"} /\ lvl # 0
  BY SourceIndent
<1>1. CASE node.kind = "string" /\ node.txt \in Seq(Word)
  <2> DEFINE txt == node.txt
             p == W!PrintStr(txt)
             c == Chars(txt)
             none == <<>>
  <2>1. /\ W!Leaf(node, lvl) = (IF txt = none THEN none ELSE W!OnLine(lvl, p))
        /\ look = (IF txt = none THEN none ELSE Line(c, flow))
    BY <1>1 DEF W!Leaf, W!PrintString, NodeLook
  <2>2. p \in Seq(Word) /\ c \in Seq(Event) /\ Shows(exact, data, p, c, data)
    BY <1>1, ShowsStr, CharsType
  <2> HIDE DEF p, c, data, none, txt
  <2>3. W!OnLine(lvl, p) \in Seq(Word) /\ Line(c, flow) \in Seq(Event)
        /\ Shows(exact, data, W!OnLine(lvl, p), Line(c, flow), data)
    BY <1>0, <2>2, ShowsLine, ZenonT(30)
  <2>4. none \in Seq(Word) /\ none \in Seq(Event)
    BY DEF none
  <2>5. Shows(exact, data, none, none, data)
    BY ShowsNothing DEF none
  <2> HIDE DEF look, flow
  <2>6. CASE txt = none
    BY <2>1, <2>4, <2>5, <2>6 DEF data, look, flow
  <2>7. CASE txt # none
    BY <2>1, <2>3, <2>7 DEF data, look, flow
  <2> QED BY <2>6, <2>7
<1>2. CASE node.kind = "entity" /\ node.name \in {"times", "minus"}
  <2> DEFINE name == node.name
             text == <<"&", name, ";">>
             x == CharEvent(Decoded(name))
  <2>1. name \in EntityNames
    BY <1>2 DEF EntityNames
  <2>2. Shows(exact, data, text, <<x>>, data)
    <3> HIDE DEF name
    <3> QED BY <2>1, ShowsEntity
  <2>3. x = <<"text", Decoded(name)>> /\ x \in Event
    <3>1. Decoded(name) \in {"TIMES", "MINUS"}
      BY <1>2 DEF Decoded
    <3>2. Decoded(name) \in Word
      <4> HIDE DEF name
      <4> QED BY <2>1, EntityWords
    <3> HIDE DEF name
    <3> QED BY <3>1, <3>2, CharEventType DEF CharEvent, Blank
  <2>4. text \in Seq(Word)
    <3> DEFINE a == "&"
               b == ";"
    <3>1. a \in OwnWords /\ b \in OwnWords /\ name \in OwnWords
      BY <1>2, ZenonT(30) DEF OwnWords
    <3>2. a \in Word /\ b \in Word /\ name \in Word
      BY <3>1, OwnAreWords
    <3> HIDE DEF a, b, name
    <3>3. <<a, name, b>> \in Seq(Word)
      BY <3>2
    <3> QED BY <3>3 DEF a, b
  <2>5. W!Leaf(node, lvl) = W!OnLine(lvl, text)
    BY <1>2 DEF W!Leaf, W!PrintEntity
  <2>6. look = Line(<<<<"text", Decoded(name)>>>>, flow)
    BY <1>2 DEF NodeLook
  <2> DEFINE e == <<x>>
  <2>7. look = Line(e, flow)
    BY <2>3, <2>6, Zenon
  <2>8. e \in Seq(Event)
    <3> HIDE DEF x
    <3> QED BY <2>3
  <2> HIDE DEF text, e, data, look, flow
  <2>9. Shows(exact, data, text, e, data)
    BY <2>2 DEF e
  <2>10. W!OnLine(lvl, text) \in Seq(Word) /\ Line(e, flow) \in Seq(Event)
         /\ Shows(exact, data, W!OnLine(lvl, text), Line(e, flow), data)
    BY <1>0, <2>4, <2>8, <2>9, ShowsLine, ZenonT(30) DEF flow
  <2> QED BY <2>5, <2>7, <2>10, Zenon DEF data, look, flow
<1>3. CASE node.kind = "empty" /\ node.tag \in TagName /\ node.attrs \in Seq(TreeAttr)
  <2> DEFINE t == node.tag
             attrs == node.attrs
             open == W!OnLine(lvl, W!PrintOpen(node))
             seen == Line(<<Opening(node)>>, flow)
  <2>1. W!Leaf(node, lvl) = open /\ look = seen
    BY <1>3 DEF W!Leaf, W!PrintEmpty, NodeLook
  <2>2. t \in Word /\ t \notin {"/", ">"} /\ After(t) = data
    BY <1>3, TagNames
  <2>3. attrs \in Seq(TreeAttr) /\ Tame(exact, attrs)
    BY <1>3 DEF NodeTame
  <2> HIDE DEF t, attrs, open, seen, look, flow
  <2>4. node.attrs = attrs /\ node.tag = t
    BY DEF attrs, t
  <2>5. open \in Seq(Word) /\ seen \in Seq(Event) /\ Shows(exact, data, open, seen, After(t))
    BY <2>2, <2>3, <2>4, ShowsTag DEF open, seen, flow
  <2> QED BY <2>1, <2>2, <2>5, Zenon DEF look, flow
<1>4. CASE /\ node.kind = "verbatim" /\ node.tag \in {"script", "style"} /\ node.attrs = <<>>
           /\ node.source \in Source
  <2> DEFINE source == node.source
             seen == VerbatimLook(node, source, flow)
  <2>1. W!Leaf(node, lvl) = W!PrintVerbatim(node, lvl)
    BY <1>4 DEF W!Leaf
  <2>2. look = seen
    BY <1>4 DEF NodeLook, VerbatimLook
  <2>3. source \in Source /\ node.source = source /\ node.tag \in {"script", "style"} /\ node.attrs = <<>>
    BY <1>4
  <2> HIDE DEF look, source
  <2>4. /\ W!PrintVerbatim(node, lvl) \in Seq(Word)
        /\ VerbatimLook(node, source, Flat(lvl)) \in Seq(Event)
        /\ Shows(exact, "data", W!PrintVerbatim(node, lvl), VerbatimLook(node, source, Flat(lvl)), "data")
    BY <2>3, ShowsVerbatim
  <2> QED BY <2>1, <2>2, <2>4, Zenon DEF look, flow
<1> QED BY <1>1, <1>2, <1>3, <1>4, LeafFields

-----------------------------------------------------------------------------
(* Trees, and the SCEVs they are made from.                                *)

\* What is of a greater height by one.
Taller(nodes) == LeafNode \cup TagOver(nodes)

\* g has the heights up to n.
TreesUpTo(g, n) == g[0] = {} /\ \A k \in 0 .. n - 1 : g[k + 1] = Taller(g[k])

\* There are heights up to every number.
LEMMA TreeExist == \A n \in Nat : \E g : TreesUpTo(g, n)
<1> DEFINE T == {n \in Nat : \E g : TreesUpTo(g, n)}
<1>1. 0 \in T
  <2>1. TreesUpTo([k \in {0} |-> {}], 0)
    BY DEF TreesUpTo
  <2> QED BY <2>1
<1>2. ASSUME NEW n \in Nat, n \in T
      PROVE  n + 1 \in T
  <2>1. PICK g : TreesUpTo(g, n)
    BY <1>2
  <2> DEFINE h == [k \in 0 .. n + 1 |-> IF k = n + 1 THEN Taller(g[n]) ELSE g[k]]
  <2>2. h[0] = {}
    BY <2>1 DEF TreesUpTo
  <2>3. ASSUME NEW k \in 0 .. n
        PROVE  h[k + 1] = Taller(h[k])
    <3>1. CASE k = n
      <4>1. h[k + 1] = Taller(g[n]) /\ h[k] = g[n]
        BY <3>1
      <4> QED BY <4>1
    <3>2. CASE k # n
      <4>1. h[k + 1] = g[k + 1] /\ h[k] = g[k] /\ k \in 0 .. n - 1
        BY <3>2
      <4>2. g[k + 1] = Taller(g[k])
        BY <2>1, <4>1 DEF TreesUpTo
      <4> QED BY <4>1, <4>2
    <3> QED BY <3>1, <3>2
  <2> HIDE DEF h
  <2>4. TreesUpTo(h, n + 1)
    BY <2>2, <2>3 DEF TreesUpTo
  <2> QED BY <2>4
<1> HIDE DEF T
<1>3. \A n \in Nat : n \in T
  BY <1>1, <1>2, InductionOverSet
<1> QED BY <1>3 DEF T

\* Nothing is of height 0; the next height is over the one before it.
LEMMA TreeHeights == TreeOf[0] = {} /\ \A n \in Nat : TreeOf[n + 1] = Taller(TreeOf[n])
<1> DEFINE G(n) == CHOOSE g : TreesUpTo(g, n)
           f == [n \in Nat |-> G(n)[n]]
           Step(h) == [n \in Nat |-> IF n = 0 THEN {} ELSE Taller(h[n - 1])]
<1>1. \A n \in Nat : TreesUpTo(G(n), n)
  BY TreeExist, Zenon
<1>2. \A n \in Nat : \A k \in 0 .. n : G(n)[k] = f[k]
  <2>1. ASSUME NEW n \in Nat, NEW m \in 0 .. n
        PROVE  G(n)[m] = G(m)[m]
    <3> DEFINE g == G(n)
               h == G(m)
               T == {k \in Nat : g[k] = h[k]}
    <3>1. TreesUpTo(g, n) /\ TreesUpTo(h, m) /\ m \in Nat
      BY <1>1
    <3> HIDE DEF G, g, h
    <3>2. 0 \in T
      BY <3>1 DEF TreesUpTo
    <3>3. ASSUME NEW k \in 0 .. m - 1, k \in T
          PROVE  k + 1 \in T
      <4>1. k + 1 \in Nat /\ k \in 0 .. n - 1
        OBVIOUS
      <4>2. g[k + 1] = Taller(g[k]) /\ h[k + 1] = Taller(h[k])
        BY <3>1, <4>1 DEF TreesUpTo
      <4>3. g[k + 1] = h[k + 1]
        BY <3>3, <4>2
      <4> QED BY <4>1, <4>3
    <3> HIDE DEF T
    <3>4. \A k \in 0 .. m : k \in T
      BY <3>1, <3>2, <3>3, InductionUpTo
    <3>5. g[m] = h[m]
      BY <3>1, <3>4 DEF T
    <3> QED BY <3>5 DEF g, h
  <2> HIDE DEF G
  <2> QED BY <2>1
<1> HIDE DEF G
<1>3. \A n \in Nat : f[n] = G(n)[n]
  OBVIOUS
<1> DEFINE F == f
<1>4. F = Step(F)
  <2>1. F[0] = {}
    BY <1>1, <1>3 DEF TreesUpTo
  <2>2. \A n \in Nat : F[n + 1] = Taller(F[n])
    <3>1. ASSUME NEW n \in Nat
          PROVE  F[n + 1] = Taller(F[n])
      <4>1. n + 1 \in Nat /\ n \in 0 .. (n + 1) - 1 /\ n \in 0 .. n + 1 /\ n + 1 \in 0 .. n + 1
        OBVIOUS
      <4>2. G(n + 1)[n + 1] = Taller(G(n + 1)[n])
        BY <1>1, <4>1 DEF TreesUpTo
      <4>3. G(n + 1)[n + 1] = F[n + 1] /\ G(n + 1)[n] = F[n]
        BY <1>2, <4>1
      <4> HIDE DEF F
      <4> QED BY <4>2, <4>3, Zenon
    <3> QED BY <3>1
  <2>3. ASSUME NEW n \in Nat
        PROVE  F[n] = Step(F)[n]
    <3>1. CASE n = 0
      BY <2>1, <3>1
    <3>2. CASE n # 0
      <4>1. n - 1 \in Nat /\ (n - 1) + 1 = n
        BY <3>2
      <4>2. F[n] = Taller(F[n - 1])
        BY <2>2, <4>1
      <4> HIDE DEF F
      <4> QED BY <3>2, <4>2
    <3> QED BY <3>1, <3>2
  <2>4. F = [n \in Nat |-> F[n]]
    OBVIOUS
  <2> HIDE DEF F
  <2>5. [n \in Nat |-> F[n]] = [n \in Nat |-> Step(F)[n]]
    BY <2>3, Zenon
  <2>6. [n \in Nat |-> Step(F)[n]] = Step(F)
    OBVIOUS
  <2> QED BY <2>4, <2>5, <2>6, Zenon
<1> HIDE DEF F
<1>5. TreeOf = CHOOSE h : h = Step(h)
  BY DEF TreeOf, Taller
<1>6. TreeOf = Step(TreeOf)
  <2>1. \E h : h = Step(h)
    BY <1>4
  <2> QED BY <1>5, <2>1, Zenon
<1>7. Step(TreeOf)[0] = {} /\ \A n \in Nat : Step(TreeOf)[n + 1] = Taller(TreeOf[n])
  <2> DEFINE h == TreeOf
  <2> HIDE DEF h
  <2>1. Step(h)[0] = {} /\ \A n \in Nat : Step(h)[n + 1] = Taller(h[n])
    OBVIOUS
  <2> QED BY <2>1 DEF h
<1> HIDE DEF Step
<1> QED BY <1>6, <1>7, Zenon

\* What is of a greater height by one.
Wider(parts) ==
  ScevOver({"value", "sizeof", "alignof", "offsetof"}, {<<>>}, AnyValue)
    \cup ScevOver({"trunc", "sext", "zext"}, [1 .. 1 -> parts], {<<>>})
    \cup ScevOver({"add", "mul", "smax", "umax", "udiv"}, Seq(parts), {<<>>})
    \cup ScevOver({"addrec"}, Seq(parts), AnyValue)

\* g has the heights up to n.
ScevsUpTo(g, n) == g[0] = {} /\ \A k \in 0 .. n - 1 : g[k + 1] = Wider(g[k])

\* The same for scalar evolutions.
LEMMA ScevExist == \A n \in Nat : \E g : ScevsUpTo(g, n)
<1> DEFINE T == {n \in Nat : \E g : ScevsUpTo(g, n)}
<1>1. 0 \in T
  <2>1. ScevsUpTo([k \in {0} |-> {}], 0)
    BY DEF ScevsUpTo
  <2> QED BY <2>1
<1>2. ASSUME NEW n \in Nat, n \in T
      PROVE  n + 1 \in T
  <2>1. PICK g : ScevsUpTo(g, n)
    BY <1>2
  <2> DEFINE h == [k \in 0 .. n + 1 |-> IF k = n + 1 THEN Wider(g[n]) ELSE g[k]]
  <2>2. h[0] = {}
    BY <2>1 DEF ScevsUpTo
  <2>3. ASSUME NEW k \in 0 .. n
        PROVE  h[k + 1] = Wider(h[k])
    <3>1. CASE k = n
      <4>1. h[k + 1] = Wider(g[n]) /\ h[k] = g[n]
        BY <3>1
      <4> QED BY <4>1
    <3>2. CASE k # n
      <4>1. h[k + 1] = g[k + 1] /\ h[k] = g[k] /\ k \in 0 .. n - 1
        BY <3>2
      <4>2. g[k + 1] = Wider(g[k])
        BY <2>1, <4>1 DEF ScevsUpTo
      <4> QED BY <4>1, <4>2
    <3> QED BY <3>1, <3>2
  <2> HIDE DEF h
  <2>4. ScevsUpTo(h, n + 1)
    BY <2>2, <2>3 DEF ScevsUpTo
  <2> QED BY <2>4
<1> HIDE DEF T
<1>3. \A n \in Nat : n \in T
  BY <1>1, <1>2, InductionOverSet
<1> QED BY <1>3 DEF T

\* Nothing is of height 0; the next height is over the one before it.
LEMMA ScevHeights == ScevOf[0] = {} /\ \A n \in Nat : ScevOf[n + 1] = Wider(ScevOf[n])
<1> DEFINE G(n) == CHOOSE g : ScevsUpTo(g, n)
           f == [n \in Nat |-> G(n)[n]]
           Step(h) == [n \in Nat |-> IF n = 0 THEN {} ELSE Wider(h[n - 1])]
<1>1. \A n \in Nat : ScevsUpTo(G(n), n)
  BY ScevExist, Zenon
<1>2. \A n \in Nat : \A k \in 0 .. n : G(n)[k] = f[k]
  <2>1. ASSUME NEW n \in Nat, NEW m \in 0 .. n
        PROVE  G(n)[m] = G(m)[m]
    <3> DEFINE g == G(n)
               h == G(m)
               T == {k \in Nat : g[k] = h[k]}
    <3>1. ScevsUpTo(g, n) /\ ScevsUpTo(h, m) /\ m \in Nat
      BY <1>1
    <3> HIDE DEF G, g, h
    <3>2. 0 \in T
      BY <3>1 DEF ScevsUpTo
    <3>3. ASSUME NEW k \in 0 .. m - 1, k \in T
          PROVE  k + 1 \in T
      <4>1. k + 1 \in Nat /\ k \in 0 .. n - 1
        OBVIOUS
      <4>2. g[k + 1] = Wider(g[k]) /\ h[k + 1] = Wider(h[k])
        BY <3>1, <4>1 DEF ScevsUpTo
      <4>3. g[k + 1] = h[k + 1]
        BY <3>3, <4>2
      <4> QED BY <4>1, <4>3
    <3> HIDE DEF T
    <3>4. \A k \in 0 .. m : k \in T
      BY <3>1, <3>2, <3>3, InductionUpTo
    <3>5. g[m] = h[m]
      BY <3>1, <3>4 DEF T
    <3> QED BY <3>5 DEF g, h
  <2> HIDE DEF G
  <2> QED BY <2>1
<1> HIDE DEF G
<1>3. \A n \in Nat : f[n] = G(n)[n]
  OBVIOUS
<1> DEFINE F == f
<1>4. F = Step(F)
  <2>1. F[0] = {}
    BY <1>1, <1>3 DEF ScevsUpTo
  <2>2. \A n \in Nat : F[n + 1] = Wider(F[n])
    <3>1. ASSUME NEW n \in Nat
          PROVE  F[n + 1] = Wider(F[n])
      <4>1. n + 1 \in Nat /\ n \in 0 .. (n + 1) - 1 /\ n \in 0 .. n + 1 /\ n + 1 \in 0 .. n + 1
        OBVIOUS
      <4>2. G(n + 1)[n + 1] = Wider(G(n + 1)[n])
        BY <1>1, <4>1 DEF ScevsUpTo
      <4>3. G(n + 1)[n + 1] = F[n + 1] /\ G(n + 1)[n] = F[n]
        BY <1>2, <4>1
      <4> HIDE DEF F
      <4> QED BY <4>2, <4>3, Zenon
    <3> QED BY <3>1
  <2>3. ASSUME NEW n \in Nat
        PROVE  F[n] = Step(F)[n]
    <3>1. CASE n = 0
      BY <2>1, <3>1
    <3>2. CASE n # 0
      <4>1. n - 1 \in Nat /\ (n - 1) + 1 = n
        BY <3>2
      <4>2. F[n] = Wider(F[n - 1])
        BY <2>2, <4>1
      <4> HIDE DEF F
      <4> QED BY <3>2, <4>2
    <3> QED BY <3>1, <3>2
  <2>4. F = [n \in Nat |-> F[n]]
    OBVIOUS
  <2> HIDE DEF F
  <2>5. [n \in Nat |-> F[n]] = [n \in Nat |-> Step(F)[n]]
    BY <2>3, Zenon
  <2>6. [n \in Nat |-> Step(F)[n]] = Step(F)
    OBVIOUS
  <2> QED BY <2>4, <2>5, <2>6, Zenon
<1> HIDE DEF F
<1>5. ScevOf = CHOOSE h : h = Step(h)
  BY DEF ScevOf, Wider
<1>6. ScevOf = Step(ScevOf)
  <2>1. \E h : h = Step(h)
    BY <1>4
  <2> QED BY <1>5, <2>1, Zenon
<1>7. Step(ScevOf)[0] = {} /\ \A n \in Nat : Step(ScevOf)[n + 1] = Wider(ScevOf[n])
  <2> DEFINE h == ScevOf
  <2> HIDE DEF h
  <2>1. Step(h)[0] = {} /\ \A n \in Nat : Step(h)[n + 1] = Wider(h[n])
    OBVIOUS
  <2> QED BY <2>1 DEF h
<1> HIDE DEF Step
<1> QED BY <1>6, <1>7, Zenon

\* Over more nodes there are more trees.
LEMMA TallerGrows ==
  ASSUME NEW X, NEW Y, X \subseteq Y
  PROVE  Taller(X) \subseteq Taller(Y)
<1>1. Seq(X) \subseteq Seq(Y)
  BY SeqMonotonic
<1> DEFINE P == Seq(X)
           Q == Seq(Y)
           L == AttrList
<1> HIDE DEF P, Q, L
<1>2. P \subseteq Q
  BY <1>1 DEF P, Q
<1>3. [kind : {"simple"}, tag : TagName, attrs : L, style : {"block", "flow"}, body : P]
        \subseteq [kind : {"simple"}, tag : TagName, attrs : L, style : {"block", "flow"}, body : Q]
  BY <1>2
<1>4. TagOver(X) \subseteq TagOver(Y)
  BY <1>3 DEF TagOver, P, Q, L
<1> QED BY <1>4 DEF Taller

\* A tree of one height is of all greater ones.
LEMMA TreesGrow == \A n \in Nat : \A m \in Nat : n <= m => TreeOf[n] \subseteq TreeOf[m]
<1> DEFINE T == {n \in Nat : TreeOf[n] \subseteq TreeOf[n + 1]}
<1>1. 0 \in T
  BY TreeHeights
<1>2. ASSUME NEW n \in Nat, n \in T
      PROVE  n + 1 \in T
  <2> DEFINE X == TreeOf[n]
             Y == TreeOf[n + 1]
  <2>1. TreeOf[n + 1] = Taller(X) /\ TreeOf[(n + 1) + 1] = Taller(Y)
    BY TreeHeights
  <2>2. X \subseteq Y
    BY <1>2
  <2> HIDE DEF X, Y
  <2>3. Taller(X) \subseteq Taller(Y)
    BY <2>2, TallerGrows
  <2> QED BY <2>1, <2>3
<1> HIDE DEF T
<1>3. \A n \in Nat : n \in T
  BY <1>1, <1>2, InductionOverSet
<1>4. ASSUME NEW n \in Nat
      PROVE  \A d \in Nat : TreeOf[n] \subseteq TreeOf[n + d]
  <2> DEFINE D == {d \in Nat : TreeOf[n] \subseteq TreeOf[n + d]}
  <2>1. 0 \in D
    OBVIOUS
  <2>2. ASSUME NEW d \in Nat, d \in D
        PROVE  d + 1 \in D
    <3>1. n + d \in Nat /\ n + (d + 1) = (n + d) + 1
      OBVIOUS
    <3>2. TreeOf[n + d] \subseteq TreeOf[(n + d) + 1]
      BY <1>3, <3>1 DEF T
    <3> QED BY <2>2, <3>1, <3>2
  <2> HIDE DEF D
  <2>3. \A d \in Nat : d \in D
    BY <2>1, <2>2, InductionOverSet
  <2> QED BY <2>3 DEF D
<1>5. ASSUME NEW n \in Nat, NEW m \in Nat, n <= m
      PROVE  TreeOf[n] \subseteq TreeOf[m]
  <2>1. m - n \in Nat /\ n + (m - n) = m
    BY <1>5
  <2> QED BY <1>4, <2>1
<1> QED BY <1>5

\* A tree has no children, or is a tag with trees that are less high in it.
LEMMA TreeIs ==
  ASSUME NEW n \in Nat, NEW node \in TreeOf[n]
  PROVE  /\ n # 0
         /\ (node \in LeafNode /\ node.kind # "simple") \/ node \in TagOver(TreeOf[n - 1])
<1>1. n # 0
  BY TreeHeights
<1>2. n - 1 \in Nat /\ (n - 1) + 1 = n
  BY <1>1
<1>3. TreeOf[n] = Taller(TreeOf[n - 1])
  BY <1>2, TreeHeights
<1>4. node \in LeafNode => node.kind # "simple"
  BY LeafFields
<1> QED BY <1>1, <1>3, <1>4 DEF Taller

\* What is in a tag is less high.
LEMMA ChildLess ==
  ASSUME NEW n \in Nat, NEW node \in TreeOf[n], node.kind = "simple"
  PROVE  /\ node.body \in Seq(TreeOf[n - 1])
         /\ \A k \in 1 .. Len(node.body) : n - 1 \in Nat /\ node.body[k] \in TreeOf[n - 1]
<1>1. n - 1 \in Nat /\ node \in TagOver(TreeOf[n - 1])
  BY TreeIs
<1> DEFINE X == TreeOf[n - 1]
<1> HIDE DEF X
<1>2. node.body \in Seq(X)
  BY <1>1, TagFields DEF X
<1> QED BY <1>1, <1>2 DEF X

\* The nodes of a tree, one level of children after another.
Inner(s) == UNION {ToSet(n.body) : n \in {n \in s : n.kind = "simple"}}
Levels(root, l) == l[0] = {root} /\ \A k \in 0 .. Height - 2 : l[k + 1] = Inner(l[k])
AllLevels(root, l) == Levels(root, l) /\ Nodes(root) = UNION {l[k] : k \in 0 .. Height - 1}
LevelsOf(root) == CHOOSE l : AllLevels(root, l)

\* What is in trees of some height is less high.
LEMMA InnerLess ==
  ASSUME NEW n \in Nat, NEW s, s \subseteq TreeOf[n]
  PROVE  Inner(s) \subseteq TreeOf[n - 1]
<1>1. ASSUME NEW x \in s, x.kind = "simple"
      PROVE  ToSet(x.body) \subseteq TreeOf[n - 1]
  <2>1. x \in TreeOf[n]
    OBVIOUS
  <2>2. x.body \in Seq(TreeOf[n - 1])
    BY <1>1, <2>1, ChildLess
  <2> QED BY <2>2 DEF ToSet
<1> QED BY <1>1 DEF Inner

\* Every tree has levels, and they are its nodes.
LEMMA NodesByLevel ==
  ASSUME NEW root \in TreeOf[Height]
  PROVE  Levels(root, LevelsOf(root)) /\ Nodes(root) = UNION {LevelsOf(root)[k] : k \in 0 .. Height - 1}
<1> DEFINE H == Height
           D == 0 .. H - 1
           X == SUBSET TreeOf[H]
           In(s) == UNION {ToSet(n.body) : n \in {n \in s : n.kind = "simple"}}
           Step(h) == [k \in D |-> IF k = 0 THEN {root} ELSE In(h[k - 1])]
           step == [k \in Nat |-> [s \in X |-> In(s)]]
           level == CHOOSE h : h = Step(h)
<1>1. H \in Nat /\ H > 0 /\ H - 1 \in Nat
  BY StackAssumption DEF Height
<1> HIDE DEF H
<1>2. Nodes(root) = UNION {level[k] : k \in D}
  BY Zenon DEF Nodes, H
<1>4. \E h : h = Step(h)
  <2>1. \A s \in X : In(s) \in X
    <3>1. ASSUME NEW s \in X
          PROVE  In(s) \subseteq TreeOf[H]
      <4>1. In(s) \subseteq TreeOf[H - 1]
        <5>1. s \subseteq TreeOf[H]
          OBVIOUS
        <5> HIDE DEF In
        <5>2. Inner(s) \subseteq TreeOf[H - 1]
          BY <1>1, <5>1, InnerLess
        <5> QED BY <5>2, Zenon DEF In, Inner
      <4>2. TreeOf[H - 1] \subseteq TreeOf[H]
        BY <1>1, TreesGrow
      <4> QED BY <4>1, <4>2
    <3> QED BY <3>1
  <2> HIDE DEF In
  <2>2. step \in [Nat -> [X -> X]]
    BY <2>1
  <2>3. {root} \in X
    BY DEF H
  <2>4. \A k \in Nat : \A s \in X : step[k][s] = In(s)
    OBVIOUS
  <2> HIDE DEF X, step
  <2>5. PICK g \in [0 .. H - 1 -> X] : Steps(g, {root}, step, H - 1)
    <3> DEFINE base == {root}
    <3> HIDE DEF base
    <3>1. base \in X
      BY <2>3 DEF base
    <3>2. \E g \in [0 .. H - 1 -> X] : Steps(g, base, step, H - 1)
      BY <1>1, <2>2, <3>1, StepsExist
    <3> QED BY <3>2 DEF base
  <2>6. g[0] = {root} /\ \A k \in 0 .. (H - 1) - 1 : g[k + 1] = In(g[k])
    <3>1. \A k \in 0 .. (H - 1) - 1 : g[k + 1] = step[k][g[k]] /\ k \in Nat /\ g[k] \in X
      BY <1>1, <2>5 DEF Steps
    <3>2. g[0] = {root}
      BY <2>5 DEF Steps
    <3> QED BY <2>4, <3>1, <3>2
  <2>7. ASSUME NEW k \in D
        PROVE  g[k] = IF k = 0 THEN {root} ELSE In(g[k - 1])
    <3>1. CASE k = 0
      BY <2>6, <3>1
    <3>2. CASE k # 0
      <4>1. k - 1 \in 0 .. (H - 1) - 1 /\ (k - 1) + 1 = k
        BY <1>1, <3>2
      <4>2. g[k] = In(g[k - 1])
        BY <2>6, <4>1
      <4> QED BY <3>2, <4>2
    <3> QED BY <3>1, <3>2
  <2>8. g = [k \in D |-> g[k]]
    BY <2>5
  <2>9. [k \in D |-> g[k]] = Step(g)
    BY <2>7, Zenon
  <2> QED BY <2>8, <2>9, Zenon
<1>5. level = Step(level)
  <2> HIDE DEF Step
  <2> QED BY <1>4
<1> HIDE DEF level
<1>6. /\ level[0] = {root}
      /\ \A k \in 0 .. H - 2 : level[k + 1] = In(level[k])
  <2> DEFINE l == level
             s == Step(l)
  <2>1. /\ s[0] = {root}
        /\ \A k \in 0 .. H - 2 : s[k + 1] = In(l[k])
    <3> HIDE DEF In
    <3> QED BY <1>1
  <2> HIDE DEF s
  <2>2. l = s
    BY <1>5 DEF s
  <2> QED BY <2>1, <2>2, Zenon
<1> HIDE DEF Step
<1>7. Levels(root, level)
  <2>1. \A k \in 0 .. H - 2 : In(level[k]) = Inner(level[k])
    BY Zenon DEF Inner
  <2> HIDE DEF In
  <2>2. \A k \in 0 .. H - 2 : level[k + 1] = Inner(level[k])
    BY <1>6, <2>1, Zenon
  <2> QED BY <1>6, <2>2, Zenon DEF Levels, H
<1>8. AllLevels(root, level)
  BY <1>2, <1>7, Zenon DEF AllLevels, H
<1>9. AllLevels(root, LevelsOf(root))
  BY <1>8, Zenon DEF LevelsOf
<1> QED BY <1>9, Zenon DEF AllLevels

\* The nodes of a tree: the tree, and all that is in a node of it.
LEMMA NodesOfTree ==
  ASSUME NEW root \in TreeOf[Height]
  PROVE  /\ root \in Nodes(root)
         /\ Nodes(root) \subseteq TreeOf[Height]
         /\ \A n \in Nodes(root) : n.kind = "simple" =>
              \A k \in 1 .. Len(n.body) : n.body[k] \in Nodes(root)
<1> DEFINE H == Height
           D == 0 .. H - 1
           In(s) == Inner(s)
           level == LevelsOf(root)
<1>1. H \in Nat /\ H > 0 /\ H - 1 \in Nat
  BY StackAssumption DEF Height
<1> HIDE DEF H
<1>2. Nodes(root) = UNION {level[k] : k \in D}
  BY NodesByLevel, Zenon DEF H
<1>3. ASSUME NEW n \in Nat, NEW s, s \subseteq TreeOf[n]
      PROVE  In(s) \subseteq TreeOf[n - 1]
  BY <1>3, InnerLess
<1>6. /\ level[0] = {root}
      /\ \A k \in 0 .. H - 2 : level[k + 1] = In(level[k])
  BY NodesByLevel, Zenon DEF Levels, H
<1> HIDE DEF level
<1>7. \A k \in D : level[k] \subseteq TreeOf[H - k]
  <2> DEFINE T == {k \in Nat : level[k] \subseteq TreeOf[H - k]}
  <2>1. 0 \in T
    BY <1>1, <1>6 DEF H
  <2>2. ASSUME NEW k \in 0 .. (H - 1) - 1, k \in T
        PROVE  k + 1 \in T
    <3>1. level[k] \subseteq TreeOf[H - k] /\ H - k \in Nat /\ k \in 0 .. H - 2 /\ (H - k) - 1 = H - (k + 1)
          /\ k + 1 \in Nat
      BY <1>1, <2>2
    <3>2. level[k + 1] = In(level[k])
      BY <1>6, <3>1
    <3> HIDE DEF In
    <3>3. In(level[k]) \subseteq TreeOf[(H - k) - 1]
      BY <1>3, <3>1
    <3> QED BY <3>1, <3>2, <3>3
  <2> HIDE DEF T
  <2>3. \A k \in 0 .. H - 1 : k \in T
    BY <1>1, <2>1, <2>2, InductionUpTo
  <2> QED BY <2>3 DEF T
<1>8. root \in Nodes(root)
  <2>1. 0 \in D
    BY <1>1
  <2> QED BY <1>2, <1>6, <2>1
<1>9. Nodes(root) \subseteq TreeOf[H]
  <2>1. ASSUME NEW k \in D
        PROVE  level[k] \subseteq TreeOf[H]
    <3>1. H - k \in Nat /\ H - k <= H
      BY <1>1
    <3>2. TreeOf[H - k] \subseteq TreeOf[H]
      BY <1>1, <3>1, TreesGrow
    <3> QED BY <1>7, <3>2
  <2> QED BY <1>2, <2>1
<1>10. ASSUME NEW n \in Nodes(root), n.kind = "simple", NEW i \in 1 .. Len(n.body)
       PROVE  n.body[i] \in Nodes(root)
  <2>1. PICK k \in D : n \in level[k]
    BY <1>2
  <2>2. n \in TreeOf[H - k] /\ H - k \in Nat
    BY <1>1, <1>7, <2>1
  <2>3. (H - k) - 1 \in Nat /\ n.body \in Seq(TreeOf[(H - k) - 1]) /\ n.body[i] \in TreeOf[(H - k) - 1]
    BY <1>10, <2>2, ChildLess
  <2>4. (H - k) - 1 # 0
    BY <2>3, TreeIs
  <2>5. k \in 0 .. H - 2 /\ k + 1 \in D
    BY <1>1, <2>3, <2>4, SMTT(30)
  <2>6. n.body[i] \in In(level[k])
    <3>1. n.body[i] \in ToSet(n.body)
      BY <2>3 DEF ToSet
    <3> QED BY <1>10, <2>1, <3>1 DEF Inner
  <2>7. level[k + 1] = In(level[k])
    BY <1>6, <2>5
  <2> HIDE DEF In
  <2> QED BY <1>2, <2>5, <2>6, <2>7
<1> QED BY <1>8, <1>9, <1>10 DEF H

\* A node of a tree is the tree or in one of its children.
LEMMA NodesUnfold ==
  ASSUME NEW t \in TreeOf[Height], NEW n \in Nodes(t), n # t
  PROVE  t.kind = "simple" /\ \E j \in 1 .. Len(t.body) : n \in Nodes(t.body[j])
<1> DEFINE H == Height
           level == LevelsOf(t)
           child(j) == t.body[j]
           lower(j) == LevelsOf(child(j))
           J == 1 .. Len(t.body)
           Below(k) == \A x \in level[k + 1] : t.kind = "simple" /\ \E j \in J : x \in lower(j)[k]
           T == {k \in Nat : Below(k)}
<1>1. H \in Nat /\ H > 0 /\ H - 1 \in Nat
  BY StackAssumption DEF Height
<1>2. /\ level[0] = {t} /\ \A k \in 0 .. H - 2 : level[k + 1] = Inner(level[k])
      /\ Nodes(t) = UNION {level[k] : k \in 0 .. H - 1}
  BY NodesByLevel, Zenon DEF Levels
<1>3. ASSUME t.kind = "simple", NEW j \in J
      PROVE  /\ lower(j)[0] = {child(j)} /\ \A k \in 0 .. H - 2 : lower(j)[k + 1] = Inner(lower(j)[k])
             /\ Nodes(child(j)) = UNION {lower(j)[k] : k \in 0 .. H - 1}
  <2>1. child(j) \in TreeOf[H - 1]
    BY <1>1, <1>3, ChildLess
  <2>2. TreeOf[H - 1] \subseteq TreeOf[H]
    BY <1>1, TreesGrow
  <2>3. child(j) \in TreeOf[Height]
    BY <2>1, <2>2
  <2> HIDE DEF child
  <2> QED BY <2>3, NodesByLevel, Zenon DEF Levels
<1> HIDE DEF H, level, lower
<1>4. t.kind = "simple" => ToSet(t.body) = {child(j) : j \in J}
  <2>1. ASSUME t.kind = "simple"
        PROVE  t.body \in Seq(TreeOf[Height - 1])
    BY <1>1, <2>1, ChildLess DEF H
  <2> QED BY <2>1 DEF ToSet
<1> HIDE DEF child, J
<1>5. CASE H - 1 = 0
  <2>1. n \in level[0]
    BY <1>2, <1>5
  <2> QED BY <1>2, <2>1
<1>6. CASE H - 1 # 0
  <2>1. H - 2 \in Nat /\ 0 \in 0 .. H - 2
    BY <1>1, <1>6
  <2>2. 0 \in T
    <3>1. ASSUME NEW x \in level[0 + 1]
          PROVE  t.kind = "simple" /\ \E j \in J : x \in lower(j)[0]
      <4>1. level[0 + 1] = Inner(level[0])
        BY <1>2, <2>1
      <4>2. x \in Inner({t})
        BY <1>2, <3>1, <4>1, Zenon
      <4>3. t.kind = "simple" /\ x \in ToSet(t.body)
        BY <4>2, Zenon DEF Inner
      <4>4. PICK j \in J : x = child(j)
        BY <1>4, <4>3
      <4>5. x \in lower(j)[0]
        BY <1>3, <4>3, <4>4
      <4> QED BY <4>3, <4>5
    <3> QED BY <3>1
  <2>3. ASSUME NEW k \in 0 .. (H - 2) - 1, k \in T
        PROVE  k + 1 \in T
    <3>1. k \in 0 .. H - 2 /\ k + 1 \in 0 .. H - 2 /\ k + 1 \in Nat
      BY <2>1
    <3>2. level[(k + 1) + 1] = Inner(level[k + 1])
      BY <1>2, <3>1
    <3>3. Below(k)
      BY <2>3
    <3>4. ASSUME NEW x \in Inner(level[k + 1])
          PROVE  t.kind = "simple" /\ \E j \in J : x \in lower(j)[k + 1]
      <4>1. PICK p \in level[k + 1] : p.kind = "simple" /\ x \in ToSet(p.body)
        BY <3>4, Zenon DEF Inner
      <4>2. t.kind = "simple"
        BY <3>3, <4>1
      <4>3. PICK j \in J : p \in lower(j)[k]
        BY <3>3, <4>1
      <4>4. x \in Inner(lower(j)[k])
        BY <4>1, <4>3, Zenon DEF Inner
      <4>5. lower(j)[k + 1] = Inner(lower(j)[k])
        BY <1>3, <3>1, <4>2
      <4> QED BY <4>2, <4>4, <4>5
    <3>5. Below(k + 1)
      BY <3>2, <3>4, Zenon
    <3> QED BY <3>1, <3>5
  <2> HIDE DEF T, Below
  <2>4. \A k \in 0 .. H - 2 : k \in T
    BY <2>1, <2>2, <2>3, InductionUpTo
  <2>5. PICK k \in 0 .. H - 1 : n \in level[k]
    BY <1>2
  <2>6. k # 0
    BY <1>2, <2>5
  <2>7. k - 1 \in 0 .. H - 2 /\ (k - 1) + 1 = k /\ k - 1 \in 0 .. H - 1
    BY <1>1, <2>1, <2>5, <2>6
  <2>8. Below(k - 1)
    <3> DEFINE i == k - 1
    <3>1. i \in T
      BY <2>4, <2>7
    <3> HIDE DEF i
    <3>2. Below(i)
      BY <3>1, Zenon DEF T
    <3> QED BY <3>2 DEF i
  <2>9. t.kind = "simple" /\ \E j \in J : n \in lower(j)[k - 1]
    BY <2>5, <2>7, <2>8 DEF Below
  <2>10. PICK j \in J : n \in lower(j)[k - 1]
    BY <2>9
  <2>11. n \in Nodes(child(j))
    BY <1>3, <2>7, <2>9, <2>10
  <2> QED BY <2>9, <2>11 DEF J, child
<1> QED BY <1>5, <1>6

-----------------------------------------------------------------------------
(* What the nodes of a tree look like.                                     *)

\* The look of a node by the looks g of those in it.
LookOf(g, n) ==
  [f \in BOOLEAN |->
     NodeLook(n, InFlow(n, f), [k \in DOMAIN Body(n) |-> g[Body(n)[k]][InFlow(n, f)]])]

\* Only the looks of those in it matter.
LEMMA LookSame ==
  ASSUME NEW n, NEW g, NEW h, \A k \in DOMAIN Body(n) : g[Body(n)[k]] = h[Body(n)[k]]
  PROVE  LookOf(g, n) = LookOf(h, n)
<1>1. ASSUME NEW i
      PROVE  [k \in DOMAIN Body(n) |-> g[Body(n)[k]][i]] = [k \in DOMAIN Body(n) |-> h[Body(n)[k]][i]]
  <2>1. \A k \in DOMAIN Body(n) : g[Body(n)[k]][i] = h[Body(n)[k]][i]
    BY Zenon
  <2> QED BY <2>1, Zenon
<1>2. \A f \in BOOLEAN :
        NodeLook(n, InFlow(n, f), [k \in DOMAIN Body(n) |-> g[Body(n)[k]][InFlow(n, f)]])
          = NodeLook(n, InFlow(n, f), [k \in DOMAIN Body(n) |-> h[Body(n)[k]][InFlow(n, f)]])
  BY <1>1, Zenon
<1> QED BY <1>2, Zenon DEF LookOf

\* What is in a node is a node of the tree, and less high.
LEMMA BodyLess ==
  ASSUME NEW root \in TreeOf[Height], NEW h \in Nat, NEW n \in Nodes(root), n \in TreeOf[h + 1],
         NEW k \in DOMAIN Body(n)
  PROVE  Body(n)[k] \in Nodes(root) /\ Body(n)[k] \in TreeOf[h]
<1>1. n.kind = "simple"
  <2>1. CASE n.kind # "simple"
    <3>1. Body(n) = <<>>
      BY <2>1 DEF Body
    <3> QED BY <3>1
  <2> QED BY <2>1
<1>2. Body(n) = n.body
  BY <1>1 DEF Body
<1>3. h + 1 \in Nat /\ (h + 1) - 1 = h
  OBVIOUS
<1>4. n.body \in Seq(TreeOf[h]) /\ \A j \in 1 .. Len(n.body) : n.body[j] \in TreeOf[h]
  BY <1>1, <1>3, ChildLess
<1>5. k \in 1 .. Len(n.body)
  BY <1>2, <1>4
<1>6. n.body[k] \in Nodes(root)
  BY <1>1, <1>5, NodesOfTree
<1> QED BY <1>2, <1>4, <1>5, <1>6

\* There are such looks.
LEMMA LooksAre ==
  ASSUME NEW root \in TreeOf[Height]
  PROVE  \A n \in Nodes(root) : Looks(root)[n] = LookOf(Looks(root), n)
<1> DEFINE N == Nodes(root)
           Fits(g, h) == \A n \in N : n \in TreeOf[h] => g[n] = LookOf(g, n)
           T == {h \in Nat : \E g : Fits(g, h)}
           Next1(g) == [n \in N |-> LookOf(g, n)]
<1>1. 0 \in T
  BY TreeHeights
<1>2. ASSUME NEW g, NEW h \in Nat, Fits(g, h), NEW n \in N, n \in TreeOf[h + 1]
      PROVE  LookOf(Next1(g), n) = LookOf(g, n)
  <2>1. ASSUME NEW k \in DOMAIN Body(n)
        PROVE  Next1(g)[Body(n)[k]] = g[Body(n)[k]]
    <3>1. Body(n)[k] \in N /\ Body(n)[k] \in TreeOf[h]
      BY <1>2, BodyLess
    <3>2. Next1(g)[Body(n)[k]] = LookOf(g, Body(n)[k])
      BY <3>1, Zenon
    <3> QED BY <1>2, <3>1, <3>2, Zenon
  <2> HIDE DEF Next1
  <2> QED BY <2>1, LookSame
<1>3. ASSUME NEW h \in Nat, h \in T
      PROVE  h + 1 \in T
  <2>1. PICK g : Fits(g, h)
    BY <1>3
  <2>2. Fits(Next1(g), h + 1)
    <3>1. ASSUME NEW n \in N, n \in TreeOf[h + 1]
          PROVE  Next1(g)[n] = LookOf(Next1(g), n)
      <4>1. LookOf(Next1(g), n) = LookOf(g, n)
        <5> HIDE DEF Next1, Fits
        <5> QED BY <1>2, <2>1, <3>1
      <4>2. Next1(g)[n] = LookOf(g, n)
        BY Zenon
      <4> QED BY <4>1, <4>2, Zenon
    <3> HIDE DEF Next1
    <3> QED BY <3>1
  <2> HIDE DEF Next1, Fits
  <2> QED BY <2>2
<1>4. \A h \in Nat : h \in T
  <2> HIDE DEF T
  <2> QED BY <1>1, <1>3, InductionOverSet
<1>5. Height \in Nat /\ N \subseteq TreeOf[Height]
  BY StackAssumption, NodesOfTree DEF Height
<1>6. PICK g : Fits(g, Height)
  BY <1>4, <1>5
<1>7. Next1(g) = Next1(Next1(g))
  <2> DEFINE s == Next1(g)
  <2>1. ASSUME NEW n \in N
        PROVE  LookOf(g, n) = LookOf(s, n)
    <3>1. \A m \in N : g[m] = s[m]
      BY <1>5, <1>6, Zenon
    <3>2. \A k \in DOMAIN Body(n) : Body(n)[k] \in N
      <4>1. n \in TreeOf[Height] /\ Height - 1 \in Nat /\ (Height - 1) + 1 = Height
        BY <1>5, StackAssumption DEF Height
      <4> DEFINE h == Height - 1
      <4>2. h \in Nat /\ n \in TreeOf[h + 1]
        BY <4>1
      <4> HIDE DEF h
      <4> QED BY <4>2, BodyLess
    <3> HIDE DEF s
    <3>3. \A k \in DOMAIN Body(n) : g[Body(n)[k]] = s[Body(n)[k]]
      BY <3>1, <3>2, Zenon
    <3> QED BY <3>3, LookSame
  <2> HIDE DEF s
  <2>2. [n \in N |-> LookOf(g, n)] = [n \in N |-> LookOf(s, n)]
    BY <2>1, Zenon
  <2> QED BY <2>2, Zenon DEF s
<1> DEFINE looks == CHOOSE f : f = Next1(f)
<1>8. looks = Next1(looks)
  <2> HIDE DEF Next1
  <2> QED BY <1>7, Zenon
<1>9. Looks(root) = looks
  BY Zenon DEF Looks, LookOf
<1> HIDE DEF looks
<1>10. \A n \in N : Next1(looks)[n] = LookOf(looks, n)
  BY Zenon
<1> HIDE DEF Next1
<1> QED BY <1>8, <1>9, <1>10, Zenon

\* The look of a node of the tree.
LookIn(root, n, f)  == Looks(root)[n][f]
PartsIn(root, n, f) == [k \in DOMAIN Body(n) |-> LookIn(root, Body(n)[k], f)]

\* A node looks as its own parts and its children do.
LEMMA LookUnfolds ==
  ASSUME NEW root \in TreeOf[Height], NEW n \in Nodes(root), NEW f \in BOOLEAN
  PROVE  LookIn(root, n, f) = NodeLook(n, InFlow(n, f), PartsIn(root, n, InFlow(n, f)))
<1>1. Looks(root)[n] = LookOf(Looks(root), n)
  BY LooksAre
<1> QED BY <1>1, Zenon DEF LookIn, PartsIn, LookOf

\* There is a level for both styles.
LEMMA LevelFor == ASSUME NEW f \in BOOLEAN PROVE \E lvl : IsLevel(lvl) /\ Flat(lvl) = f
<1>1. FLOW_STYLE \in Nat /\ FLOW_STYLE > 16
  BY StackAssumption DEF RowLevel
<1>2. CASE f = TRUE
  <2>1. IsLevel(FLOW_STYLE) /\ Flat(FLOW_STYLE) = TRUE
    BY DEF IsLevel, Flat
  <2> QED BY <1>2, <2>1
<1>3. CASE f = FALSE
  <2>1. IsLevel(12) /\ Flat(12) = FALSE
    BY <1>1 DEF IsLevel, Flat
  <2> QED BY <1>3, <2>1
<1> QED BY <1>2, <1>3

\* What a tag looks like.
LEMMA TagLook ==
  ASSUME NEW root \in TreeOf[Height], NEW n \in Nodes(root), n.kind = "simple", NEW f \in BOOLEAN
  PROVE  LookIn(root, n, f)
           = (Line(<<Opening(n)>>, InFlow(n, f)) \o FlattenSeq(PartsIn(root, n, InFlow(n, f))))
               \o Line(<<<<"close", n.tag>>>>, InFlow(n, f))
<1> DEFINE i == InFlow(n, f)
           parts == PartsIn(root, n, i)
<1>1. LookIn(root, n, f) = NodeLook(n, i, parts)
  BY LookUnfolds
<1> HIDE DEF i, parts
<1>2. NodeLook(n, i, parts) = (Line(<<Opening(n)>>, i) \o FlattenSeq(parts)) \o Line(<<<<"close", n.tag>>>>, i)
  BY DEF NodeLook
<1> QED BY <1>1, <1>2, Zenon DEF i, parts

\* Looks are events.
LEMMA LookType ==
  ASSUME NEW exact, NEW root \in TreeOf[Height], \A n \in Nodes(root) : NodeTame(exact, n)
  PROVE  \A n \in Nodes(root) : \A f \in BOOLEAN : LookIn(root, n, f) \in Seq(Event)
<1> DEFINE N == Nodes(root)
           E == Seq(Event)
           T == {h \in Nat : \A n \in N : n \in TreeOf[h] => \A f \in BOOLEAN : LookIn(root, n, f) \in E}
<1>1. 0 \in T
  BY TreeHeights
<1>2. ASSUME NEW h \in Nat, h \in T
      PROVE  h + 1 \in T
  <2> SUFFICES ASSUME NEW n \in N, n \in TreeOf[h + 1], NEW f \in BOOLEAN
               PROVE  LookIn(root, n, f) \in E
    OBVIOUS
  <2> DEFINE i == InFlow(n, f)
             parts == PartsIn(root, n, i)
  <2>1. i \in BOOLEAN
    BY DEF InFlow
  <2>2. PICK lvl : IsLevel(lvl) /\ Flat(lvl) = i
    BY <2>1, LevelFor
  <2>3. LookIn(root, n, f) = NodeLook(n, i, parts)
    BY LookUnfolds
  <2>4. NodeTame(exact, n)
    OBVIOUS
  <2>5. CASE n \in LeafNode
    <3> HIDE DEF parts, E, N
    <3>1. NodeLook(n, Flat(lvl), parts) \in Seq(Event)
      BY <2>2, <2>4, <2>5, ShowsLeaf
    <3> QED BY <2>2, <2>3, <3>1, Zenon DEF E
  <2>6. CASE n \notin LeafNode
    <3>1. n \in TagOver(TreeOf[h])
      <4>1. h + 1 \in Nat /\ (h + 1) - 1 = h
        OBVIOUS
      <4>2. n \in TagOver(TreeOf[(h + 1) - 1])
        BY <2>6, <4>1, TreeIs
      <4> QED BY <4>1, <4>2
    <3> DEFINE X == TreeOf[h]
               t == n.tag
               attrs == n.attrs
               kids == n.body
    <3> HIDE DEF X
    <3>2. n.kind = "simple" /\ t \in TagName /\ attrs \in Seq(TreeAttr) /\ kids \in Seq(X)
      BY <3>1, TagFields DEF X
    <3>3. t \in Word /\ t \notin {"/", ">"}
      BY <3>2, TagNames
    <3>4. Tame(exact, attrs)
      BY <2>4, <3>2 DEF NodeTame
    <3> DEFINE open == Line(<<Opening(n)>>, i)
               close == Line(<<<<"close", t>>>>, i)
               flat == FlattenSeq(parts)
    <3>5. open \in E /\ close \in E
      <4>1. n.tag = t /\ n.attrs = attrs
        OBVIOUS
      <4> HIDE DEF t, attrs, i
      <4>2. Line(<<Opening(n)>>, Flat(lvl)) \in Seq(Event) /\ Line(<<<<"close", t>>>>, Flat(lvl)) \in Seq(Event)
        BY <2>2, <3>2, <3>3, <3>4, <4>1, ShowsTag
      <4> QED BY <2>2, <4>2, Zenon
    <3>6. parts \in Seq(E)
      <4>1. Body(n) = kids /\ DOMAIN Body(n) = 1 .. Len(kids) /\ Len(kids) \in Nat
        BY <3>2 DEF Body
      <4>2. \A k \in 1 .. Len(kids) : LookIn(root, Body(n)[k], i) \in E
        <5>1. ASSUME NEW k \in 1 .. Len(kids)
              PROVE  LookIn(root, Body(n)[k], i) \in E
          <6>1. k \in DOMAIN Body(n)
            BY <4>1
          <6>2. Body(n)[k] \in N /\ Body(n)[k] \in TreeOf[h]
            BY <6>1, BodyLess
          <6> HIDE DEF N, E, i
          <6> QED BY <1>2, <2>1, <6>2
        <5> QED BY <5>1
      <4>3. parts = [k \in 1 .. Len(kids) |-> LookIn(root, Body(n)[k], i)]
        BY <4>1, Zenon DEF PartsIn
      <4> HIDE DEF parts, E, i, kids
      <4>4. parts \in [1 .. Len(kids) -> E]
        BY <4>2, <4>3
      <4> QED BY <4>1, <4>4, FunctionIsSeq
    <3>7. flat \in E
      <4> HIDE DEF parts
      <4> QED BY <3>6, FlattenType
    <3>8. LookIn(root, n, f) = (open \o flat) \o close
      BY <3>2, TagLook, Zenon
    <3> HIDE DEF open, flat, close
    <3>9. (open \o flat) \o close \in E
      BY <3>5, <3>7
    <3> QED BY <3>8, <3>9
  <2> QED BY <2>5, <2>6
<1>3. \A h \in Nat : h \in T
  <2> HIDE DEF T
  <2> QED BY <1>1, <1>2, InductionOverSet
<1>4. Height \in Nat /\ N \subseteq TreeOf[Height]
  BY StackAssumption, NodesOfTree DEF Height
<1>5. Height \in T
  BY <1>3, <1>4
<1> QED BY <1>4, <1>5

-----------------------------------------------------------------------------
(* What the renderers add to a tag.                                        *)

\* The tags of rows are simple, and all their attributes have values.
RowAttr     == [name : AttrName, value : [1 .. 1 -> AnyText]]
RowTag(X)   == [kind : {"simple"}, tag : TagName, attrs : Seq(RowAttr), style : {"block", "flow"}, body : Seq(X)]
AnyScev     == UNION {ScevOf[n] : n \in Nat}
AnyMetadata == MetadataOver(DOMAIN MdOperands)

\* What is to be added: a node, or a visit; and a tag with what is to be added to it.
Plainly  == ({"add"} \X TreeOf[2]) \cup ({"visit"} \X AnyScev) \cup ({"render"} \X AnyMetadata)
Nested   == Plainly \cup ({"nest"} \X RowTag({}) \X Seq(Plainly))
AnyItem  == Plainly \cup ({"nest"} \X RowTag({}) \X Seq(Nested))

\* One kind of items has all of the kind before.
LEMMA ItemsGrow == Plainly \subseteq Nested /\ Nested \subseteq AnyItem
<1>1. Plainly \subseteq Nested
  BY DEF Nested
<1>2. Seq(Plainly) \subseteq Seq(Nested)
  BY <1>1, SeqMonotonic
<1> DEFINE A == Seq(Plainly)
           B == Seq(Nested)
<1>3. Nested = Plainly \cup ({"nest"} \X RowTag({}) \X A) /\ AnyItem = Plainly \cup ({"nest"} \X RowTag({}) \X B)
  BY DEF Nested, AnyItem
<1>4. A \subseteq B
  BY <1>2
<1> HIDE DEF A, B
<1>5. {"nest"} \X RowTag({}) \X A \subseteq {"nest"} \X RowTag({}) \X B
  BY <1>4
<1> QED BY <1>1, <1>3, <1>5

\* Words that may be the name of a tag or an attribute.
LEMMA RowNames ==
  /\ \A t \in {"span", "a", "div", "tr", "td", "th", "br"} : t \in TagName
  /\ \A n \in {"title", "href", "class", "id", "colspan"} : n \in AttrName
<1>1. ASSUME NEW t \in {"span", "a", "div", "tr", "td", "th", "br"}
      PROVE  t \in TagName
  <2>1. t \in Word
    <3>1. t \in OwnWords
      BY ZenonT(30) DEF OwnWords
    <3> QED BY <3>1, OwnAreWords
  <2>2. t \notin {"/", ">", "script", "style"}
    OBVIOUS
  <2> QED BY <2>1, <2>2 DEF TagName, Word
<1>2. ASSUME NEW n \in {"title", "href", "class", "id", "colspan"}
      PROVE  n \in AttrName
  <2>1. n \in Word
    <3>1. n \in OwnWords
      BY ZenonT(30) DEF OwnWords
    <3> QED BY <3>1, OwnAreWords
  <2>2. n \notin {" ", "\n", "indent", ">"}
    OBVIOUS
  <2> QED BY <2>1, <2>2 DEF AttrName, Word
<1> QED BY <1>1, <1>2

\* An attribute of a row.
LEMMA RowAttrType ==
  ASSUME NEW n \in AttrName, NEW v \in Seq(Word)
  PROVE  R!Attr(n, v) \in RowAttr
<1>1. v \in AnyText
  BY DEF AnyText, Word
<1> HIDE DEF AnyText
<1>2. <<v>> \in [1 .. 1 -> AnyText]
  BY <1>1
<1> QED BY <1>2 DEF RowAttr, R!Attr

\* A tag that nothing is in yet.
LEMMA RowTagType ==
  ASSUME NEW t \in TagName, NEW attrs \in Seq(RowAttr), NEW style \in {"block", "flow"}
  PROVE  R!SimpleTag(t, attrs, style) \in RowTag({})
<1> DEFINE A == Seq(RowAttr)
           B == Seq({})
           none == <<>>
<1>1. none \in B /\ attrs \in A
  OBVIOUS
<1>2. RowTag({}) = [kind : {"simple"}, tag : TagName, attrs : A, style : {"block", "flow"}, body : B]
  BY DEF RowTag
<1>3. R!SimpleTag(t, attrs, style) = [kind |-> "simple", tag |-> t, attrs |-> attrs, style |-> style, body |-> none]
  BY DEF R!SimpleTag
<1> HIDE DEF A, B, none
<1> QED BY <1>1, <1>2, <1>3

\* A tag of a row is one of a tree, with what it is over.
LEMMA RowTagIs ==
  ASSUME NEW X, NEW t \in RowTag(X)
  PROVE  t \in TagOver(X) /\ t.kind = "simple"
<1> DEFINE A == Seq(RowAttr)
           B == AttrList
           C == Seq(X)
           T == AnyText
<1>1. RowAttr \subseteq [name : AttrName, value : {<<>>} \cup [1 .. 1 -> AnyText]]
  <2>1. RowAttr = [name : AttrName, value : [1 .. 1 -> T]] /\ AnyText = T
    BY DEF RowAttr
  <2> HIDE DEF T
  <2> QED BY <2>1
<1>2. A \subseteq B
  BY <1>1, SeqMonotonic DEF AttrList
<1>3. /\ RowTag(X) = [kind : {"simple"}, tag : TagName, attrs : A, style : {"block", "flow"}, body : C]
      /\ TagOver(X) = [kind : {"simple"}, tag : TagName, attrs : B, style : {"block", "flow"}, body : C]
  BY DEF RowTag, TagOver
<1> HIDE DEF A, B, C
<1> QED BY <1>2, <1>3

\* Tags of a row may have more kinds of children.
LEMMA RowTagGrows ==
  ASSUME NEW X, NEW Y, X \subseteq Y
  PROVE  RowTag(X) \subseteq RowTag(Y)
<1> DEFINE A == Seq(RowAttr)
           B == Seq(X)
           C == Seq(Y)
<1>1. B \subseteq C
  BY SeqMonotonic
<1>2. /\ RowTag(X) = [kind : {"simple"}, tag : TagName, attrs : A, style : {"block", "flow"}, body : B]
      /\ RowTag(Y) = [kind : {"simple"}, tag : TagName, attrs : A, style : {"block", "flow"}, body : C]
  BY DEF RowTag
<1> HIDE DEF A, B, C
<1> QED BY <1>1, <1>2

\* A child more.
LEMMA RowTagAdd ==
  ASSUME NEW X, NEW t \in RowTag(X), NEW n \in X
  PROVE  R!AddChild(t, n) \in RowTag(X)
<1> DEFINE A == Seq(RowAttr)
           B == Seq(X)
           b == Append(t.body, n)
<1>1. RowTag(X) = [kind : {"simple"}, tag : TagName, attrs : A, style : {"block", "flow"}, body : B]
  BY DEF RowTag
<1>2. t.body \in B
  <2> HIDE DEF A, B
  <2> QED BY <1>1
<1>3. b \in B
  BY <1>2
<1>4. R!AddChild(t, n) = [t EXCEPT !.body = b]
  BY DEF R!AddChild
<1> HIDE DEF A, B, b
<1> QED BY <1>1, <1>3, <1>4

\* A class goes into an attribute that is there, or a new one.
LEMMA RowTagClass ==
  ASSUME NEW X, NEW t \in RowTag(X), NEW c \in Seq(Word)
  PROVE  R!AddClass(t, c) \in RowTag(X)
<1> DEFINE A == Seq(RowAttr)
           B == Seq(X)
           V == AnyText
           attrs == t.attrs
           n == Len(attrs)
           Has(k) == attrs[k].name = "class"
           k0 == CHOOSE k \in DOMAIN attrs : Has(k) /\ \A j \in 1 .. k - 1 : ~Has(j)
           class == "class"
<1>1. RowTag(X) = [kind : {"simple"}, tag : TagName, attrs : A, style : {"block", "flow"}, body : B]
  BY DEF RowTag
<1>2. attrs \in A
  <2> HIDE DEF A, B
  <2> QED BY <1>1
<1>3. class \in AttrName
  BY RowNames
<1>4. CASE \A k \in DOMAIN attrs : ~Has(k)
  <2> DEFINE a == R!Attr(class, c)
             more == Append(attrs, a)
  <2>1. a \in RowAttr
    <3> HIDE DEF class
    <3> QED BY <1>3, RowAttrType
  <2>2. more \in A
    <3> HIDE DEF a
    <3> QED BY <1>2, <2>1, SMTT(30)
  <2>3. R!AddClass(t, c) = [t EXCEPT !.attrs = more]
    BY <1>4 DEF R!AddClass, R!AddAttr
  <2> HIDE DEF A, B, more, attrs
  <2> QED BY <1>1, <2>2, <2>3
<1>5. CASE \E k \in DOMAIN attrs : Has(k)
  <2>1. k0 \in 1 .. n /\ n \in Nat /\ Has(k0)
    <3> DEFINE P(i) == i \in 1 .. n /\ Has(i)
    <3>1. DOMAIN attrs = 1 .. n /\ n \in Nat
      BY <1>2
    <3>2. \E i \in Nat : P(i)
      BY <1>5, <3>1
    <3>3. PICK i \in Nat : P(i) /\ \A j \in 0 .. i - 1 : ~P(j)
      <4> DEFINE S == {i \in Nat : P(i)}
      <4>1. S \in SUBSET Nat /\ S # {}
        BY <3>2
      <4> HIDE DEF S
      <4>2. \E i \in S : \A j \in S : i <= j
        BY <4>1, LeastNatural
      <4> QED BY <4>2 DEF S
    <3>4. i \in DOMAIN attrs /\ Has(i) /\ \A j \in 1 .. i - 1 : ~Has(j)
      BY <3>1, <3>3, SMTT(30)
    <3> QED BY <3>1, <3>4, Zenon
  <2> DEFINE blank == " "
             old == attrs[k0].value[1]
             longer == old \o <<blank>> \o c
             a == R!Attr(class, longer)
             other == [attrs EXCEPT ![k0] = a]
  <2>2. old \in Seq(Word)
    <3>1. attrs[k0] \in RowAttr
      <4> HIDE DEF k0, attrs, Has
      <4> QED BY <1>2, <2>1, ElementOfSeq
    <3>2. old \in AnyText
      <4> HIDE DEF k0, attrs, V
      <4>1. attrs[k0] \in [name : AttrName, value : [1 .. 1 -> V]]
        BY <3>1 DEF RowAttr, V
      <4> QED BY <4>1 DEF V
    <3> QED BY <3>2 DEF AnyText, Word
  <2>3. blank \in Word
    <3>1. blank \in OwnWords
      BY DEF OwnWords
    <3> QED BY <3>1, OwnAreWords
  <2>4. longer \in Seq(Word)
    <3> HIDE DEF old, blank
    <3> QED BY <2>2, <2>3
  <2>5. a \in RowAttr
    <3> HIDE DEF longer, class
    <3> QED BY <1>3, <2>4, RowAttrType
  <2>6. other \in A
    <3> HIDE DEF a, k0, attrs, Has
    <3>1. other \in Seq(RowAttr)
      BY <1>2, <2>1, <2>5, ExceptSeq
    <3> QED BY <3>1
  <2>7. R!AddClass(t, c) = [t EXCEPT !.attrs = other]
    BY <1>5, Zenon DEF R!AddClass, R!Attr
  <2> HIDE DEF A, B, other, attrs
  <2> QED BY <1>1, <2>6, <2>7
<1> QED BY <1>4, <1>5, Zenon DEF Has

\* The first three heights of trees.
LEMMA LowTrees ==
  /\ LeafNode \subseteq TreeOf[1] /\ LeafNode \subseteq TreeOf[2]
  /\ TreeOf[2] = Taller(TreeOf[1])
<1>1. TreeOf[0 + 1] = Taller(TreeOf[0]) /\ TreeOf[1 + 1] = Taller(TreeOf[1])
  BY TreeHeights
<1>2. 0 + 1 = 1 /\ 1 + 1 = 2
  OBVIOUS
<1> QED BY <1>1, <1>2 DEF Taller

\* A text.
LEMMA TextItem ==
  ASSUME NEW txt \in Seq(Word)
  PROVE  R!Str(txt) \in LeafNode /\ R!Text(txt) \in Plainly
<1> DEFINE V == AnyText
<1>1. txt \in V
  BY DEF AnyText, Word
<1>2. R!Str(txt) \in [kind : {"string"}, txt : V]
  <2> HIDE DEF V
  <2> QED BY <1>1 DEF R!Str
<1>3. R!Str(txt) \in LeafNode
  BY <1>2 DEF LeafNode
<1> HIDE DEF V
<1>4. R!Str(txt) \in TreeOf[2]
  BY <1>3, LowTrees
<1> QED BY <1>3, <1>4 DEF Plainly, R!Text, R!Add

\* Texts of words of the program.
LEMMA WordItem ==
  ASSUME NEW a \in OwnWords
  PROVE  <<a>> \in Seq(Word) /\ R!Text(<<a>>) \in Plainly
<1>1. a \in Word
  BY OwnAreWords
<1>2. <<a>> \in Seq(Word)
  BY <1>1
<1> QED BY <1>2, TextItem

\* Two words to be added.
LEMMA WordsItem ==
  ASSUME NEW a \in OwnWords, NEW b \in OwnWords
  PROVE  R!Text(<<a, b>>) \in Plainly
<1>1. a \in Word /\ b \in Word
  BY OwnAreWords
<1>2. <<a, b>> \in Seq(Word)
  BY <1>1
<1> QED BY <1>2, TextItem

\* Three words to be added.
LEMMA ThreeWordsItem ==
  ASSUME NEW a \in OwnWords, NEW b \in OwnWords, NEW c \in OwnWords
  PROVE  R!Text(<<a, b, c>>) \in Plainly
<1>1. a \in Word /\ b \in Word /\ c \in Word
  BY OwnAreWords
<1>2. <<a, b, c>> \in Seq(Word)
  BY <1>1
<1> QED BY <1>2, TextItem

\* The fields of a value.
LEMMA ValueFields ==
  ASSUME NEW v \in AnyValue
  PROVE  v.text \in Seq(Word) /\ v.type \in Seq(Word) /\ v.id \in Seq(Word)
<1> DEFINE A == Seq(Word)
<1>1. AnyValue = [text : A, type : A, id : A]
  BY DEF AnyValue, Word
<1> HIDE DEF A
<1>2. v.text \in A /\ v.type \in A /\ v.id \in A
  BY <1>1
<1> QED BY <1>2 DEF A

\* A link, or what is in its place.
LEMMA RefItem ==
  ASSUME NEW v \in AnyValue
  PROVE  R!Ref(v) \in Plainly
<1> DEFINE X == TreeOf[1]
           span == "span"
           link == "a"
           block == "block"
           title == R!Attr("title", v.type)
           hash == "#"
           href == R!Attr("href", <<hash>> \o v.id)
           s == R!Str(v.text)
           t1 == R!SimpleTag(span, <<title>>, block)
           t2 == R!SimpleTag(link, <<href, title>>, block)
<1>1. v.text \in Seq(Word) /\ v.type \in Seq(Word) /\ v.id \in Seq(Word)
  BY ValueFields
<1>2. title \in RowAttr
  BY <1>1, RowNames, RowAttrType
<1>3. href \in RowAttr
  <2> DEFINE id == <<hash>> \o v.id
             n == "href"
  <2>1. hash \in Word
    <3>1. hash \in OwnWords
      BY DEF OwnWords
    <3> QED BY <3>1, OwnAreWords
  <2>2. id \in Seq(Word)
    <3> HIDE DEF hash
    <3> QED BY <1>1, <2>1
  <2>3. n \in AttrName
    BY RowNames
  <2> HIDE DEF id, n
  <2>4. R!Attr(n, id) \in RowAttr
    BY <2>2, <2>3, RowAttrType
  <2> QED BY <2>4 DEF n, id
<1>4. span \in TagName /\ link \in TagName /\ block \in {"block", "flow"}
  BY RowNames
<1>5. s \in X
  BY <1>1, TextItem, LowTrees
<1> HIDE DEF s, X, title, href, span, link, block, hash
<1>6. <<title>> \in Seq(RowAttr) /\ <<href, title>> \in Seq(RowAttr)
  BY <1>2, <1>3
<1>7. t1 \in RowTag({}) /\ t2 \in RowTag({})
  BY <1>4, <1>6, RowTagType
<1> HIDE DEF t1, t2
<1>8. RowTag({}) \subseteq RowTag(X)
  BY RowTagGrows
<1>9. R!AddChild(t1, s) \in RowTag(X) /\ R!AddChild(t2, s) \in RowTag(X)
  BY <1>5, <1>7, <1>8, RowTagAdd
<1>10. \A t \in RowTag(X) : R!Add(t) \in Plainly
  <2> SUFFICES ASSUME NEW t \in RowTag(X)
               PROVE  R!Add(t) \in Plainly
    OBVIOUS
  <2>1. t \in Taller(X)
    BY RowTagIs DEF Taller
  <2>2. t \in TreeOf[2]
    BY <2>1, LowTrees DEF X
  <2> QED BY <2>2 DEF Plainly, R!Add
<1>11. R!Ref(v) = R!Add(R!AddChild(IF v.id = <<>> THEN t1 ELSE t2, s))
  BY Zenon DEF R!Ref, s, t1, t2, title, href, span, link, block, hash
<1>12. R!Add(R!AddChild(t1, s)) \in Plainly /\ R!Add(R!AddChild(t2, s)) \in Plainly
  BY <1>9, <1>10
<1>13. CASE v.id = <<>>
  BY <1>11, <1>12, <1>13, Zenon
<1>14. CASE v.id # <<>>
  BY <1>11, <1>12, <1>14, Zenon
<1> QED BY <1>13, <1>14

\* The empty line.
LEMMA BrItem == R!Br \in Plainly
<1> DEFINE br == "br"
           L == AttrList
           none == <<>>
<1>1. br \in TagName
  BY RowNames
<1>2. none \in L
  BY DEF AttrList
<1> HIDE DEF br, L, none
<1>3. [kind |-> "empty", tag |-> br, attrs |-> none] \in [kind : {"empty"}, tag : TagName, attrs : L]
  BY <1>1, <1>2
<1>4. R!EmptyTag(br, none) \in LeafNode
  BY <1>3 DEF LeafNode, R!EmptyTag, L
<1>5. R!EmptyTag(br, none) \in TreeOf[2]
  BY <1>4, LowTrees
<1>6. R!Br = R!Add(R!EmptyTag(br, none))
  BY Zenon DEF R!Br, br, none
<1> QED BY <1>5, <1>6 DEF Plainly, R!Add

\* The fields of a scalar evolution.
LEMMA ScevFields ==
  ASSUME NEW e \in AnyScev
  PROVE  /\ e.type \in Seq(Word)
         /\ \/ e.op \in {"value", "sizeof", "alignof", "offsetof"} /\ e.value \in AnyValue
            \/ e.op \in {"trunc", "sext", "zext"} /\ e.args \in [1 .. 1 -> AnyScev]
            \/ e.op \in {"add", "mul", "smax", "umax", "udiv"} /\ e.args \in Seq(AnyScev)
            \/ e.op = "addrec" /\ e.args \in Seq(AnyScev) /\ e.value \in AnyValue
<1>1. PICK n \in Nat : e \in ScevOf[n]
  BY DEF AnyScev
<1>2. n # 0
  BY <1>1, ScevHeights
<1>3. PICK m \in Nat : n = m + 1
  <2>1. n - 1 \in Nat /\ n = (n - 1) + 1
    BY <1>2
  <2> QED BY <2>1
<1> DEFINE P == ScevOf[m]
           V == Seq(Word)
           Q == Seq(P)
           Q2 == Seq(AnyScev)
           One == [1 .. 1 -> P]
           One2 == [1 .. 1 -> AnyScev]
<1>4. P \subseteq AnyScev
  BY DEF AnyScev
<1>5. e \in Wider(P)
  BY <1>1, <1>3, ScevHeights
<1>6. Q \subseteq Q2
  BY <1>4, SeqMonotonic
<1>7. One \subseteq One2
  <2> HIDE DEF P
  <2> QED BY <1>4
<1>8. Wider(P) = [op : {"value", "sizeof", "alignof", "offsetof"}, type : V, args : {<<>>}, flags : AnyFlags, value : AnyValue]
                   \cup [op : {"trunc", "sext", "zext"}, type : V, args : One, flags : AnyFlags, value : {<<>>}]
                   \cup [op : {"add", "mul", "smax", "umax", "udiv"}, type : V, args : Q, flags : AnyFlags, value : {<<>>}]
                   \cup [op : {"addrec"}, type : V, args : Q, flags : AnyFlags, value : AnyValue]
  BY DEF Wider, ScevOver, Word
<1> HIDE DEF P, V, Q, Q2, One, One2
<1>9. /\ e.type \in V
      /\ \/ e.op \in {"value", "sizeof", "alignof", "offsetof"} /\ e.value \in AnyValue
         \/ e.op \in {"trunc", "sext", "zext"} /\ e.args \in One
         \/ e.op \in {"add", "mul", "smax", "umax", "udiv"} /\ e.args \in Q
         \/ e.op = "addrec" /\ e.args \in Q /\ e.value \in AnyValue
  <2>1. CASE e \in [op : {"value", "sizeof", "alignof", "offsetof"}, type : V, args : {<<>>}, flags : AnyFlags, value : AnyValue]
    BY <2>1
  <2>2. CASE e \in [op : {"trunc", "sext", "zext"}, type : V, args : One, flags : AnyFlags, value : {<<>>}]
    BY <2>2
  <2>3. CASE e \in [op : {"add", "mul", "smax", "umax", "udiv"}, type : V, args : Q, flags : AnyFlags, value : {<<>>}]
    BY <2>3
  <2>4. CASE e \in [op : {"addrec"}, type : V, args : Q, flags : AnyFlags, value : AnyValue]
    BY <2>4
  <2> QED BY <1>5, <1>8, <2>1, <2>2, <2>3, <2>4
<1> QED BY <1>6, <1>7, <1>9 DEF V, Q2, One2

\* A visit of a part.
LEMMA VisitItem == ASSUME NEW e \in AnyScev PROVE R!Visit(e) \in Plainly
BY DEF Plainly, R!Visit

\* The parts, with a text between each two.
LEMMA ArgsItems ==
  ASSUME NEW e, NEW args \in Seq(AnyScev), e.args = args, NEW sep \in Seq(Word)
  PROVE  R!Args(e, sep) \in Seq(Plainly)
<1> DEFINE n == Len(args)
           Q == Seq(Plainly)
           First(k) == IF k = 1 THEN <<>> ELSE <<R!Text(sep)>>
           f == [k \in 1 .. n |-> First(k) \o <<R!Visit(args[k])>>]
<1>1. n \in Nat /\ DOMAIN args = 1 .. n /\ \A k \in 1 .. n : args[k] \in AnyScev
  BY ElementOfSeq
<1>2. \A k \in 1 .. n : First(k) \o <<R!Visit(args[k])>> \in Q
  <2> SUFFICES ASSUME NEW k \in 1 .. n
               PROVE  First(k) \o <<R!Visit(args[k])>> \in Q
    OBVIOUS
  <2> DEFINE x == R!Text(sep)
             y == R!Visit(args[k])
             s == <<y>>
             t == <<x>>
             none == <<>>
  <2>1. x \in Plainly /\ y \in Plainly
    BY <1>1, TextItem, VisitItem
  <2> HIDE DEF x, y
  <2>2. s \in Seq(Plainly) /\ t \in Seq(Plainly) /\ none \in Seq(Plainly)
    BY <2>1
  <2>3. First(k) = none \/ First(k) = t
    BY Zenon DEF x
  <2> HIDE DEF s, t, none, First
  <2>4. First(k) \in Seq(Plainly)
    BY <2>2, <2>3
  <2>5. First(k) \o s \in Seq(Plainly)
    BY <2>2, <2>4, ConcatProperties
  <2> QED BY <2>5, Zenon DEF s, y
<1>3. f \in [1 .. n -> Q]
  <2> HIDE DEF Q, First
  <2> QED BY <1>2
<1>4. f \in Seq(Q)
  <2> HIDE DEF Q, f, n
  <2> QED BY <1>1, <1>3, FunctionIsSeq
<1>5. FlattenSeq(f) \in Seq(Plainly)
  <2> HIDE DEF f
  <2> QED BY <1>4, FlattenType
<1>6. R!Args(e, sep) = FlattenSeq(f)
  <2>1. R!Args(e, sep) = R!FlattenSeq([k \in DOMAIN args |-> First(k) \o <<R!Visit(args[k])>>])
    BY Zenon DEF R!Args
  <2>2. [k \in DOMAIN args |-> First(k) \o <<R!Visit(args[k])>>] = f
    BY <1>1, Zenon
  <2> HIDE DEF f
  <2> QED BY <2>1, <2>2, SameFlatten, Zenon
<1> QED BY <1>5, <1>6, Zenon

\* What is added if there is a flag.
LEMMA FlagItems ==
  ASSUME NEW e, NEW flag, NEW txt, R!Text(txt) \in Plainly
  PROVE  R!Flag(e, flag, txt) \in Seq(Plainly)
<1> DEFINE x == R!Text(txt)
           one == <<x>>
           none == <<>>
<1>1. R!Flag(e, flag, txt) = one \/ R!Flag(e, flag, txt) = none
  BY DEF R!Flag
<1>2. none \in Seq(Plainly)
  OBVIOUS
<1> HIDE DEF x
<1>3. x \in Plainly
  BY DEF x
<1>4. one \in Seq(Plainly)
  BY <1>3
<1> HIDE DEF one, none
<1> QED BY <1>1, <1>2, <1>4, Zenon

\* A text around another.
LEMMA AroundItem ==
  ASSUME NEW a \in Seq(Word), NEW txt \in Seq(Word), NEW b \in Seq(Word)
  PROVE  R!Text(a \o txt \o b) \in Plainly
<1> DEFINE all == a \o txt \o b
<1>1. all \in Seq(Word)
  OBVIOUS
<1> HIDE DEF all
<1> QED BY <1>1, TextItem DEF all

\* Items one after the other.
LEMMA ItemsBoth ==
  ASSUME NEW a \in Seq(Plainly), NEW b \in Seq(Plainly)
  PROVE  a \o b \in Seq(Plainly)
BY ConcatProperties

\* A cast: its word, the operand, and the type of the operand twice.
LEMMA CastItems ==
  ASSUME NEW e, NEW args \in [1 .. 1 -> AnyScev], e.args = args, NEW word \in OwnWords
  PROVE  R!Cast(e, word) \in Seq(Plainly)
<1> DEFINE a == args[1]
           type == a.type
           blank == " "
           to == " to "
           close == ")"
           first == <<word, blank>>
           sp == <<blank>>
           mid == <<to>>
           end == <<close>>
<1>1. a \in AnyScev
  OBVIOUS
<1>2. type \in Seq(Word)
  <2> HIDE DEF a
  <2> QED BY <1>1, ScevFields
<1>3. word \in Word /\ blank \in Word /\ to \in Word /\ close \in Word
  <2>1. blank \in OwnWords /\ to \in OwnWords /\ close \in OwnWords
    BY ZenonT(30) DEF OwnWords
  <2> QED BY <2>1, OwnAreWords
<1> HIDE DEF blank, to, close
<1>4. first \in Seq(Word) /\ sp \in Seq(Word) /\ mid \in Seq(Word) /\ end \in Seq(Word)
  BY <1>3
<1> DEFINE x == R!Text(first \o type \o sp)
           y == R!Visit(a)
           z == R!Text(mid \o type \o end)
           all == <<x, y, z>>
<1>5. x \in Plainly /\ z \in Plainly
  <2> HIDE DEF first, type, sp, mid, end
  <2> QED BY <1>2, <1>4, AroundItem
<1>6. y \in Plainly
  BY <1>1, VisitItem
<1>7. R!Cast(e, word) = all
  BY Zenon DEF R!Cast, blank, to, close
<1> HIDE DEF x, y, z
<1>8. all \in Seq(Plainly)
  BY <1>5, <1>6
<1> QED BY <1>7, <1>8, Zenon

\* An operator: parentheses, the parts, and what is between them.
LEMMA NAryItems ==
  ASSUME NEW e, NEW args \in Seq(AnyScev), e.args = args, NEW word \in OwnWords
  PROVE  /\ R!NAry(e, <<word>>) \in Seq(Plainly)
         /\ <<R!Text(<<"(">>)>> \o R!Args(e, <<word>>) \o <<R!Text(<<")">>)>> \in Seq(Plainly)
<1> DEFINE x == R!Text(<<"(">>)
           y == R!Args(e, <<word>>)
           z == R!Text(<<")">>)
           s == <<x>>
           t == <<z>>
<1>1. x \in Plainly /\ z \in Plainly
  <2>1. "(" \in OwnWords /\ ")" \in OwnWords
    BY ZenonT(30) DEF OwnWords
  <2> QED BY <2>1, WordItem
<1>2. y \in Seq(Plainly)
  <2>1. <<word>> \in Seq(Word)
    BY WordItem
  <2> QED BY <2>1, ArgsItems
<1> HIDE DEF x, y, z
<1>3. s \in Seq(Plainly) /\ t \in Seq(Plainly)
  BY <1>1
<1> HIDE DEF s, t
<1>4. s \o y \o t \in Seq(Plainly)
  BY <1>2, <1>3, ItemsBoth
<1>5. <<R!Text(<<"(">>)>> \o R!Args(e, <<word>>) \o <<R!Text(<<")">>)>> \in Seq(Plainly)
  BY <1>4, Zenon DEF s, t, x, y, z
<1>6. R!NAry(e, <<word>>) = <<R!Text(<<"(">>)>> \o R!Args(e, <<word>>) \o <<R!Text(<<")">>)>>
  BY Zenon DEF R!NAry
<1> QED BY <1>5, <1>6, Zenon

\* The flags of a sum or product, and of a recurrence.
LEMMA FlagsItems ==
  ASSUME NEW e
  PROVE  /\ R!NAryFlags(e) \in Seq(Plainly)
         /\ R!Flag(e, "nuw", <<"nuw", ">", "<">>) \in Seq(Plainly)
         /\ R!Flag(e, "nsw", <<"nsw", ">", "<">>) \in Seq(Plainly)
<1>1. /\ "<" \in OwnWords /\ ">" \in OwnWords /\ "nuw" \in OwnWords /\ "nsw" \in OwnWords
  BY DEF OwnWords
<1> DEFINE f == <<"<", "nuw", ">">>
           g == <<"nuw", ">", "<">>
           h == <<"nsw", ">", "<">>
           nuw == "nuw"
           nsw == "nsw"
<1>2. R!Text(f) \in Plainly /\ R!Text(g) \in Plainly /\ R!Text(h) \in Plainly
  BY <1>1, ThreeWordsItem
<1> HIDE DEF f, g, h, nuw, nsw
<1>3. /\ R!Flag(e, nuw, f) \in Seq(Plainly) /\ R!Flag(e, nsw, f) \in Seq(Plainly)
      /\ R!Flag(e, nuw, g) \in Seq(Plainly) /\ R!Flag(e, nsw, h) \in Seq(Plainly)
  BY <1>2, FlagItems
<1>4. R!Flag(e, nuw, f) \o R!Flag(e, nsw, f) \in Seq(Plainly)
  BY <1>3, ItemsBoth
<1>5. R!NAryFlags(e) = R!Flag(e, nuw, f) \o R!Flag(e, nsw, f)
  BY Zenon DEF R!NAryFlags, nuw, nsw, f
<1>6. R!NAryFlags(e) \in Seq(Plainly)
  BY <1>4, <1>5, Zenon
<1> QED BY <1>3, <1>6, Zenon DEF nuw, nsw, g, h

\* A recurrence.
LEMMA AddRecItems ==
  ASSUME NEW e, NEW args \in Seq(AnyScev), e.args = args, NEW v \in AnyValue, e.value = v
  PROVE  R!AddRec(e) \in Seq(Plainly)
<1> DEFINE x == R!Text(<<"{">>)
           y == R!Args(e, <<" ,+, ">>)
           z == R!Text(<<"}", "<">>)
           f == R!Flag(e, "nuw", <<"nuw", ">", "<">>)
           g == R!Flag(e, "nsw", <<"nsw", ">", "<">>)
           w == R!Text(<<"nw", ">", "<">>)
           r == R!Ref(v)
           l == R!Text(<<">">>)
           sx == <<x>>
           sz == <<z>>
           sw == <<w>>
           none == <<>>
           h == IF e.flags = {"nw"} THEN sw ELSE none
           end == <<r, l>>
<1>1. /\ "{" \in OwnWords /\ "}" \in OwnWords /\ "<" \in OwnWords /\ ">" \in OwnWords
      /\ "nw" \in OwnWords /\ " ,+, " \in OwnWords
  BY DEF OwnWords
<1>2. x \in Plainly /\ z \in Plainly /\ w \in Plainly /\ l \in Plainly
  BY <1>1, WordItem, WordsItem, ThreeWordsItem
<1>3. r \in Plainly
  BY RefItem
<1>4. y \in Seq(Plainly)
  <2> DEFINE c == " ,+, "
  <2>1. c \in OwnWords
    BY <1>1
  <2> HIDE DEF c
  <2>2. <<c>> \in Seq(Word)
    BY <2>1, WordItem
  <2>3. R!Args(e, <<c>>) \in Seq(Plainly)
    BY <2>2, ArgsItems
  <2> QED BY <2>3 DEF c
<1>5. f \in Seq(Plainly) /\ g \in Seq(Plainly)
  BY FlagsItems
<1> HIDE DEF x, y, z, f, g, w, r, l
<1>6. sx \in Seq(Plainly) /\ sz \in Seq(Plainly) /\ sw \in Seq(Plainly) /\ none \in Seq(Plainly) /\ end \in Seq(Plainly)
  BY <1>2, <1>3
<1>7. h \in Seq(Plainly)
  <2> HIDE DEF sw, none
  <2> QED BY <1>6, Zenon
<1> HIDE DEF sx, sz, h, end
<1>8. (((((sx \o y) \o sz) \o f) \o g) \o h) \o end \in Seq(Plainly)
  BY <1>4, <1>5, <1>6, <1>7, ItemsBoth
<1>9. R!AddRec(e) = (((((sx \o y) \o sz) \o f) \o g) \o h) \o end
  BY Zenon DEF R!AddRec, sx, sz, h, end, sw, none, x, y, z, f, g, w, r, l
<1> QED BY <1>8, <1>9, Zenon

\* What a visit emits.
LEMMA VisitedItems == ASSUME NEW e \in AnyScev PROVE R!Visited(e) \in Seq(Plainly)
<1> DEFINE S == Seq(Plainly)
<1>0. e.type \in Seq(Word)
  BY ScevFields
<1>1. CASE e.op \in {"value", "sizeof", "alignof", "offsetof"} /\ e.value \in AnyValue
  <2> DEFINE v == e.value
             close == <<")">>
             ref == R!Ref(v)
  <2>1. v.type \in Seq(Word) /\ ref \in Plainly
    BY <1>1, ValueFields, RefItem
  <2>2. close \in Seq(Word) /\ R!Text(close) \in Plainly
    <3>1. ")" \in OwnWords
      BY DEF OwnWords
    <3> QED BY <3>1, WordItem
  <2>3. CASE e.op = "value"
    <3>1. R!Visited(e) = <<ref>>
      BY <2>3, Zenon DEF R!Visited
    <3> HIDE DEF ref
    <3>2. <<ref>> \in S
      BY <2>1
    <3> QED BY <3>1, <3>2, Zenon
  <2>4. CASE e.op \in {"sizeof", "alignof"}
    <3>1. ASSUME NEW word \in OwnWords
          PROVE  <<R!Text(<<word>> \o v.type \o close)>> \in S
      <4> DEFINE first == <<word>>
                 x == R!Text(first \o v.type \o close)
      <4>1. first \in Seq(Word)
        BY WordItem
      <4>2. x \in Plainly
        <5> HIDE DEF first, close, v
        <5> QED BY <2>1, <2>2, <4>1, AroundItem
      <4> HIDE DEF x
      <4>3. <<x>> \in S
        BY <4>2
      <4> QED BY <4>3, Zenon DEF x
    <3>2. "sizeof(" \in OwnWords /\ "alignof(" \in OwnWords
      BY DEF OwnWords
    <3>3. \/ R!Visited(e) = <<R!Text(<<"sizeof(">> \o v.type \o close)>>
          \/ R!Visited(e) = <<R!Text(<<"alignof(">> \o v.type \o close)>>
      <4>1. CASE e.op = "sizeof"
        BY <4>1, Zenon DEF R!Visited
      <4>2. CASE e.op = "alignof"
        BY <4>2, Zenon DEF R!Visited
      <4> QED BY <2>4, <4>1, <4>2
    <3>4. <<R!Text(<<"sizeof(">> \o v.type \o close)>> \in S /\ <<R!Text(<<"alignof(">> \o v.type \o close)>> \in S
      BY <3>1, <3>2
    <3> QED BY <3>3, <3>4, Zenon
  <2>5. CASE e.op = "offsetof"
    <3> DEFINE first == <<"offsetof(">>
               comma == <<", ">>
               x == R!Text(first \o e.type \o comma)
               z == R!Text(close)
               all == <<x, ref, z>>
    <3>1. first \in Seq(Word) /\ comma \in Seq(Word)
      <4>1. "offsetof(" \in OwnWords /\ ", " \in OwnWords
        BY DEF OwnWords
      <4> QED BY <4>1, WordItem
    <3>2. x \in Plainly
      <4> HIDE DEF first, comma
      <4> QED BY <1>0, <3>1, AroundItem
    <3>3. R!Visited(e) = all
      BY <2>5, Zenon DEF R!Visited
    <3>4. z \in Plainly
      BY <2>2
    <3> HIDE DEF x, ref, z
    <3>5. all \in S
      BY <2>1, <3>2, <3>4
    <3> QED BY <3>3, <3>5, Zenon
  <2> QED BY <1>1, <2>3, <2>4, <2>5
<1>2. CASE e.op \in {"trunc", "sext", "zext"} /\ e.args \in [1 .. 1 -> AnyScev]
  <2>1. "(trunc" \in OwnWords /\ "(sext" \in OwnWords /\ "(zext" \in OwnWords
    BY DEF OwnWords
  <2>2. R!Cast(e, "(trunc") \in S /\ R!Cast(e, "(sext") \in S /\ R!Cast(e, "(zext") \in S
    BY <1>2, <2>1, CastItems
  <2>3. CASE e.op = "trunc"
    BY <2>2, <2>3, Zenon DEF R!Visited
  <2>4. CASE e.op = "sext"
    BY <2>2, <2>4, Zenon DEF R!Visited
  <2>5. CASE e.op = "zext"
    BY <2>2, <2>5, Zenon DEF R!Visited
  <2> QED BY <1>2, <2>3, <2>4, <2>5
<1>3. CASE e.op \in {"add", "mul", "smax", "umax", "udiv"} /\ e.args \in Seq(AnyScev)
  <2>1. /\ " + " \in OwnWords /\ " * " \in OwnWords /\ " smax " \in OwnWords /\ " umax " \in OwnWords
        /\ "/u" \in OwnWords
    BY DEF OwnWords
  <2>2. ASSUME NEW word \in OwnWords
        PROVE  /\ R!NAry(e, <<word>>) \in S
               /\ <<R!Text(<<"(">>)>> \o R!Args(e, <<word>>) \o <<R!Text(<<")">>)>> \in S
    <3> DEFINE args == e.args
    <3>1. args \in Seq(AnyScev)
      BY <1>3
    <3> HIDE DEF args
    <3>2. e.args = args
      BY DEF args
    <3> QED BY <3>1, <3>2, NAryItems
  <2>3. R!NAryFlags(e) \in S
    BY FlagsItems
  <2>4. CASE e.op = "add"
    <3> DEFINE x == R!NAry(e, <<" + ">>)
    <3>1. x \in S
      BY <2>1, <2>2
    <3> HIDE DEF x
    <3>2. x \o R!NAryFlags(e) \in S
      BY <2>3, <3>1, ItemsBoth
    <3> QED BY <2>4, <3>2, Zenon DEF R!Visited, x
  <2>5. CASE e.op = "mul"
    <3> DEFINE x == R!NAry(e, <<" * ">>)
    <3>1. x \in S
      BY <2>1, <2>2
    <3> HIDE DEF x
    <3>2. x \o R!NAryFlags(e) \in S
      BY <2>3, <3>1, ItemsBoth
    <3> QED BY <2>5, <3>2, Zenon DEF R!Visited, x
  <2>6. CASE e.op = "smax"
    <3>1. R!NAry(e, <<" smax ">>) \in S
      BY <2>1, <2>2
    <3> QED BY <2>6, <3>1, Zenon DEF R!Visited
  <2>7. CASE e.op = "umax"
    <3>1. R!NAry(e, <<" umax ">>) \in S
      BY <2>1, <2>2
    <3> QED BY <2>7, <3>1, Zenon DEF R!Visited
  <2>8. CASE e.op = "udiv"
    <3>1. <<R!Text(<<"(">>)>> \o R!Args(e, <<"/u">>) \o <<R!Text(<<")">>)>> \in S
      BY <2>1, <2>2
    <3> QED BY <2>8, <3>1, Zenon DEF R!Visited
  <2> QED BY <1>3, <2>4, <2>5, <2>6, <2>7, <2>8
<1>4. CASE e.op = "addrec" /\ e.args \in Seq(AnyScev) /\ e.value \in AnyValue
  <2>1. R!AddRec(e) \in S
    BY <1>4, AddRecItems
  <2> QED BY <1>4, <2>1, Zenon DEF R!Visited
<1>5. \/ e.op \in {"value", "sizeof", "alignof", "offsetof"} /\ e.value \in AnyValue
      \/ e.op \in {"trunc", "sext", "zext"} /\ e.args \in [1 .. 1 -> AnyScev]
      \/ e.op \in {"add", "mul", "smax", "umax", "udiv"} /\ e.args \in Seq(AnyScev)
      \/ e.op = "addrec" /\ e.args \in Seq(AnyScev) /\ e.value \in AnyValue
  BY ScevFields
<1> QED BY <1>1, <1>2, <1>3, <1>4, <1>5, Zenon

\* What is rendered of metadata: a node is a tag of its own.
LEMMA RenderedItem ==
  ASSUME NEW md \in AnyMetadata
  PROVE  R!Rendered(md) \in Nested
<1>1. \/ md = <<"null">>
      \/ md \in {"value"} \X AnyValue
      \/ md \in {"string"} \X Seq(Word)
      \/ md \in {"node"} \X DOMAIN MdOperands
  BY DEF AnyMetadata, MetadataOver, Word
<1>2. CASE md = <<"null">>
  <2>1. R!Rendered(md) = R!Text(<<"null">>)
    <3>1. md[1] = "null"
      BY <1>2
    <3> QED BY <3>1, Zenon DEF R!Rendered
  <2>2. "null" \in OwnWords
    BY DEF OwnWords
  <2>3. R!Text(<<"null">>) \in Plainly
    BY <2>2, WordItem
  <2> QED BY <2>1, <2>3, ItemsGrow
<1>3. CASE md \in {"value"} \X AnyValue
  <2>1. md[1] = "value" /\ md[2] \in AnyValue
    BY <1>3
  <2>2. R!Rendered(md) = R!Ref(md[2])
    BY <2>1, Zenon DEF R!Rendered
  <2>3. R!Ref(md[2]) \in Plainly
    BY <2>1, RefItem
  <2> QED BY <2>2, <2>3, ItemsGrow
<1>4. CASE md \in {"string"} \X Seq(Word)
  <2>1. md[1] = "string" /\ md[2] \in Seq(Word)
    <3> DEFINE Q == Seq(Word)
    <3> HIDE DEF Q
    <3>1. md \in {"string"} \X Q
      BY <1>4 DEF Q
    <3>2. md[1] = "string" /\ md[2] \in Q
      BY <3>1
    <3> QED BY <3>2 DEF Q
  <2>2. R!Rendered(md) = R!Text(md[2])
    BY <2>1, Zenon DEF R!Rendered
  <2>3. R!Text(md[2]) \in Plainly
    BY <2>1, TextItem
  <2> QED BY <2>2, <2>3, ItemsGrow
<1>5. CASE md \in {"node"} \X DOMAIN MdOperands
  <2> DEFINE ops == MdOperands[md[2]]
             n == Len(ops)
             x == R!Text(<<"{">>)
             z == R!Text(<<"}">>)
             sx == <<x>>
             sz == <<z>>
             f == [k \in 1 .. n |-> R!Render(ops[k])]
             span == "span"
             none == <<>>
             flow == "flow"
             t == R!SimpleTag(span, none, flow)
             items == sx \o f \o sz
  <2>1. md[1] = "node" /\ md[2] \in DOMAIN MdOperands
    BY <1>5
  <2>2. ops \in Seq(AnyMetadata)
    BY <2>1, MetadataAssumption DEF AnyMetadata
  <2>3. x \in Plainly /\ z \in Plainly
    <3>1. "{" \in OwnWords /\ "}" \in OwnWords
      BY DEF OwnWords
    <3> QED BY <3>1, WordItem
  <2> HIDE DEF x, z, ops
  <2>4. n \in Nat /\ DOMAIN ops = 1 .. n /\ \A k \in 1 .. n : ops[k] \in AnyMetadata
    BY <2>2, ElementOfSeq
  <2>5. \A k \in 1 .. n : R!Render(ops[k]) \in Plainly
    BY <2>4 DEF Plainly, R!Render
  <2>6. f \in Seq(Plainly)
    <3>1. f \in [1 .. n -> Plainly]
      BY <2>5
    <3> HIDE DEF f, n
    <3> QED BY <2>4, <3>1, FunctionIsSeq
  <2>7. sx \in Seq(Plainly) /\ sz \in Seq(Plainly)
    BY <2>3
  <2>8. items \in Seq(Plainly)
    <3> HIDE DEF sx, f, sz
    <3>1. sx \o f \in Seq(Plainly)
      BY <2>6, <2>7, ItemsBoth
    <3>2. (sx \o f) \o sz \in Seq(Plainly)
      BY <2>7, <3>1, ItemsBoth
    <3> QED BY <3>2
  <2>9. t \in RowTag({})
    <3>1. span \in TagName /\ flow \in {"block", "flow"} /\ none \in Seq(RowAttr)
      BY RowNames
    <3> HIDE DEF span, flow, none
    <3> QED BY <3>1, RowTagType
  <2>10. R!Rendered(md) = R!Nest(t, items)
    <3>1. [k \in DOMAIN ops |-> R!Render(ops[k])] = f
      BY <2>4, Zenon
    <3>2. R!Rendered(md) = R!Nest(t, <<R!Text(<<"{">>)>> \o [k \in DOMAIN ops |-> R!Render(ops[k])] \o <<R!Text(<<"}">>)>>)
      BY <2>1, Zenon DEF R!Rendered, ops
    <3> HIDE DEF f
    <3> QED BY <3>1, <3>2, Zenon DEF items, sx, sz, x, z
  <2> HIDE DEF t, items
  <2>11. R!Nest(t, items) \in {"nest"} \X RowTag({}) \X Seq(Plainly)
    BY <2>8, <2>9 DEF R!Nest
  <2> QED BY <2>10, <2>11 DEF Nested
<1> QED BY <1>1, <1>2, <1>3, <1>4, <1>5

\* A tag with what is to be added to it.
LEMMA NestTypes ==
  /\ \A t \in RowTag({}) : \A q \in Seq(Plainly) : R!Nest(t, q) \in Nested
  /\ \A t \in RowTag({}) : \A q \in Seq(Nested) : R!Nest(t, q) \in AnyItem
<1> DEFINE A == Seq(Plainly)
           B == Seq(Nested)
           T == RowTag({})
<1>1. ASSUME NEW t \in T, NEW q \in A
      PROVE  R!Nest(t, q) \in Nested
  <2> HIDE DEF A, T
  <2>1. R!Nest(t, q) \in {"nest"} \X T \X A
    BY DEF R!Nest
  <2> QED BY <2>1 DEF Nested, A, T
<1>2. ASSUME NEW t \in T, NEW q \in B
      PROVE  R!Nest(t, q) \in AnyItem
  <2> HIDE DEF B, T
  <2>1. R!Nest(t, q) \in {"nest"} \X T \X B
    BY DEF R!Nest
  <2> QED BY <2>1 DEF AnyItem, B, T
<1> QED BY <1>1, <1>2

\* An attribute more.
LEMMA RowTagAttr ==
  ASSUME NEW X, NEW t \in RowTag(X), NEW a \in RowAttr
  PROVE  R!AddAttr(t, a) \in RowTag(X)
<1> DEFINE A == Seq(RowAttr)
           B == Seq(X)
           b == Append(t.attrs, a)
<1>1. RowTag(X) = [kind : {"simple"}, tag : TagName, attrs : A, style : {"block", "flow"}, body : B]
  BY DEF RowTag
<1>2. t.attrs \in A
  <2> HIDE DEF A, B
  <2> QED BY <1>1
<1>3. b \in A
  BY <1>2
<1>4. R!AddAttr(t, a) = [t EXCEPT !.attrs = b]
  BY DEF R!AddAttr
<1> HIDE DEF A, B, b
<1> QED BY <1>1, <1>3, <1>4

\* The tags of the rows and cells without attributes.
LEMMA BareTags ==
  ASSUME NEW style \in {"block", "flow"}
  PROVE  /\ R!Div(style) \in RowTag({})
         /\ R!SimpleTag("td", <<>>, style) \in RowTag({})
         /\ R!SimpleTag("tr", <<>>, style) \in RowTag({})
<1> DEFINE div == "div"
           td == "td"
           tr == "tr"
           none == <<>>
<1>1. div \in TagName /\ td \in TagName /\ tr \in TagName /\ none \in Seq(RowAttr)
  BY RowNames
<1> HIDE DEF div, td, tr, none
<1>2. /\ R!SimpleTag(div, none, style) \in RowTag({}) /\ R!SimpleTag(td, none, style) \in RowTag({})
      /\ R!SimpleTag(tr, none, style) \in RowTag({})
  BY <1>1, RowTagType
<1> QED BY <1>2, Zenon DEF div, td, tr, none, R!Div

\* A cell around an item.
LEMMA TdItem ==
  ASSUME NEW x \in Nested
  PROVE  R!Td(x) \in AnyItem
<1> DEFINE t == R!SimpleTag("td", <<>>, "block")
           q == <<x>>
<1>1. t \in RowTag({})
  BY BareTags
<1>2. q \in Seq(Nested)
  OBVIOUS
<1> HIDE DEF t, q
<1>3. R!Nest(t, q) \in AnyItem
  BY <1>1, <1>2, NestTypes
<1> QED BY <1>3, Zenon DEF R!Td, t, q

\* The operands of an instruction, each on a line of its own.
LEMMA OperandsItem ==
  ASSUME NEW i, NEW operands \in Seq(AnyValue), i.operands = operands
  PROVE  R!OperandsCell(i) \in Nested
<1> DEFINE n == Len(operands)
           Q == Seq(Plainly)
           f == [k \in 1 .. n |-> <<R!Ref(operands[k]), R!Br>>]
           t == R!Div("block")
<1>1. n \in Nat /\ DOMAIN operands = 1 .. n /\ \A k \in 1 .. n : operands[k] \in AnyValue
  BY ElementOfSeq
<1>2. \A k \in 1 .. n : <<R!Ref(operands[k]), R!Br>> \in Q
  <2> SUFFICES ASSUME NEW k \in 1 .. n
               PROVE  <<R!Ref(operands[k]), R!Br>> \in Q
    OBVIOUS
  <2> DEFINE x == R!Ref(operands[k])
             y == R!Br
  <2>1. x \in Plainly /\ y \in Plainly
    BY <1>1, RefItem, BrItem
  <2> HIDE DEF x, y
  <2>2. <<x, y>> \in Q
    BY <2>1
  <2> QED BY <2>2 DEF x, y
<1>3. f \in Seq(Q)
  <2>1. f \in [1 .. n -> Q]
    <3> HIDE DEF Q
    <3> QED BY <1>2
  <2> HIDE DEF f, Q, n
  <2> QED BY <1>1, <2>1, FunctionIsSeq
<1>4. FlattenSeq(f) \in Seq(Plainly)
  <2> HIDE DEF f
  <2> QED BY <1>3, FlattenType
<1>5. R!OperandsCell(i) = R!Nest(t, FlattenSeq(f))
  <2>1. R!OperandsCell(i) = R!Nest(t, R!FlattenSeq([k \in DOMAIN operands |-> <<R!Ref(operands[k]), R!Br>>]))
    BY Zenon DEF R!OperandsCell
  <2>2. [k \in DOMAIN operands |-> <<R!Ref(operands[k]), R!Br>>] = f
    BY <1>1, Zenon
  <2> HIDE DEF f, t
  <2> QED BY <2>1, <2>2, SameFlatten, Zenon
<1>6. t \in RowTag({})
  BY BareTags
<1> HIDE DEF t, f
<1> QED BY <1>4, <1>5, <1>6, NestTypes

\* The metadata of an instruction.
LEMMA MetadataItem ==
  ASSUME NEW i, NEW mds \in Seq([kind : Word, node : DOMAIN MdOperands]), i.metadata = mds
  PROVE  R!MetadataCell(i) \in Nested
<1> DEFINE n == Len(mds)
           M == [kind : Word, node : DOMAIN MdOperands]
           Q == Seq(Plainly)
           arrow == " -> "
           None(k) == IF k = 1 THEN <<>> ELSE <<R!Br>>
           Both(k) == <<R!Text(<<mds[k].kind, arrow>>), R!Render(<<"node", mds[k].node>>)>>
           f == [k \in 1 .. n |-> None(k) \o Both(k)]
           t == R!Div("block")
<1>1. n \in Nat /\ DOMAIN mds = 1 .. n /\ \A k \in 1 .. n : mds[k] \in M
  <2>1. mds \in Seq(M)
    OBVIOUS
  <2> HIDE DEF M
  <2> QED BY <2>1, ElementOfSeq
<1>2. \A k \in 1 .. n : None(k) \o Both(k) \in Q
  <2> SUFFICES ASSUME NEW k \in 1 .. n
               PROVE  None(k) \o Both(k) \in Q
    OBVIOUS
  <2> DEFINE kind == mds[k].kind
             md == <<"node", mds[k].node>>
             x == R!Text(<<kind, arrow>>)
             y == R!Render(md)
             b == R!Br
             both == <<x, y>>
             one == <<b>>
             none == <<>>
  <2>1. kind \in Word /\ mds[k].node \in DOMAIN MdOperands
    BY <1>1
  <2>2. arrow \in Word
    <3>1. arrow \in OwnWords
      BY DEF OwnWords
    <3> QED BY <3>1, OwnAreWords
  <2>3. x \in Plainly
    <3> HIDE DEF kind, arrow
    <3>1. <<kind, arrow>> \in Seq(Word)
      BY <2>1, <2>2
    <3> QED BY <3>1, TextItem
  <2>4. y \in Plainly
    <3>1. md \in AnyMetadata
      BY <2>1 DEF AnyMetadata, MetadataOver
    <3> HIDE DEF md
    <3> QED BY <3>1 DEF Plainly, R!Render
  <2>5. b \in Plainly
    BY BrItem
  <2>6. None(k) = none \/ None(k) = one
    BY Zenon
  <2>7. Both(k) = both
    BY Zenon
  <2> HIDE DEF x, y, b, None, Both
  <2>8. both \in Q /\ one \in Q /\ none \in Q
    BY <2>3, <2>4, <2>5
  <2> HIDE DEF both, one, none
  <2> QED BY <2>6, <2>7, <2>8, ItemsBoth
<1>3. f \in Seq(Q)
  <2>1. f \in [1 .. n -> Q]
    <3> HIDE DEF Q, None, Both
    <3> QED BY <1>2
  <2> HIDE DEF f, Q, n
  <2> QED BY <1>1, <2>1, FunctionIsSeq
<1>4. FlattenSeq(f) \in Seq(Plainly)
  <2> HIDE DEF f
  <2> QED BY <1>3, FlattenType
<1>5. R!MetadataCell(i) = R!Nest(t, FlattenSeq(f))
  <2>1. R!MetadataCell(i) = R!Nest(t, R!FlattenSeq([k \in DOMAIN mds |-> None(k) \o Both(k)]))
    BY Zenon DEF R!MetadataCell, R!Attached
  <2>2. [k \in DOMAIN mds |-> None(k) \o Both(k)] = f
    BY <1>1, Zenon
  <2> HIDE DEF f, t
  <2> QED BY <2>1, <2>2, SameFlatten, Zenon
<1>6. t \in RowTag({})
  BY BareTags
<1> HIDE DEF t, f
<1> QED BY <1>4, <1>5, <1>6, NestTypes

\* The SCEV of an instruction, if it has one.
LEMMA ScevItem ==
  ASSUME NEW i, NEW scevs \in Seq(AnyScev), i.scev = scevs
  PROVE  R!ScevCell(i) \in Nested
<1> DEFINE t == R!Div("block")
           u == R!Div("flow")
           none == <<>>
           x == R!Visit(scevs[1])
           one == <<x>>
<1>1. t \in RowTag({}) /\ u \in RowTag({})
  BY BareTags
<1>2. none \in Seq(Plainly)
  OBVIOUS
<1>3. CASE scevs = <<>>
  <2>1. R!ScevCell(i) = R!Nest(t, none)
    BY <1>3, Zenon DEF R!ScevCell
  <2> HIDE DEF t, none
  <2> QED BY <1>1, <1>2, <2>1, NestTypes
<1>4. CASE scevs # <<>>
  <2>1. R!ScevCell(i) = R!Nest(u, one)
    BY <1>4, Zenon DEF R!ScevCell
  <2>2. x \in Plainly
    <3>1. scevs[1] \in AnyScev
      BY <1>4
    <3> QED BY <3>1, VisitItem
  <2> HIDE DEF u, x
  <2>3. one \in Seq(Plainly)
    BY <2>2
  <2> HIDE DEF one
  <2> QED BY <1>1, <2>1, <2>3, NestTypes
<1> QED BY <1>3, <1>4

\* The fields of a row of an instruction.
LEMMA InstructionFields ==
  ASSUME NEW i \in Instruction
  PROVE  /\ i.kind = "instruction"
         /\ i.id \in Seq(Word) /\ i.name \in Seq(Word) /\ i.type \in Seq(Word) /\ i.opcode \in Word
         /\ i.operands \in Seq(AnyValue) /\ i.scev \in Seq(AnyScev)
         /\ i.metadata \in Seq([kind : Word, node : DOMAIN MdOperands])
<1> DEFINE V == Seq(Word)
           A == Seq(AnyValue)
           B == Seq(ScevOf[StackMax])
           B2 == Seq(AnyScev)
           C == Seq([kind : Word, node : DOMAIN MdOperands])
<1>1. Instruction = [kind : {"instruction"}, id : V, name : V, type : V, opcode : Word,
                     operands : A, scev : B, metadata : C]
  BY DEF Instruction, AnyText, Word
<1>2. B \subseteq B2
  <2>1. ScevOf[StackMax] \subseteq AnyScev
    BY StackAssumption DEF AnyScev
  <2> QED BY <2>1, SeqMonotonic
<1> HIDE DEF V, A, B, B2, C
<1>3. /\ i.kind = "instruction" /\ i.id \in V /\ i.name \in V /\ i.type \in V /\ i.opcode \in Word
      /\ i.operands \in A /\ i.scev \in B /\ i.metadata \in C
  BY <1>1
<1> QED BY <1>2, <1>3 DEF V, A, B2, C

\* The row of an instruction.
LEMMA InstructionItem ==
  ASSUME NEW i \in Instruction
  PROVE  \E t \in RowTag({}) : \E q \in Seq(AnyItem) : R!InstructionRow(i) = R!Nest(t, q)
<1> DEFINE none == <<>>
           class == <<"instruction">>
           bare == R!SimpleTag("tr", <<>>, "block")
           row == R!AddClass(bare, class)
           id == R!Attr("id", i.id)
           named == R!AddAttr(row, id)
           t == IF R!IsVoid(i) THEN row ELSE named
           c1 == R!Td(R!NameCell(i))
           c2 == R!Td(R!TypeCell(i))
           c3 == R!Td(R!OpcodeCell(i))
           c4 == R!Td(R!OperandsCell(i))
           c5 == R!Td(R!ScevCell(i))
           c6 == R!Td(R!MetadataCell(i))
           q == <<c1, c2, c3, c4, c5, c6>>
<1>0. /\ i.id \in Seq(Word) /\ i.name \in Seq(Word) /\ i.type \in Seq(Word) /\ i.opcode \in Word
      /\ i.operands \in Seq(AnyValue) /\ i.scev \in Seq(AnyScev)
      /\ i.metadata \in Seq([kind : Word, node : DOMAIN MdOperands])
  BY InstructionFields
<1>1. t \in RowTag({})
  <2>1. bare \in RowTag({})
    BY BareTags
  <2>2. class \in Seq(Word)
    <3>1. "instruction" \in OwnWords
      BY DEF OwnWords
    <3> QED BY <3>1, WordItem
  <2> HIDE DEF bare, class
  <2>3. row \in RowTag({})
    BY <2>1, <2>2, RowTagClass
  <2>4. id \in RowAttr
    <3> DEFINE n == "id"
    <3>1. n \in AttrName
      BY RowNames
    <3> HIDE DEF n
    <3>2. R!Attr(n, i.id) \in RowAttr
      BY <1>0, <3>1, RowAttrType
    <3> QED BY <3>2 DEF n
  <2> HIDE DEF row, id
  <2>5. named \in RowTag({})
    BY <2>3, <2>4, RowTagAttr
  <2> HIDE DEF named
  <2> QED BY <2>3, <2>5, Zenon
<1>2. R!NameCell(i) \in Nested /\ R!TypeCell(i) \in Nested /\ R!OpcodeCell(i) \in Nested
  <2>1. R!Text(none) \in Plainly /\ R!Text(i.name) \in Plainly /\ R!Text(i.type) \in Plainly
    <3>1. none \in Seq(Word)
      OBVIOUS
    <3> HIDE DEF none
    <3> QED BY <1>0, <3>1, TextItem
  <2>2. R!Text(<<i.opcode>>) \in Plainly
    <3> DEFINE o == i.opcode
    <3>1. o \in Word
      BY <1>0
    <3> HIDE DEF o
    <3>2. <<o>> \in Seq(Word)
      BY <3>1
    <3>3. R!Text(<<o>>) \in Plainly
      BY <3>2, TextItem
    <3> QED BY <3>3 DEF o
  <2>3. R!NameCell(i) = R!Text(none) \/ R!NameCell(i) = R!Text(i.name)
    BY Zenon DEF R!NameCell
  <2>4. R!TypeCell(i) = R!Text(i.type) /\ R!OpcodeCell(i) = R!Text(<<i.opcode>>)
    BY Zenon DEF R!TypeCell, R!OpcodeCell
  <2>5. R!NameCell(i) \in Plainly
    BY <2>1, <2>3, Zenon
  <2>6. R!TypeCell(i) \in Plainly /\ R!OpcodeCell(i) \in Plainly
    BY <2>1, <2>2, <2>4, Zenon
  <2> QED BY <2>5, <2>6, ItemsGrow
<1>3. R!OperandsCell(i) \in Nested
  <2> DEFINE s == i.operands
  <2>1. s \in Seq(AnyValue) /\ i.operands = s
    BY <1>0
  <2> HIDE DEF s
  <2> QED BY <2>1, OperandsItem
<1>4. R!ScevCell(i) \in Nested
  <2> DEFINE s == i.scev
  <2>1. s \in Seq(AnyScev) /\ i.scev = s
    BY <1>0
  <2> HIDE DEF s
  <2> QED BY <2>1, ScevItem
<1>5. R!MetadataCell(i) \in Nested
  <2> DEFINE s == i.metadata
  <2>1. s \in Seq([kind : Word, node : DOMAIN MdOperands]) /\ i.metadata = s
    BY <1>0
  <2> HIDE DEF s
  <2> QED BY <2>1, MetadataItem
<1>6. /\ c1 \in AnyItem /\ c2 \in AnyItem /\ c3 \in AnyItem /\ c4 \in AnyItem /\ c5 \in AnyItem /\ c6 \in AnyItem
  BY <1>2, <1>3, <1>4, <1>5, TdItem
<1>7. R!InstructionRow(i) = R!Nest(t, q)
  BY Zenon DEF R!InstructionRow
<1> HIDE DEF c1, c2, c3, c4, c5, c6, t
<1>8. q \in Seq(AnyItem)
  BY <1>6
<1> HIDE DEF q
<1> QED BY <1>1, <1>7, <1>8

\* The row of the predecessors or successors.
LEMMA BlocksItem ==
  ASSUME NEW label \in Seq(Word), NEW blocks \in Seq(AnyValue)
  PROVE  \E t \in RowTag({}) : \E q \in Seq(AnyItem) : R!BlocksRow(label, blocks) = R!Nest(t, q)
<1> DEFINE none == <<>>
           three == <<"3">>
           a == R!Attr("colspan", three)
           tr == R!SimpleTag("tr", <<>>, "block")
           th == R!SimpleTag("th", <<a>>, "block")
           td == R!SimpleTag("td", <<a>>, "block")
           div == R!Div("flow")
           text == R!Text(label)
           list == R!RefList(blocks)
           x == R!Nest(div, list)
           c1 == R!Nest(th, <<text>>)
           c2 == R!Nest(td, <<x>>)
           q == <<c1, c2>>
<1>1. tr \in RowTag({}) /\ div \in RowTag({})
  BY BareTags
<1>2. th \in RowTag({}) /\ td \in RowTag({})
  <2> DEFINE colspan == "colspan"
             h == "th"
             d == "td"
             block == "block"
             attrs == <<a>>
  <2>1. three \in Seq(Word)
    <3>1. "3" \in OwnWords
      BY DEF OwnWords
    <3> QED BY <3>1, WordItem
  <2>2. colspan \in AttrName /\ h \in TagName /\ d \in TagName /\ block \in {"block", "flow"}
    BY RowNames
  <2> HIDE DEF three
  <2>3. a \in RowAttr
    BY <2>1, <2>2, RowAttrType
  <2> HIDE DEF a
  <2>4. attrs \in Seq(RowAttr)
    BY <2>3
  <2> HIDE DEF attrs, h, d, block
  <2>5. R!SimpleTag(h, attrs, block) \in RowTag({}) /\ R!SimpleTag(d, attrs, block) \in RowTag({})
    BY <2>2, <2>4, RowTagType
  <2> QED BY <2>5 DEF h, d, block, attrs
<1>3. list \in Seq(Plainly)
  <2> DEFINE n == Len(blocks)
             Q == Seq(Plainly)
             Part(k) == <<R!Text(R!SepStr(k)), R!Ref(blocks[k])>>
             f == [k \in 1 .. n |-> Part(k)]
  <2>1. n \in Nat /\ DOMAIN blocks = 1 .. n /\ \A k \in 1 .. n : blocks[k] \in AnyValue
    BY ElementOfSeq
  <2>2. \A k \in 1 .. n : Part(k) \in Q
    <3> SUFFICES ASSUME NEW k \in 1 .. n
                 PROVE  Part(k) \in Q
      OBVIOUS
    <3> DEFINE sep == R!SepStr(k)
               comma == <<", ">>
               y == R!Text(sep)
               z == R!Ref(blocks[k])
               both == <<y, z>>
    <3>1. sep \in Seq(Word)
      <4>1. comma \in Seq(Word) /\ none \in Seq(Word)
        <5>1. ", " \in OwnWords
          BY DEF OwnWords
        <5>2. comma \in Seq(Word)
          BY <5>1, WordItem
        <5>3. none \in Seq(Word)
          OBVIOUS
        <5> QED BY <5>2, <5>3
      <4>2. sep = none \/ sep = comma
        BY Zenon DEF R!SepStr
      <4> HIDE DEF none, comma, sep
      <4> QED BY <4>1, <4>2
    <3>2. y \in Plainly /\ z \in Plainly
      <4> HIDE DEF sep
      <4> QED BY <2>1, <3>1, TextItem, RefItem
    <3> HIDE DEF y, z
    <3>3. both \in Q
      BY <3>2
    <3> QED BY <3>3 DEF both, y, z
  <2>3. f \in Seq(Q)
    <3>1. f \in [1 .. n -> Q]
      <4> HIDE DEF Q, Part
      <4> QED BY <2>2
    <3> HIDE DEF f, Q, n
    <3> QED BY <2>1, <3>1, FunctionIsSeq
  <2>4. FlattenSeq(f) \in Seq(Plainly)
    <3> HIDE DEF f
    <3> QED BY <2>3, FlattenType
  <2>5. list = FlattenSeq(f)
    <3>1. list = R!FlattenSeq([k \in DOMAIN blocks |-> Part(k)])
      BY Zenon DEF R!RefList
    <3>2. [k \in DOMAIN blocks |-> Part(k)] = f
      BY <2>1, Zenon
    <3> HIDE DEF f, list
    <3> QED BY <3>1, <3>2, SameFlatten, Zenon
  <2> HIDE DEF list
  <2> QED BY <2>4, <2>5
<1>4. text \in Nested
  BY TextItem, ItemsGrow
<1>5. R!BlocksRow(label, blocks) = R!Nest(tr, q)
  BY Zenon DEF R!BlocksRow
<1> HIDE DEF tr, th, td, div, text, list
<1>6. x \in Nested
  BY <1>1, <1>3, NestTypes
<1> HIDE DEF x
<1> DEFINE one == <<text>>
           other == <<x>>
<1>7. one \in Seq(Nested) /\ other \in Seq(Nested)
  BY <1>4, <1>6
<1> HIDE DEF one, other
<1>8. R!Nest(th, one) \in AnyItem /\ R!Nest(td, other) \in AnyItem
  BY <1>2, <1>7, NestTypes
<1>9. c1 \in AnyItem /\ c2 \in AnyItem
  BY <1>8 DEF one, other
<1> HIDE DEF c1, c2
<1>10. q \in Seq(AnyItem)
  BY <1>9
<1> HIDE DEF q
<1> QED BY <1>1, <1>5, <1>10

\* A row is a tag, with what is to be added to it.
LEMMA RowItem ==
  ASSUME NEW j \in Jobs, j.kind # "tree", job = j
  PROVE  \E t \in RowTag({}) : \E q \in Seq(AnyItem) : R!Row = R!Nest(t, q)
<1>1. j \in Instruction \/ j \in BlockList
  BY JobsAssumption DEF IsTreeJob
<1>2. CASE j \in Instruction
  <2>1. R!Row = R!InstructionRow(j)
    <3>1. j.kind = "instruction"
      BY <1>2, InstructionFields
    <3> QED BY <3>1, Zenon DEF R!Row
  <2> QED BY <1>2, <2>1, InstructionItem
<1>3. CASE j \in BlockList
  <2> DEFINE V == Seq(Word)
             A == Seq(AnyValue)
  <2>1. BlockList = [kind : {"blocks"}, label : V, blocks : A]
    BY DEF BlockList, AnyText, Word
  <2>2. j.kind = "blocks" /\ j.label \in V /\ j.blocks \in A
    <3> HIDE DEF V, A
    <3> QED BY <1>3, <2>1
  <2>3. R!Row = R!BlocksRow(j.label, j.blocks)
    <3>1. j.kind # "instruction"
      BY <2>2
    <3> QED BY <3>1, Zenon DEF R!Row
  <2>4. \E t \in RowTag({}) : \E q \in Seq(AnyItem) : R!BlocksRow(j.label, j.blocks) = R!Nest(t, q)
    BY <2>2, BlocksItem
  <2> QED BY <2>3, <2>4, Zenon
<1> QED BY <1>1, <1>2, <1>3

-----------------------------------------------------------------------------
(* Stacks, innermost first: what may be at a depth is in ok[depth].        *)

Piled(s, ok) ==
  /\ s \in Seq(UNION {ok[d] : d \in Nat})
  /\ \A k \in 1 .. Len(s) : s[k] \in ok[Len(s) - k]

\* One more on the top.
LEMMA PiledPush ==
  ASSUME NEW ok, NEW s, Piled(s, ok), NEW x \in ok[Len(s)]
  PROVE  /\ Piled(<<x>> \o s, ok) /\ Len(<<x>> \o s) = Len(s) + 1
         /\ Len(s) \in Nat
<1> DEFINE U == UNION {ok[d] : d \in Nat}
           n == Len(s)
           t == <<x>> \o s
<1>1. s \in Seq(U) /\ n \in Nat /\ \A k \in 1 .. n : s[k] \in ok[n - k]
  BY SMTT(30) DEF Piled
<1>2. x \in U
  BY <1>1
<1> HIDE DEF U
<1>3. t \in Seq(U) /\ Len(t) = n + 1 /\ t[1] = x /\ \A k \in 1 .. n : t[k + 1] = s[k]
  BY <1>1, <1>2, Prepended
<1> HIDE DEF t
<1>4. ASSUME NEW k \in 1 .. n + 1
      PROVE  t[k] \in ok[(n + 1) - k]
  <2>1. CASE k = 1
    <3>1. (n + 1) - k = n
      BY <1>1, <2>1
    <3> QED BY <1>3, <2>1, <3>1
  <2>2. CASE k # 1
    <3> DEFINE j == k - 1
    <3>1. j \in 1 .. n /\ k = j + 1 /\ (n + 1) - k = n - j
      BY <1>1, <2>2
    <3> HIDE DEF j
    <3>2. t[k] = s[j] /\ s[j] \in ok[n - j]
      BY <1>1, <1>3, <3>1
    <3> QED BY <3>1, <3>2
  <2> QED BY <2>1, <2>2
<1>5. Piled(t, ok)
  BY <1>3, <1>4 DEF Piled, U
<1> QED BY <1>1, <1>3, <1>5 DEF t

\* The top, and what is below it.
LEMMA PiledTop ==
  ASSUME NEW ok, NEW s, Piled(s, ok), s # <<>>
  PROVE  /\ Len(s) \in Nat \ {0} /\ s[1] \in ok[Len(s) - 1]
         /\ Piled(Tail(s), ok) /\ Len(Tail(s)) = Len(s) - 1
         /\ s = <<s[1]>> \o Tail(s)
<1> DEFINE U == UNION {ok[d] : d \in Nat}
           n == Len(s)
           t == Tail(s)
<1>1. s \in Seq(U) /\ \A k \in 1 .. n : s[k] \in ok[n - k]
  BY DEF Piled
<1> HIDE DEF U
<1>2. n \in Nat \ {0}
  BY <1>1
<1>3. t \in Seq(U) /\ Len(t) = n - 1 /\ \A k \in 1 .. n - 1 : t[k] = s[k + 1]
  BY <1>1, <1>2
<1>4. s[1] \in ok[n - 1]
  BY <1>1, <1>2
<1>5. ASSUME NEW k \in 1 .. n - 1
      PROVE  t[k] \in ok[(n - 1) - k]
  <2>1. k + 1 \in 1 .. n /\ (n - 1) - k = n - (k + 1)
    BY <1>2
  <2>2. s[k + 1] \in ok[n - (k + 1)]
    BY <1>1, <2>1
  <2> QED BY <1>3, <2>1, <2>2
<1>6. s = <<s[1]>> \o t
  BY <1>1, <1>2
<1> HIDE DEF t
<1>7. Piled(t, ok)
  BY <1>3, <1>5 DEF Piled, U
<1> QED BY <1>2, <1>3, <1>4, <1>6, <1>7 DEF t

\* An empty stack.
LEMMA PiledNone == ASSUME NEW ok PROVE Piled(<<>>, ok)
BY DEF Piled

-----------------------------------------------------------------------------
(* The rows in the making.                                                 *)

\* A tag at some depth may have children of what is left of the height.
Room(d)    == TreeOf[Height - d - 1]
FrameAt(d) == [tag : RowTag(Room(d)), todo : Seq(AnyItem)]
FrameSets  == [d \in Nat |-> FrameAt(d)]

\* There is room for what is added to a tag.
LEMMA RoomEnough ==
  ASSUME NEW d \in Nat, d < StackMax
  PROVE  TreeOf[2] \subseteq Room(d) /\ RowTag(Room(d)) \subseteq TreeOf[Height - d]
<1>1. Height - d - 1 \in Nat /\ 2 <= Height - d - 1 /\ Height - d = (Height - d - 1) + 1
  BY StackAssumption DEF Height
<1>2. TreeOf[2] \subseteq Room(d)
  <2> DEFINE m == Height - d - 1
  <2>1. m \in Nat /\ 2 <= m
    BY <1>1
  <2> HIDE DEF m
  <2>2. TreeOf[2] \subseteq TreeOf[m]
    BY <2>1, TreesGrow
  <2> QED BY <2>2 DEF Room, m
<1>3. TreeOf[Height - d] = Taller(Room(d))
  <2> DEFINE m == Height - d - 1
  <2>1. m \in Nat
    BY <1>1
  <2> HIDE DEF m
  <2>2. TreeOf[m + 1] = Taller(TreeOf[m])
    BY <2>1, TreeHeights
  <2> QED BY <1>1, <2>2 DEF Room, m
<1>4. RowTag(Room(d)) \subseteq Taller(Room(d))
  BY RowTagIs DEF Taller
<1> QED BY <1>2, <1>3, <1>4

\* The item is taken, and others are put in its place.
LEMMA FrameThen ==
  ASSUME NEW d, NEW f \in FrameAt(d), f.todo # <<>>, NEW items \in Seq(AnyItem)
  PROVE  /\ Head(f.todo) \in AnyItem
         /\ [f EXCEPT !.todo = items \o Tail(@)] \in FrameAt(d)
<1> DEFINE Q == Seq(AnyItem)
           T == RowTag(Room(d))
           rest == items \o Tail(f.todo)
<1>1. FrameAt(d) = [tag : T, todo : Q]
  BY DEF FrameAt
<1>2. f.todo \in Q
  <2> HIDE DEF T, Q
  <2> QED BY <1>1
<1>3. Head(f.todo) \in AnyItem /\ Tail(f.todo) \in Q
  BY <1>2
<1>4. rest \in Q
  <2> DEFINE t == Tail(f.todo)
  <2>1. t \in Seq(AnyItem)
    BY <1>3
  <2> HIDE DEF t
  <2>2. items \o t \in Seq(AnyItem)
    BY <2>1, ConcatProperties
  <2> QED BY <2>2 DEF t
<1>5. [f EXCEPT !.todo = items \o Tail(@)] = [f EXCEPT !.todo = rest]
  OBVIOUS
<1> HIDE DEF Q, T, rest
<1>6. [f EXCEPT !.todo = rest] \in FrameAt(d)
  BY <1>1, <1>4
<1> QED BY <1>3, <1>5, <1>6

\* A node is added to the tag.
LEMMA FrameAdd ==
  ASSUME NEW d, NEW f \in FrameAt(d), NEW n \in Room(d)
  PROVE  [f EXCEPT !.tag = R!AddChild(@, n)] \in FrameAt(d)
<1> DEFINE Q == Seq(AnyItem)
           T == RowTag(Room(d))
           t == R!AddChild(f.tag, n)
<1>1. FrameAt(d) = [tag : T, todo : Q]
  BY DEF FrameAt
<1>2. f.tag \in T
  <2> HIDE DEF T, Q
  <2> QED BY <1>1
<1>3. t \in T
  BY <1>2, RowTagAdd
<1> HIDE DEF Q, T, t
<1>4. [f EXCEPT !.tag = t] \in FrameAt(d)
  BY <1>1, <1>3
<1> QED BY <1>4 DEF t

\* A tag is begun.
LEMMA FrameNew ==
  ASSUME NEW d, NEW t \in RowTag({}), NEW q \in Seq(AnyItem)
  PROVE  [tag |-> t, todo |-> q] \in FrameAt(d)
<1> DEFINE Q == Seq(AnyItem)
           T == RowTag(Room(d))
<1>1. t \in T
  BY RowTagGrows
<1>2. q \in Q
  OBVIOUS
<1> HIDE DEF Q, T
<1>3. [tag |-> t, todo |-> q] \in [tag : T, todo : Q]
  BY <1>1, <1>2
<1> QED BY <1>3 DEF FrameAt, Q, T

\* What an item is.
LEMMA ItemFields ==
  ASSUME NEW x \in AnyItem
  PROVE  /\ x[1] = "add" => x[2] \in TreeOf[2]
         /\ x[1] = "visit" => x[2] \in AnyScev
         /\ x[1] = "render" => x[2] \in AnyMetadata
         /\ x[1] = "nest" => x[2] \in RowTag({}) /\ x[3] \in Seq(AnyItem)
<1> DEFINE T == TreeOf[2]
           R1 == RowTag({})
           Q == Seq(Nested)
           Q2 == Seq(AnyItem)
<1>1. AnyItem = ({"add"} \X T) \cup ({"visit"} \X AnyScev) \cup ({"render"} \X AnyMetadata)
                  \cup ({"nest"} \X R1 \X Q)
  BY DEF AnyItem, Plainly
<1>2. Q \subseteq Q2
  BY ItemsGrow, SeqMonotonic
<1> HIDE DEF T, R1, Q, Q2
<1>3. CASE x \in {"add"} \X T
  BY <1>3 DEF T
<1>4. CASE x \in {"visit"} \X AnyScev
  BY <1>4
<1>5. CASE x \in {"render"} \X AnyMetadata
  BY <1>5
<1>6. CASE x \in {"nest"} \X R1 \X Q
  <2>1. x[1] = "nest" /\ x[2] \in R1 /\ x[3] \in Q
    BY <1>6
  <2> QED BY <1>2, <2>1 DEF R1, Q2
<1> QED BY <1>1, <1>3, <1>4, <1>5, <1>6

\* A tree is not changed; a row is a tree when it is complete, and till then a
\* stack of tags that there is room for.
RowInv ==
  /\ job \in Jobs
  /\ html \in TreeOf[Height] /\ html.kind = "simple"
  /\ renderer \in {"ready", "rendering", "done", "overflow"}
  /\ job.kind = "tree" => renderer = "ready"
  /\ renderer = "rendering" => Len(frames) \in 1 .. StackMax /\ Piled(frames, FrameSets)

\* A new top of the stack.
LEMMA RowPush ==
  ASSUME NEW s, NEW x, Piled(s, FrameSets), Len(s) < StackMax, x \in FrameAt(Len(s))
  PROVE  Len(<<x>> \o s) \in 1 .. StackMax /\ Piled(<<x>> \o s, FrameSets)
<1>1. Len(s) \in Nat
  <2>1. s \in Seq(UNION {FrameSets[d] : d \in Nat})
    BY DEF Piled
  <2> DEFINE U == UNION {FrameSets[d] : d \in Nat}
  <2> HIDE DEF U
  <2>2. s \in Seq(U)
    BY <2>1 DEF U
  <2> QED BY <2>2
<1>2. x \in FrameSets[Len(s)]
  BY <1>1 DEF FrameSets
<1>3. Piled(<<x>> \o s, FrameSets) /\ Len(<<x>> \o s) = Len(s) + 1
  BY <1>2, PiledPush
<1> QED BY <1>1, <1>3, StackAssumption

\* The top of the stack, and what is below.
LEMMA RowTop ==
  ASSUME NEW s, Piled(s, FrameSets), Len(s) \in 1 .. StackMax
  PROVE  /\ Len(s) - 1 \in Nat /\ Len(s) - 1 < StackMax
         /\ s[1] \in FrameAt(Len(s) - 1)
         /\ Piled(Tail(s), FrameSets) /\ Len(Tail(s)) = Len(s) - 1
<1>1. s # <<>> /\ Len(s) - 1 \in Nat /\ Len(s) - 1 < StackMax
  BY StackAssumption
<1>2. s[1] \in FrameSets[Len(s) - 1] /\ Piled(Tail(s), FrameSets) /\ Len(Tail(s)) = Len(s) - 1
  BY <1>1, PiledTop
<1> QED BY <1>1, <1>2 DEF FrameSets

\* In the beginning a row is nothing but a tag.
LEMMA RowInit == Init => RowInv
<1> SUFFICES ASSUME Init
             PROVE  RowInv
  OBVIOUS
<1>1. job \in Jobs /\ renderer = "ready"
  BY DEF Init, R!Init
<1>2. CASE job.kind = "tree"
  <2>1. html = job.tree
    BY <1>2 DEF Init
  <2>2. IsTreeJob(job)
    <3> DEFINE V == AnyText
               W1 == STRING
               A == Seq(AnyValue)
               B == Seq(ScevOf[StackMax])
               C == Seq([kind : STRING, node : DOMAIN MdOperands])
    <3>1. /\ Instruction = [kind : {"instruction"}, id : V, name : V, type : V, opcode : W1,
                            operands : A, scev : B, metadata : C]
          /\ BlockList = [kind : {"blocks"}, label : V, blocks : A]
      BY DEF Instruction, BlockList
    <3> HIDE DEF V, W1, A, B, C
    <3>2. job \notin Instruction /\ job \notin BlockList
      BY <1>2, <3>1
    <3> QED BY <1>1, <3>2, JobsAssumption
  <2>3. html \in TreeOf[Height] /\ html.kind = "simple"
    BY <2>1, <2>2 DEF IsTreeJob
  <2> QED BY <1>1, <2>3 DEF RowInv
<1>3. CASE job.kind # "tree"
  <2>1. html = R!Div("block")
    BY <1>3 DEF Init
  <2>2. R!Div("block") \in RowTag({})
    BY BareTags
  <2>3. R!Div("block") \in RowTag(Room(0)) /\ R!Div("block").kind = "simple"
    BY <2>2, RowTagGrows, RowTagIs
  <2>4. RowTag(Room(0)) \subseteq TreeOf[Height - 0] /\ Height - 0 = Height
    BY RoomEnough, StackAssumption DEF Height
  <2>5. html \in TreeOf[Height] /\ html.kind = "simple"
    BY <2>1, <2>3, <2>4
  <2> QED BY <1>1, <1>3, <2>5 DEF RowInv
<1> QED BY <1>2, <1>3

\* The tag of the row is begun.
LEMMA RowStart == ASSUME RowInv, R!Start PROVE RowInv'
<1>1. job \in Jobs /\ job.kind # "tree"
  BY DEF RowInv, R!Start
<1>2. PICK t \in RowTag({}) : \E q \in Seq(AnyItem) : R!Row = R!Nest(t, q)
  BY <1>1, RowItem
<1>3. PICK q \in Seq(AnyItem) : R!Row = R!Nest(t, q)
  BY <1>2
<1> DEFINE none == <<>>
           f == [tag |-> t, todo |-> q]
<1>4. R!Frame(R!Row) = f
  BY <1>3 DEF R!Frame, R!Nest
<1>5. frames' = <<f>>
  BY <1>4, Zenon DEF R!Start
<1>6. f \in FrameAt(0)
  BY FrameNew
<1> HIDE DEF f
<1>7. Piled(none, FrameSets) /\ Len(none) = 0 /\ 0 < StackMax
  BY PiledNone, StackAssumption
<1>8. Len(<<f>> \o none) \in 1 .. StackMax /\ Piled(<<f>> \o none, FrameSets)
  <2> HIDE DEF none
  <2> QED BY <1>6, <1>7, RowPush
<1>9. <<f>> \o none = frames'
  BY <1>5
<1>10. Len(frames') \in 1 .. StackMax /\ Piled(frames', FrameSets)
  BY <1>8, <1>9, Zenon
<1>11. job' = job /\ html' = html /\ renderer' = "rendering"
  BY DEF R!Start
<1> HIDE DEF none
<1> QED BY <1>1, <1>10, <1>11 DEF RowInv, Piled

\* A row in the making, with another top.
LEMMA RowGoesOn ==
  ASSUME RowInv, renderer = "rendering", NEW x \in FrameAt(Len(frames) - 1),
         frames' = <<x>> \o R!Below, UNCHANGED <<job, html, renderer>>
  PROVE  RowInv'
<1>1. Piled(frames, FrameSets) /\ Len(frames) \in 1 .. StackMax
  BY DEF RowInv
<1>2. /\ Piled(Tail(frames), FrameSets) /\ Len(Tail(frames)) = Len(frames) - 1
      /\ Len(frames) - 1 \in Nat /\ Len(frames) - 1 < StackMax
  BY <1>1, RowTop
<1>3. Len(<<x>> \o Tail(frames)) \in 1 .. StackMax /\ Piled(<<x>> \o Tail(frames), FrameSets)
  <2>1. Len(Tail(frames)) < StackMax /\ x \in FrameAt(Len(Tail(frames)))
    BY <1>2
  <2> QED BY <1>2, <2>1, RowPush
<1>4. Len(frames') \in 1 .. StackMax /\ Piled(frames', FrameSets)
  BY <1>3, Zenon DEF R!Below
<1> QED BY <1>4 DEF RowInv, Piled

\* The top of the stack while a row is made.
LEMMA RowTopNow ==
  ASSUME RowInv, renderer = "rendering"
  PROVE  /\ R!Top \in FrameAt(Len(frames) - 1)
         /\ Len(frames) - 1 \in Nat /\ Len(frames) - 1 < StackMax
         /\ Piled(R!Below, FrameSets) /\ Len(R!Below) = Len(frames) - 1
<1>1. Piled(frames, FrameSets) /\ Len(frames) \in 1 .. StackMax
  BY DEF RowInv
<1> QED BY <1>1, RowTop DEF R!Top, R!Below

\* A node, a visit, or what is rendered comes in the place of an item.
LEMMA RowItemStep ==
  ASSUME RowInv, R!AddNode \/ R!VisitScev \/ R!RenderMetadata
  PROVE  RowInv'
<1>0. renderer = "rendering" /\ R!Top.todo # <<>>
  BY DEF R!AddNode, R!VisitScev, R!RenderMetadata, R!AtItem
<1> DEFINE d == Len(frames) - 1
           top == R!Top
           item == Head(top.todo)
           none == <<>>
<1>1. top \in FrameAt(d) /\ d \in Nat /\ d < StackMax /\ top.todo # <<>> /\ R!Item = item
  BY <1>0, RowTopNow DEF R!Item
<1>2. \A items \in Seq(AnyItem) : R!Then(items) = [top EXCEPT !.todo = items \o Tail(@)]
  BY DEF R!Then
<1> HIDE DEF d, top
<1>3. item \in AnyItem /\ \A items \in Seq(AnyItem) : R!Then(items) \in FrameAt(d)
  <2>1. ASSUME NEW items \in Seq(AnyItem)
        PROVE  R!Then(items) \in FrameAt(d) /\ item \in AnyItem
    <3>1. [top EXCEPT !.todo = items \o Tail(@)] \in FrameAt(d) /\ Head(top.todo) \in AnyItem
      BY <1>1, FrameThen
    <3> QED BY <1>2, <3>1, Zenon
  <2>2. none \in Seq(AnyItem)
    OBVIOUS
  <2> QED BY <2>1, <2>2
<1> HIDE DEF item
<1>4. none \in Seq(AnyItem)
  OBVIOUS
<1>5. CASE R!AddNode
  <2> DEFINE t == R!Then(none)
             x == [t EXCEPT !.tag = R!AddChild(@, item[2])]
  <2>1. t \in FrameAt(d)
    BY <1>3, <1>4
  <2>2. item[2] \in Room(d)
    <3>1. item[1] = "add"
      BY <1>1, <1>5 DEF R!AddNode, R!AtItem
    <3>2. item[2] \in TreeOf[2]
      BY <1>3, <3>1, ItemFields
    <3> QED BY <1>1, <3>2, RoomEnough
  <2>3. frames' = <<x>> \o R!Below /\ UNCHANGED <<job, html, renderer>>
    BY <1>1, <1>5, Zenon DEF R!AddNode, t, none
  <2> HIDE DEF t
  <2>4. x \in FrameAt(d)
    BY <2>1, <2>2, FrameAdd
  <2> HIDE DEF x
  <2> QED BY <1>0, <2>3, <2>4, RowGoesOn DEF d
<1>6. CASE R!VisitScev
  <2> DEFINE items == R!Visited(item[2])
             x == R!Then(items)
  <2>1. item[1] = "visit"
    BY <1>1, <1>6 DEF R!VisitScev, R!AtItem
  <2>2. item[2] \in AnyScev
    BY <1>3, <2>1, ItemFields
  <2>3. items \in Seq(Plainly)
    BY <2>2, VisitedItems
  <2>4. Seq(Plainly) \subseteq Seq(AnyItem)
    BY ItemsGrow, SeqMonotonic
  <2>5. frames' = <<x>> \o R!Below /\ UNCHANGED <<job, html, renderer>>
    BY <1>1, <1>6, Zenon DEF R!VisitScev
  <2> HIDE DEF items
  <2>6. x \in FrameAt(d)
    BY <1>3, <2>3, <2>4
  <2> HIDE DEF x
  <2> QED BY <1>0, <2>5, <2>6, RowGoesOn DEF d
<1>7. CASE R!RenderMetadata
  <2> DEFINE y == R!Rendered(item[2])
             items == <<y>>
             x == R!Then(items)
  <2>1. item[1] = "render"
    BY <1>1, <1>7 DEF R!RenderMetadata, R!AtItem
  <2>2. item[2] \in AnyMetadata
    BY <1>3, <2>1, ItemFields
  <2>3. y \in AnyItem
    BY <2>2, RenderedItem, ItemsGrow
  <2>4. frames' = <<x>> \o R!Below /\ UNCHANGED <<job, html, renderer>>
    BY <1>1, <1>7, Zenon DEF R!RenderMetadata
  <2> HIDE DEF y
  <2>5. items \in Seq(AnyItem)
    BY <2>3
  <2> HIDE DEF items
  <2>6. x \in FrameAt(d)
    BY <1>3, <2>5
  <2> HIDE DEF x
  <2> QED BY <1>0, <2>4, <2>6, RowGoesOn DEF d
<1> QED BY <1>5, <1>6, <1>7

\* A tag is begun inside another one, if the stack has room for it.
LEMMA RowEnter == ASSUME RowInv, R!Enter PROVE RowInv'
<1>0. renderer = "rendering" /\ R!Top.todo # <<>> /\ Len(frames) < StackMax
  BY DEF R!Enter, R!AtItem
<1> DEFINE d == Len(frames) - 1
           top == R!Top
           item == Head(top.todo)
           none == <<>>
           t == R!Then(none)
           f == R!Frame(item)
           below == R!Below
           s == <<t>> \o below
<1>1. /\ top \in FrameAt(d) /\ d \in Nat /\ d < StackMax /\ top.todo # <<>> /\ R!Item = item
      /\ Piled(below, FrameSets) /\ Len(below) = d
  BY <1>0, RowTopNow DEF R!Item
<1>2. t = [top EXCEPT !.todo = none \o Tail(@)]
  BY DEF R!Then
<1>3. item[1] = "nest"
  BY <1>1 DEF R!Enter, R!AtItem
<1>4. frames' = <<f, t>> \o below /\ UNCHANGED <<job, html, renderer>>
  BY <1>1, Zenon DEF R!Enter
<1>5. none \in Seq(AnyItem)
  OBVIOUS
<1>6. Len(frames) = d + 1
  BY <1>1, <1>0 DEF RowInv
<1> HIDE DEF d, top, t, none, below
<1>7. item \in AnyItem /\ t \in FrameAt(d)
  <2>1. [top EXCEPT !.todo = none \o Tail(@)] \in FrameAt(d) /\ Head(top.todo) \in AnyItem
    BY <1>1, <1>5, FrameThen
  <2> QED BY <1>2, <2>1, Zenon
<1> HIDE DEF item
<1>8. Len(s) \in 1 .. StackMax /\ Piled(s, FrameSets) /\ Len(s) = d + 1
  <2>1. t \in FrameSets[Len(below)]
    BY <1>1, <1>7 DEF FrameSets
  <2>2. Len(s) = Len(below) + 1
    BY <1>1, <2>1, PiledPush
  <2>3. Len(s) \in 1 .. StackMax /\ Piled(s, FrameSets)
    BY <1>1, <1>7, RowPush
  <2> QED BY <1>1, <2>2, <2>3
<1>9. f \in FrameAt(d + 1)
  <2>1. item[2] \in RowTag({}) /\ item[3] \in Seq(AnyItem)
    BY <1>3, <1>7, ItemFields
  <2> QED BY <2>1, FrameNew DEF R!Frame
<1>10. <<f, t>> \o below = <<f>> \o s
  <2>1. below \in Seq(UNION {FrameSets[k] : k \in Nat})
    BY <1>1 DEF Piled
  <2> DEFINE U == UNION {FrameSets[k] : k \in Nat}
  <2>2. f \in U /\ t \in U
    <3>1. f \in FrameSets[d + 1] /\ t \in FrameSets[d] /\ d + 1 \in Nat
      BY <1>1, <1>7, <1>9 DEF FrameSets
    <3> QED BY <1>1, <3>1
  <2> HIDE DEF U, f
  <2>3. below \in Seq(U)
    BY <2>1 DEF U
  <2> DEFINE a == <<f>>
             b == <<t>>
  <2>4. a \in Seq(U) /\ b \in Seq(U)
    BY <2>2
  <2>5. <<f, t>> = a \o b
    BY <2>2, Pair
  <2> HIDE DEF a, b
  <2>6. (a \o b) \o below = a \o (b \o below)
    BY <2>3, <2>4, ConcatAssociative, SMTT(30)
  <2> QED BY <2>5, <2>6, Zenon DEF a, b, s
<1> HIDE DEF f, s
<1>11. Len(<<f>> \o s) \in 1 .. StackMax /\ Piled(<<f>> \o s, FrameSets)
  <2>1. Len(s) < StackMax
    BY <1>0, <1>6, <1>8
  <2>2. f \in FrameAt(Len(s))
    BY <1>8, <1>9
  <2> QED BY <1>8, <2>1, <2>2, RowPush
<1>12. frames' = <<f>> \o s
  BY <1>4, <1>10, Zenon
<1>13. Len(frames') \in 1 .. StackMax /\ Piled(frames', FrameSets)
  BY <1>11, <1>12, Zenon
<1> QED BY <1>4, <1>13 DEF RowInv, Piled

\* A tag that is complete becomes a child of the one around it.
LEMMA RowLeave == ASSUME RowInv, R!Leave PROVE RowInv'
<1>0. renderer = "rendering" /\ Len(frames) > 1
  BY DEF R!Leave
<1> DEFINE d == Len(frames) - 1
           top == R!Top
           below == R!Below
           e == d - 1
           y == below[1]
           x == [y EXCEPT !.tag = R!AddChild(@, top.tag)]
           low == Tail(below)
<1>1. /\ top \in FrameAt(d) /\ d \in Nat /\ d < StackMax
      /\ Piled(below, FrameSets) /\ Len(below) = d
  BY <1>0, RowTopNow
<1>2. d \in 1 .. StackMax
  BY <1>0, <1>1, StackAssumption
<1>3. frames' = <<x>> \o low /\ UNCHANGED <<job, html, renderer>>
  BY Zenon DEF R!Leave
<1> HIDE DEF d, top, below
<1>4. /\ e \in Nat /\ e < StackMax /\ y \in FrameAt(e) /\ Piled(low, FrameSets) /\ Len(low) = e
  <2>1. Len(below) \in 1 .. StackMax /\ Len(below) - 1 = e
    BY <1>1, <1>2
  <2> QED BY <1>1, <2>1, RowTop
<1>5. top.tag \in Room(e)
  <2>1. top.tag \in RowTag(Room(d))
    <3> DEFINE T == RowTag(Room(d))
               Q == Seq(AnyItem)
    <3>1. top \in [tag : T, todo : Q]
      BY <1>1 DEF FrameAt
    <3> HIDE DEF T, Q
    <3>2. top.tag \in T
      BY <3>1
    <3> QED BY <3>2 DEF T
  <2>2. top.tag \in TreeOf[Height - d]
    BY <1>1, <2>1, RoomEnough
  <2>3. Height - d = Height - e - 1
    BY <1>1, StackAssumption DEF Height
  <2> QED BY <2>2, <2>3 DEF Room
<1> HIDE DEF e, y, low
<1>6. x \in FrameAt(e)
  BY <1>4, <1>5, FrameAdd
<1> HIDE DEF x
<1>7. Len(<<x>> \o low) \in 1 .. StackMax /\ Piled(<<x>> \o low, FrameSets)
  BY <1>4, <1>6, RowPush
<1>8. Len(frames') \in 1 .. StackMax /\ Piled(frames', FrameSets)
  BY <1>3, <1>7, Zenon
<1> QED BY <1>3, <1>8 DEF RowInv, Piled

\* The row is complete.
LEMMA RowFinish == ASSUME RowInv, R!Finish PROVE RowInv'
<1>0. renderer = "rendering" /\ Len(frames) = 1
  BY DEF R!Finish
<1> DEFINE top == R!Top
           c == <<"loop-1-even">>
           t == R!AddClass(top.tag, c)
<1>1. top \in FrameAt(0)
  BY <1>0, RowTopNow
<1>2. top.tag \in RowTag(Room(0))
  <2> DEFINE T == RowTag(Room(0))
             Q == Seq(AnyItem)
  <2>1. top \in [tag : T, todo : Q]
    BY <1>1 DEF FrameAt
  <2> HIDE DEF T, Q
  <2>2. top.tag \in T
    BY <2>1
  <2> QED BY <2>2 DEF T
<1>3. c \in Seq(Word)
  <2>1. "loop-1-even" \in OwnWords
    BY DEF OwnWords
  <2> QED BY <2>1, WordItem
<1>4. html' = t /\ renderer' = "done" /\ job' = job
  BY Zenon DEF R!Finish
<1> HIDE DEF top, c
<1>5. t \in RowTag(Room(0))
  BY <1>2, <1>3, RowTagClass
<1> HIDE DEF t
<1>6. t \in TreeOf[Height] /\ t.kind = "simple"
  <2>1. RowTag(Room(0)) \subseteq TreeOf[Height - 0] /\ Height - 0 = Height
    BY RoomEnough, StackAssumption DEF Height
  <2>2. t.kind = "simple"
    BY <1>5, RowTagIs
  <2> QED BY <1>5, <2>1, <2>2
<1>7. job.kind # "tree"
  BY <1>0 DEF RowInv
<1> QED BY <1>4, <1>6, <1>7 DEF RowInv

\* Every step of the renderers.
LEMMA RowStep == ASSUME RowInv, R!Next PROVE RowInv'
<1>1. CASE R!Start
  BY <1>1, RowStart
<1>2. CASE R!AddNode \/ R!VisitScev \/ R!RenderMetadata
  BY <1>2, RowItemStep
<1>3. CASE R!Enter
  BY <1>3, RowEnter
<1>4. CASE R!Overflow
  BY <1>4 DEF R!Overflow, R!AtItem, RowInv
<1>5. CASE R!Leave
  BY <1>5, RowLeave
<1>6. CASE R!Finish
  BY <1>6, RowFinish
<1> QED BY <1>1, <1>2, <1>3, <1>4, <1>5, <1>6 DEF R!Next

\* The rest changes nothing of the row.
LEMMA RowSame == ASSUME RowInv, UNCHANGED <<job, frames, html, renderer>> PROVE RowInv'
BY DEF RowInv, Piled

-----------------------------------------------------------------------------
(* What is printed of a tree, and what is still to be printed.             *)

\* The values are as they have to be if the page is to show the tree.
Good(exact, root)  == \A v \in Values(root) : IF exact THEN Plain(v) ELSE Harmless(v)
Tamed(exact, root) == \A n \in Nodes(root) : NodeTame(exact, n)

\* Attributes of good values are read as they should be, in every node.
LEMMA GoodIsTame ==
  ASSUME NEW exact \in BOOLEAN, NEW root, root \in TreeOf[Height], Good(exact, root)
  PROVE  Tamed(exact, root)
<1> SUFFICES ASSUME NEW n \in Nodes(root), n.kind \notin {"string", "entity"}
             PROVE  Tame(exact, n.attrs)
  BY DEF Tamed, NodeTame
<1> DEFINE attrs == n.attrs
<1>1. attrs \in Seq(TreeAttr)
  <2>1. n \in TreeOf[Height]
    BY NodesOfTree
  <2>2. Height \in Nat
    BY StackAssumption DEF Height
  <2>3. n \in LeafNode \/ n \in TagOver(TreeOf[Height - 1])
    BY <2>1, <2>2, TreeIs
  <2>4. CASE n \in LeafNode
    <3>1. \/ n.kind = "string"
          \/ n.kind = "entity"
          \/ attrs \in Seq(TreeAttr)
          \/ attrs = <<>>
      BY <2>4, LeafFields
    <3>2. <<>> \in Seq(TreeAttr)
      OBVIOUS
    <3> HIDE DEF attrs
    <3> QED BY <3>1, <3>2, Zenon
  <2>5. CASE n \in TagOver(TreeOf[Height - 1])
    BY <2>5, TagFields
  <2> QED BY <2>3, <2>4, <2>5
<1>2. \A k \in DOMAIN attrs : \A v \in ToSet(attrs[k].value) : IF exact THEN Plain(v) ELSE Harmless(v)
  <2> SUFFICES ASSUME NEW k \in DOMAIN attrs, NEW v \in ToSet(attrs[k].value)
               PROVE  v \in Values(root)
    BY DEF Good
  <2>1. attrs[k] \in ToSet(attrs)
    BY <1>1 DEF ToSet
  <2>2. v \in UNION {ToSet(a.value) : a \in ToSet(attrs)}
    BY <2>1
  <2>3. n \in {m \in Nodes(root) : m.kind \notin {"string", "entity"}}
    OBVIOUS
  <2> QED BY <2>2, <2>3, Zenon DEF Values
<1> HIDE DEF attrs
<1> SUFFICES ASSUME NEW k \in DOMAIN attrs
             PROVE  AttrTame(attrs[k]) /\ (exact => Quiet(attrs[k]))
  BY DEF Tame, attrs
<1> DEFINE a == attrs[k]
           v == a.value[1]
<1>3. CASE a.value = <<>>
  BY <1>3 DEF AttrTame, Quiet
<1>4. CASE a.value # <<>>
  <2>1. v \in Seq(Word) /\ v \in ToSet(a.value)
    <3>1. a \in TreeAttr
      BY <1>1, ElementOfSeq
    <3> DEFINE T == AnyText
    <3>2. a \in [name : AttrName, value : {<<>>} \cup [1 .. 1 -> T]]
      BY <3>1 DEF TreeAttr
    <3> HIDE DEF a, T
    <3>3. a.value \in [1 .. 1 -> T]
      BY <1>4, <3>2
    <3>4. v \in T /\ v \in ToSet(a.value)
      BY <3>3 DEF ToSet
    <3> QED BY <3>4 DEF T, AnyText, Word
  <2> HIDE DEF v
  <2>2. IF exact THEN Plain(v) ELSE Harmless(v)
    BY <1>2, <2>1
  <2>3. CASE exact
    <3>1. \A j \in 1 .. Len(v) : v[j] # Quote
      <4>1. ToSet(v) \cap {Quote, "&"} = {}
        BY <2>2, <2>3, Zenon DEF Plain, Quote
      <4>2. \A j \in 1 .. Len(v) : v[j] \in ToSet(v)
        BY <2>1 DEF ToSet
      <4> QED BY <4>1, <4>2
    <3>2. Harmless(v)
      <4>1. DOMAIN v = 1 .. Len(v)
        BY <2>1
      <4>2. \A j \in DOMAIN v : v[j] # "\""
        BY <3>1, <4>1, Zenon DEF Quote
      <4> QED BY <4>2, Zenon DEF Harmless
    <3> QED BY <3>1, <3>2 DEF AttrTame, Quiet, v
  <2>4. CASE ~exact
    BY <2>2, <2>4 DEF AttrTame, v
  <2> QED BY <2>3, <2>4
<1> QED BY <1>3, <1>4

\* What is still to be seen of a tag that is open: its other children, and its end.
PartsLeft(root, f) ==
  [k \in 1 .. Len(f.tag.body) + 1 - f.next |-> LookIn(root, f.tag.body[f.next - 1 + k], Flat(f.lvl))]
Left(root, f) == FlattenSeq(PartsLeft(root, f)) \o Line(<<<<"close", f.tag.tag>>>>, Flat(f.lvl))

\* What is still to be seen of all the tags that are open.
Remaining(root, s) == FlattenSeq([k \in 1 .. Len(s) |-> Left(root, s[k])])

\* A tag that is open at some depth.
OpenTag(root, d, f) ==
  /\ f.tag \in Nodes(root) /\ f.tag.kind = "simple" /\ f.tag \in TreeOf[Height - d]
  /\ f.lvl = FLOW_STYLE \/ f.lvl = RowLevel + 2 * d
  /\ d < Height /\ f.next \in 1 .. Len(f.tag.body) + 1
  /\ f = [tag |-> f.tag, lvl |-> f.lvl, next |-> f.next]

\* The children of a tag that is open.
LEMMA OpenBody ==
  ASSUME NEW root \in TreeOf[Height], NEW d \in Nat, NEW f, OpenTag(root, d, f)
  PROVE  /\ Len(f.tag.body) \in Nat /\ f.next \in Nat
         /\ \A k \in 1 .. Len(f.tag.body) :
              f.tag.body[k] \in Nodes(root) /\ f.tag.body[k] \in TreeOf[Height - (d + 1)]
         /\ f.tag.tag \in TagName /\ f.tag.attrs \in Seq(TreeAttr) /\ f.tag.style \in {"block", "flow"}
         /\ IsLevel(f.lvl)
<1> DEFINE t == f.tag
           h == Height - d
<1>1. t \in Nodes(root) /\ t.kind = "simple" /\ t \in TreeOf[h] /\ h \in Nat /\ Height - (d + 1) = h - 1
  BY StackAssumption, SMTT(30) DEF OpenTag, Height
<1> HIDE DEF h
<1>2. t.body \in Seq(TreeOf[h - 1])
  BY <1>1, ChildLess
<1>3. \A k \in 1 .. Len(t.body) : t.body[k] \in TreeOf[h - 1]
  BY <1>1, ChildLess
<1>4. \A k \in 1 .. Len(t.body) : t.body[k] \in Nodes(root)
  BY <1>1, NodesOfTree, SMTT(30)
<1>5. t \in TagOver(TreeOf[h - 1])
  <2>1. (t \in LeafNode /\ t.kind # "simple") \/ t \in TagOver(TreeOf[h - 1])
    BY <1>1, TreeIs
  <2> QED BY <1>1, <2>1
<1>6. t.tag \in TagName /\ t.attrs \in Seq(TreeAttr) /\ t.style \in {"block", "flow"}
  BY <1>5, TagFields
<1>7. Len(t.body) \in Nat
  BY <1>2, LenProperties
<1>8. IsLevel(f.lvl)
  <2>1. RowLevel + 2 * d > 0 /\ RowLevel + 2 * d \in Nat /\ RowLevel + 2 * d + 2 < FLOW_STYLE
    BY StackAssumption, SMTT(30) DEF OpenTag, Height, RowLevel
  <2> QED BY <2>1 DEF OpenTag, IsLevel
<1>9. f.next \in Nat
  BY <1>7 DEF OpenTag
<1> HIDE DEF t
<1> QED BY <1>1, <1>3, <1>4, <1>6, <1>7, <1>8, <1>9 DEF t

\* The parts that are left are events.
LEMMA PartsLeftType ==
  ASSUME NEW exact, NEW root \in TreeOf[Height], Tamed(exact, root), NEW d \in Nat, NEW f, OpenTag(root, d, f)
  PROVE  /\ PartsLeft(root, f) \in [1 .. Len(f.tag.body) + 1 - f.next -> Seq(Event)]
         /\ Len(f.tag.body) + 1 - f.next \in Nat
         /\ PartsLeft(root, f) \in Seq(Seq(Event))
<1> DEFINE kids == f.tag.body
           n == Len(kids)
           i == Flat(f.lvl)
           m == n + 1 - f.next
           E == Seq(Event)
<1>1. n \in Nat /\ f.next \in 1 .. n + 1 /\ \A k \in 1 .. n : kids[k] \in Nodes(root)
  BY OpenBody DEF OpenTag
<1>2. i \in BOOLEAN
  BY DEF Flat
<1>3. m \in Nat /\ \A k \in 1 .. m : f.next - 1 + k \in 1 .. n
  <2> DEFINE next == f.next
  <2>1. n \in Nat /\ next \in 1 .. n + 1
    BY <1>1
  <2> HIDE DEF n, next
  <2>2. n + 1 - next \in Nat /\ \A k \in 1 .. n + 1 - next : next - 1 + k \in 1 .. n
    BY <2>1
  <2> QED BY <2>2 DEF next
<1>4. ASSUME NEW k \in 1 .. m
      PROVE  LookIn(root, kids[f.next - 1 + k], i) \in E
  <2>1. kids[f.next - 1 + k] \in Nodes(root)
    BY <1>1, <1>3
  <2>2. \A x \in Nodes(root) : \A g \in BOOLEAN : LookIn(root, x, g) \in Seq(Event)
    BY LookType DEF Tamed
  <2> HIDE DEF i
  <2> QED BY <1>2, <2>1, <2>2
<1>5. PartsLeft(root, f) = [k \in 1 .. m |-> LookIn(root, kids[f.next - 1 + k], i)]
  BY Zenon DEF PartsLeft
<1> HIDE DEF kids, n, i, m, E
<1>6. PartsLeft(root, f) \in [1 .. m -> E]
  BY <1>4, <1>5
<1>7. PartsLeft(root, f) \in Seq(E)
  BY <1>3, <1>6, FunctionIsSeq
<1> QED BY <1>3, <1>6, <1>7 DEF m, n, kids, E

\* The closing tag is an event.
LEMMA CloseType ==
  ASSUME NEW exact, NEW root \in TreeOf[Height], Tamed(exact, root), NEW d \in Nat, NEW f, OpenTag(root, d, f)
  PROVE  /\ Line(<<<<"close", f.tag.tag>>>>, Flat(f.lvl)) \in Seq(Event)
         /\ Line(<<Opening(f.tag)>>, Flat(f.lvl)) \in Seq(Event)
         /\ W!OnLine(f.lvl, W!PrintOpen(f.tag)) \in Seq(Word)
         /\ W!OnLine(f.lvl, W!PrintClose(f.tag)) \in Seq(Word)
         /\ Shows(exact, "data", W!OnLine(f.lvl, W!PrintOpen(f.tag)), Line(<<Opening(f.tag)>>, Flat(f.lvl)), "data")
         /\ Shows(exact, "data", W!OnLine(f.lvl, W!PrintClose(f.tag)), Line(<<<<"close", f.tag.tag>>>>, Flat(f.lvl)), "data")
<1> DEFINE node == f.tag
           t == node.tag
           attrs == node.attrs
           lvl == f.lvl
<1>1. t \in TagName /\ attrs \in Seq(TreeAttr) /\ IsLevel(lvl)
  BY OpenBody
<1>2. t \in Word /\ t \notin {"/", ">"} /\ After(t) = "data"
  BY <1>1, TagNames
<1>3. Tame(exact, attrs)
  BY DEF Tamed, OpenTag, NodeTame
<1>4. node.tag = t /\ node.attrs = attrs
  OBVIOUS
<1> HIDE DEF t, attrs, lvl, node
<1>5. /\ W!OnLine(lvl, W!PrintOpen(node)) \in Seq(Word) /\ Line(<<Opening(node)>>, Flat(lvl)) \in Seq(Event)
      /\ Shows(exact, "data", W!OnLine(lvl, W!PrintOpen(node)), Line(<<Opening(node)>>, Flat(lvl)), After(t))
      /\ W!OnLine(lvl, W!PrintClose(node)) \in Seq(Word) /\ Line(<<<<"close", t>>>>, Flat(lvl)) \in Seq(Event)
      /\ Shows(exact, After(t), W!OnLine(lvl, W!PrintClose(node)), Line(<<<<"close", t>>>>, Flat(lvl)), "data")
  BY <1>1, <1>2, <1>3, <1>4, ShowsTag
<1>6. /\ Shows(exact, "data", W!OnLine(lvl, W!PrintOpen(node)), Line(<<Opening(node)>>, Flat(lvl)), "data")
      /\ Shows(exact, "data", W!OnLine(lvl, W!PrintClose(node)), Line(<<<<"close", t>>>>, Flat(lvl)), "data")
  BY <1>2, <1>5, Zenon
<1> QED BY <1>5, <1>6, Zenon DEF t, lvl, node

\* What is left of a tag is events.
LEMMA LeftType ==
  ASSUME NEW exact, NEW root \in TreeOf[Height], Tamed(exact, root), NEW d \in Nat, NEW f, OpenTag(root, d, f)
  PROVE  Left(root, f) \in Seq(Event)
<1> DEFINE flat == FlattenSeq(PartsLeft(root, f))
           close == Line(<<<<"close", f.tag.tag>>>>, Flat(f.lvl))
<1>1. flat \in Seq(Event)
  BY PartsLeftType, FlattenType
<1>2. close \in Seq(Event)
  BY CloseType
<1> HIDE DEF flat, close
<1>3. flat \o close \in Seq(Event)
  BY <1>1, <1>2
<1> QED BY <1>3 DEF Left, flat, close

\* The next child is the first that is left.
LEMMA LeftNext ==
  ASSUME NEW exact, NEW root \in TreeOf[Height], Tamed(exact, root), NEW d \in Nat, NEW f, OpenTag(root, d, f),
         f.next <= Len(f.tag.body), NEW g, g.tag = f.tag, g.lvl = f.lvl, g.next = f.next + 1, OpenTag(root, d, g)
  PROVE  Left(root, f) = LookIn(root, f.tag.body[f.next], Flat(f.lvl)) \o Left(root, g)
<1> DEFINE kids == f.tag.body
           n == Len(kids)
           next == f.next
           i == Flat(f.lvl)
           m == n - next
           E == Seq(Event)
           p == PartsLeft(root, f)
           q == PartsLeft(root, g)
           x == LookIn(root, kids[next], i)
           close == Line(<<<<"close", f.tag.tag>>>>, i)
<1>1. n \in Nat /\ next \in 1 .. n + 1 /\ next <= n /\ m \in Nat /\ n + 1 - next = m + 1
  BY OpenBody, SMTT(30) DEF OpenTag
<1>2. p \in [1 .. n + 1 - next -> E] /\ q \in Seq(E)
  BY PartsLeftType
<1>3. p \in [1 .. m + 1 -> Seq(Event)]
  BY <1>1, <1>2
<1>4. p = [k \in 1 .. m + 1 |-> LookIn(root, kids[next - 1 + k], i)]
  <2>1. p = [k \in 1 .. n + 1 - next |-> LookIn(root, kids[next - 1 + k], i)]
    BY Zenon DEF PartsLeft
  <2> HIDE DEF p, m, n, next
  <2> QED BY <1>1, <2>1
<1>5. q = [k \in 1 .. n + 1 - (next + 1) |-> LookIn(root, kids[(next + 1) - 1 + k], i)]
  BY Zenon DEF PartsLeft
<1>6. q = [k \in 1 .. m |-> p[k + 1]]
  <2> HIDE DEF kids
  <2>1. n + 1 - (next + 1) = m
    BY <1>1, SMTT(30)
  <2>2. ASSUME NEW k \in 1 .. m
        PROVE  LookIn(root, kids[(next + 1) - 1 + k], i) = p[k + 1]
    <3>1. (next + 1) - 1 + k = next - 1 + (k + 1) /\ k + 1 \in 1 .. m + 1
      BY <1>1, SMTT(30)
    <3> HIDE DEF p, m, i, next
    <3>2. p[k + 1] = LookIn(root, kids[next - 1 + (k + 1)], i)
      BY <1>4, <3>1
    <3> QED BY <3>1, <3>2
  <2> HIDE DEF p, q, m, i, n, next
  <2> QED BY <1>5, <2>1, <2>2
<1>7. p[1] = x
  <2>1. 1 \in 1 .. m + 1 /\ next - 1 + 1 = next
    BY <1>1, SMTT(30)
  <2> HIDE DEF p, m, i, next, kids
  <2>2. p[1] = LookIn(root, kids[next - 1 + 1], i)
    BY <1>4, <2>1
  <2> QED BY <2>1, <2>2
<1>8. x \in E
  <2>1. 1 \in 1 .. m + 1
    BY <1>1
  <2> HIDE DEF p, m, x
  <2> QED BY <1>3, <1>7, <2>1
<1>9. FlattenSeq(p) = x \o FlattenSeq(q)
  <2> HIDE DEF p, q, m, x
  <2>1. FlattenSeq(p) = p[1] \o FlattenSeq([k \in 1 .. m |-> p[k + 1]])
    BY <1>1, <1>3, FlattenFirst, ZenonT(30)
  <2> QED BY <1>6, <1>7, <2>1, Zenon
<1>10. close \in E /\ FlattenSeq(q) \in E
  <2>1. FlattenSeq(q) \in E
    <3> HIDE DEF q
    <3> QED BY <1>2, FlattenType
  <2> QED BY <2>1, CloseType
<1>11. Left(root, f) = FlattenSeq(p) \o close /\ Left(root, g) = FlattenSeq(q) \o close
  BY Zenon DEF Left
<1> DEFINE fq == FlattenSeq(q)
<1> HIDE DEF p, q, x, close
<1>12. /\ fq \in Seq(Event) /\ FlattenSeq(p) = x \o fq /\ Left(root, g) = fq \o close
       /\ x \in Seq(Event) /\ close \in Seq(Event)
  BY <1>8, <1>9, <1>10, <1>11
<1> HIDE DEF fq, E, n, m, next, i, kids
<1>13. (x \o fq) \o close = x \o (fq \o close)
  BY <1>12, ConcatAssociative, SMTT(30)
<1>14. Left(root, f) = x \o Left(root, g)
  BY <1>11, <1>12, <1>13, Zenon
<1> QED BY <1>14, Zenon DEF x, i, kids, next

\* After the last child only the end is left.
LEMMA LeftEnd ==
  ASSUME NEW exact, NEW root \in TreeOf[Height], Tamed(exact, root), NEW d \in Nat, NEW f, OpenTag(root, d, f),
         f.next > Len(f.tag.body)
  PROVE  Left(root, f) = Line(<<<<"close", f.tag.tag>>>>, Flat(f.lvl))
<1> DEFINE n == Len(f.tag.body)
           p == PartsLeft(root, f)
           close == Line(<<<<"close", f.tag.tag>>>>, Flat(f.lvl))
<1>1. n \in Nat /\ f.next \in 1 .. n + 1 /\ f.next > n /\ n + 1 - f.next = 0
  BY OpenBody DEF OpenTag
<1>2. p \in [1 .. n + 1 - f.next -> Seq(Event)]
  BY PartsLeftType
<1>3. p \in [1 .. 0 -> Seq(Event)]
  <2> HIDE DEF p, n
  <2> QED BY <1>1, <1>2
<1>4. FlattenSeq(p) = <<>>
  <2> HIDE DEF p
  <2> QED BY <1>3, FlattenNone
<1>5. close \in Seq(Event)
  BY CloseType
<1>6. Left(root, f) = FlattenSeq(p) \o close
  BY Zenon DEF Left
<1> HIDE DEF p, close
<1>7. <<>> \o close = close
  BY <1>5
<1> QED BY <1>4, <1>6, <1>7, Zenon DEF close

\* A tag that has been opened looks like its opening tag, and what is left of it.
LEMMA LookOpens ==
  ASSUME NEW exact, NEW root \in TreeOf[Height], Tamed(exact, root), NEW d \in Nat, NEW g, OpenTag(root, d, g),
         g.next = 1, NEW f \in BOOLEAN, Flat(g.lvl) = InFlow(g.tag, f)
  PROVE  LookIn(root, g.tag, f) = Line(<<Opening(g.tag)>>, Flat(g.lvl)) \o Left(root, g)
<1> DEFINE t == g.tag
           i == Flat(g.lvl)
           p == PartsLeft(root, g)
           parts == PartsIn(root, t, i)
           open == Line(<<Opening(t)>>, i)
           close == Line(<<<<"close", t.tag>>>>, i)
           kids == t.body
           n == Len(kids)
<1>1. t \in Nodes(root) /\ t.kind = "simple" /\ Body(t) = kids
  BY DEF OpenTag, Body
<1>2. n \in Nat /\ DOMAIN kids = 1 .. n
  <2>1. kids \in Seq(TreeOf[Height - d - 1])
    <3> DEFINE h == Height - d
    <3>1. t \in TreeOf[h] /\ h \in Nat
      BY StackAssumption DEF OpenTag, Height
    <3> HIDE DEF h
    <3>2. t.body \in Seq(TreeOf[h - 1])
      BY <1>1, <3>1, ChildLess
    <3> QED BY <3>2 DEF h
  <2> QED BY <2>1
<1>3. LookIn(root, t, f) = (open \o FlattenSeq(parts)) \o close
  <2>1. LookIn(root, t, f) = (Line(<<Opening(t)>>, InFlow(t, f)) \o FlattenSeq(PartsIn(root, t, InFlow(t, f))))
                               \o Line(<<<<"close", t.tag>>>>, InFlow(t, f))
    BY <1>1, TagLook
  <2>2. InFlow(t, f) = i
    OBVIOUS
  <2> HIDE DEF i, t
  <2> QED BY <2>1, <2>2, Zenon
<1>4. parts = p
  <2>1. p = [k \in 1 .. n + 1 - 1 |-> LookIn(root, kids[1 - 1 + k], i)]
    BY Zenon DEF PartsLeft
  <2>2. parts = [k \in 1 .. n |-> LookIn(root, kids[k], i)]
    BY <1>1, <1>2, Zenon DEF PartsIn
  <2> HIDE DEF p, parts, n, i, kids
  <2>3. n + 1 - 1 = n /\ \A k \in 1 .. n : 1 - 1 + k = k
    BY <1>2
  <2> QED BY <2>1, <2>2, <2>3
<1>5. open \in Seq(Event) /\ close \in Seq(Event)
  BY CloseType
<1>6. FlattenSeq(p) \in Seq(Event)
  BY PartsLeftType, FlattenType
<1>7. Left(root, g) = FlattenSeq(p) \o close
  BY Zenon DEF Left
<1> DEFINE fp == FlattenSeq(p)
<1>8. LookIn(root, t, f) = (open \o fp) \o close /\ fp \in Seq(Event) /\ Left(root, g) = fp \o close
  <2> HIDE DEF p, parts, open, close, t
  <2> QED BY <1>3, <1>4, <1>6, <1>7, ZenonT(30)
<1> HIDE DEF open, close, fp
<1>9. (open \o fp) \o close = open \o (fp \o close)
  BY <1>5, <1>8, ConcatAssociative, SMTT(30)
<1> QED BY <1>8, <1>9, Zenon DEF open, t, i

\* The tags that may be open at a depth.
OpenAt(root, d) == {f \in [tag : Nodes(root), lvl : Nat, next : Nat] : OpenTag(root, d, f)}
OpenSets(root)  == [d \in Nat |-> OpenAt(root, d)]

\* Just the tags that may be open at a depth are in the set for it.
LEMMA OpenIs ==
  ASSUME NEW root \in TreeOf[Height], NEW d \in Nat, NEW f
  PROVE  f \in OpenSets(root)[d] <=> OpenTag(root, d, f)
<1>1. ASSUME OpenTag(root, d, f)
      PROVE  f \in [tag : Nodes(root), lvl : Nat, next : Nat]
  <2>1. f.next \in Nat
    BY <1>1, OpenBody
  <2>2. f.lvl \in Nat
    BY <1>1, StackAssumption, SMTT(30) DEF OpenTag, RowLevel
  <2>3. f.tag \in Nodes(root) /\ f = [tag |-> f.tag, lvl |-> f.lvl, next |-> f.next]
    BY <1>1 DEF OpenTag
  <2> DEFINE t == f.tag
             l == f.lvl
             k == f.next
  <2>4. t \in Nodes(root) /\ l \in Nat /\ k \in Nat /\ f = [tag |-> t, lvl |-> l, next |-> k]
    BY <2>1, <2>2, <2>3
  <2> HIDE DEF t, l, k
  <2> QED BY <2>4
<1> QED BY <1>1 DEF OpenSets, OpenAt

\* What is left of the tags in a stack.
LEMMA RemainingType ==
  ASSUME NEW exact, NEW root \in TreeOf[Height], Tamed(exact, root), NEW s, Piled(s, OpenSets(root))
  PROVE  /\ Len(s) \in Nat /\ \A k \in 1 .. Len(s) : Left(root, s[k]) \in Seq(Event)
         /\ Remaining(root, s) \in Seq(Event)
<1> DEFINE n == Len(s)
           U == UNION {OpenSets(root)[d] : d \in Nat}
           E == Seq(Event)
           f == [k \in 1 .. n |-> Left(root, s[k])]
<1>1. s \in Seq(U) /\ \A k \in 1 .. n : s[k] \in OpenSets(root)[n - k]
  BY DEF Piled
<1> HIDE DEF U
<1>2. n \in Nat
  BY <1>1
<1>3. ASSUME NEW k \in 1 .. n
      PROVE  Left(root, s[k]) \in E
  <2> DEFINE d == n - k
             x == s[k]
  <2>1. d \in Nat /\ x \in OpenSets(root)[d]
    BY <1>1, <1>2
  <2> HIDE DEF d, x
  <2>2. OpenTag(root, d, x)
    BY <2>1, OpenIs
  <2>3. Left(root, x) \in Seq(Event)
    BY <2>1, <2>2, LeftType
  <2> QED BY <2>3 DEF x
<1>4. f \in [1 .. n -> E]
  <2> HIDE DEF n, E
  <2> QED BY <1>3
<1>5. f \in Seq(E)
  <2> HIDE DEF f, n, E
  <2> QED BY <1>2, <1>4, FunctionIsSeq
<1>6. FlattenSeq(f) \in Seq(Event)
  <2> HIDE DEF f
  <2> QED BY <1>5, FlattenType
<1> QED BY <1>2, <1>3, <1>6 DEF Remaining

\* Of the tag on the top first.
LEMMA RemainingTop ==
  ASSUME NEW exact, NEW root \in TreeOf[Height], Tamed(exact, root), NEW s, Piled(s, OpenSets(root)), s # <<>>
  PROVE  Remaining(root, s) = Left(root, s[1]) \o Remaining(root, Tail(s))
<1> DEFINE n == Len(s)
           t == Tail(s)
           m == n - 1
           E == Seq(Event)
           f == [k \in 1 .. n |-> Left(root, s[k])]
           g == [k \in 1 .. m |-> Left(root, t[k])]
           U == UNION {OpenSets(root)[d] : d \in Nat}
<1>1. n \in Nat \ {0} /\ Len(t) = m /\ m \in Nat /\ n = m + 1
  BY PiledTop
<1>2. \A k \in 1 .. n : Left(root, s[k]) \in E
  BY RemainingType
<1>3. \A k \in 1 .. m : t[k] = s[k + 1] /\ k + 1 \in 1 .. n
  <2>1. s \in Seq(U)
    BY DEF Piled
  <2> HIDE DEF U
  <2> QED BY <1>1, <2>1
<1>4. f \in [1 .. m + 1 -> Seq(Event)]
  <2> HIDE DEF n, m, t
  <2> QED BY <1>1, <1>2
<1>5. g = [k \in 1 .. m |-> f[k + 1]]
  <2> HIDE DEF n, t, m
  <2>1. \A k \in 1 .. m : f[k + 1] = Left(root, s[k + 1])
    BY <1>3
  <2> HIDE DEF f
  <2> QED BY <1>3, <2>1
<1>6. f[1] = Left(root, s[1])
  BY <1>1
<1>7. FlattenSeq(f) = f[1] \o FlattenSeq([k \in 1 .. m |-> f[k + 1]])
  <2>1. m \in Nat
    BY <1>1
  <2> HIDE DEF f, m, g
  <2> QED BY <2>1, <1>4, FlattenFirst
<1>8. Remaining(root, s) = FlattenSeq(f)
  BY Zenon DEF Remaining
<1>9. Remaining(root, t) = FlattenSeq(g)
  <2> HIDE DEF t, m
  <2>1. Remaining(root, t) = FlattenSeq([k \in 1 .. Len(t) |-> Left(root, t[k])])
    BY Zenon DEF Remaining
  <2> QED BY <1>1, <2>1, Zenon
<1> HIDE DEF f, g, m
<1> QED BY <1>5, <1>6, <1>7, <1>8, <1>9, Zenon

\* When no tag is open nothing is left.
LEMMA RemainingNone == ASSUME NEW root PROVE Remaining(root, <<>>) = <<>>
<1> DEFINE f == [k \in 1 .. 0 |-> Left(root, <<>>[k])]
<1>1. Len(<<>>) = 0
  OBVIOUS
<1>2. Remaining(root, <<>>) = FlattenSeq(f)
  BY <1>1, Zenon DEF Remaining
<1>3. f = <<>>
  OBVIOUS
<1> HIDE DEF f
<1> QED BY <1>2, <1>3, FlattenEmpty, Zenon

\* One more tag is open.
LEMMA RemainingPush ==
  ASSUME NEW exact, NEW root \in TreeOf[Height], Tamed(exact, root), NEW s, Piled(s, OpenSets(root)),
         NEW f, OpenTag(root, Len(s), f)
  PROVE  /\ Piled(<<f>> \o s, OpenSets(root))
         /\ Remaining(root, <<f>> \o s) = Left(root, f) \o Remaining(root, s)
<1> DEFINE t == <<f>> \o s
           U == UNION {OpenSets(root)[d] : d \in Nat}
<1>1. Len(s) \in Nat
  BY RemainingType
<1>2. f \in OpenSets(root)[Len(s)]
  BY <1>1, OpenIs
<1>3. Piled(t, OpenSets(root))
  BY <1>2, PiledPush
<1>4. s \in Seq(U) /\ f \in U
  BY <1>1, <1>2 DEF Piled
<1> HIDE DEF U
<1>5. t # <<>> /\ t[1] = f /\ Tail(t) = s
  BY <1>4
<1> HIDE DEF t
<1>6. Remaining(root, t) = Left(root, t[1]) \o Remaining(root, Tail(t))
  BY <1>3, <1>5, RemainingTop
<1> QED BY <1>3, <1>5, <1>6, Zenon DEF t

\* The tags below the top.
LEMMA RestIsTail == ASSUME NEW S, NEW s \in Seq(S), s # <<>> PROVE SubSeq(s, 2, Len(s)) = Tail(s)
OBVIOUS

\* The text so far shows the page up to what is left of the tags that are open.
Printed(exact, root, text, s) ==
  /\ text \in Seq(Word)
  /\ \E e \in Seq(Event) : /\ Shows(exact, "data", text, e, "data")
                           /\ e \o Remaining(root, s) = LookIn(root, root, FALSE)

\* More text, and less that is left.
LEMMA PrintedMore ==
  ASSUME NEW exact, NEW root, NEW text, NEW s, Printed(exact, root, text, s), NEW more \in Seq(Word),
         NEW d \in Seq(Event), Shows(exact, "data", more, d, "data"),
         NEW t, Remaining(root, t) \in Seq(Event), Remaining(root, s) = d \o Remaining(root, t)
  PROVE  Printed(exact, root, text \o more, t)
<1> DEFINE look == LookIn(root, root, FALSE)
           rest == Remaining(root, t)
           data == "data"
<1>1. PICK e \in Seq(Event) : Shows(exact, data, text, e, data) /\ e \o Remaining(root, s) = look
  BY DEF Printed
<1>2. text \in Seq(Word) /\ rest \in Seq(Event) /\ Shows(exact, data, more, d, data) /\ Remaining(root, s) = d \o rest
  BY DEF Printed
<1> HIDE DEF look, rest, data
<1>3. Shows(exact, data, text \o more, e \o d, data)
  BY <1>1, <1>2, ShowsBoth
<1>4. text \o more \in Seq(Word) /\ e \o d \in Seq(Event)
  BY <1>2, ConcatProperties
<1>5. (e \o d) \o rest = e \o (d \o rest)
  <2>1. ConcatAssociates(Event)
    BY Associative
  <2> QED BY <1>2, <2>1, ZenonT(30) DEF ConcatAssociates
<1>6. (e \o d) \o rest = look
  BY <1>1, <1>2, <1>5, Zenon
<1> QED BY <1>3, <1>4, <1>6 DEF Printed, look, rest, data

\* The tag on the top, when its next child is done.
Bumped(f) == [f EXCEPT !.next = @ + 1]

\* It is still open, a child further.
LEMMA OpenBump ==
  ASSUME NEW root \in TreeOf[Height], NEW d \in Nat, NEW f, OpenTag(root, d, f), f.next <= Len(f.tag.body)
  PROVE  /\ Bumped(f).tag = f.tag /\ Bumped(f).lvl = f.lvl /\ Bumped(f).next = f.next + 1
         /\ OpenTag(root, d, Bumped(f))
<1> DEFINE g == Bumped(f)
           t == f.tag
           l == f.lvl
           k == f.next
           n == Len(t.body)
<1>1. n \in Nat /\ k \in 1 .. n + 1 /\ k <= n
  BY OpenBody DEF OpenTag
<1>2. f = [tag |-> t, lvl |-> l, next |-> k]
  BY DEF OpenTag
<1>3. g = [tag |-> t, lvl |-> l, next |-> k + 1]
  <2> HIDE DEF t, l, k
  <2> QED BY <1>2 DEF Bumped
<1>4. g.tag = t /\ g.lvl = l /\ g.next = k + 1
  <2> HIDE DEF g, t, l, k
  <2> QED BY <1>3
<1>5. k + 1 \in 1 .. n + 1
  BY <1>1, SMTT(30)
<1> HIDE DEF g, n
<1>6. OpenTag(root, d, g)
  <2>1. Len(g.tag.body) = n
    BY <1>4 DEF n
  <2>2. g = [tag |-> g.tag, lvl |-> g.lvl, next |-> g.next]
    BY <1>3, <1>4
  <2>3. g.next \in 1 .. Len(g.tag.body) + 1
    BY <1>4, <1>5, <2>1
  <2>4. /\ g.tag \in Nodes(root) /\ g.tag.kind = "simple" /\ g.tag \in TreeOf[Height - d]
        /\ g.lvl = FLOW_STYLE \/ g.lvl = RowLevel + 2 * d
        /\ d < Height
    BY <1>4, Zenon DEF OpenTag
  <2> QED BY <2>2, <2>3, <2>4 DEF OpenTag
<1> QED BY <1>4, <1>6 DEF g

\* What is left first of the tags in a stack, and what is left then.
LeftFirst(root, s, x, t) == Remaining(root, s) = x \o Remaining(root, t)

\* The next child is what is left first of all that is open.
LEMMA RemainingNext ==
  ASSUME NEW exact, NEW root \in TreeOf[Height], Tamed(exact, root), NEW below, Piled(below, OpenSets(root)),
         NEW d \in Nat, Len(below) = d, NEW f, OpenTag(root, d, f), f.next <= Len(f.tag.body)
  PROVE  /\ Piled(<<Bumped(f)>> \o below, OpenSets(root)) /\ Len(<<Bumped(f)>> \o below) = d + 1
         /\ LookIn(root, f.tag.body[f.next], Flat(f.lvl)) \in Seq(Event)
         /\ LeftFirst(root, <<f>> \o below, LookIn(root, f.tag.body[f.next], Flat(f.lvl)), <<Bumped(f)>> \o below)
<1> DEFINE g == Bumped(f)
           x == LookIn(root, f.tag.body[f.next], Flat(f.lvl))
           a == Left(root, f)
           b == Left(root, g)
           c == Remaining(root, below)
<1>1. g.tag = f.tag /\ g.lvl = f.lvl /\ g.next = f.next + 1 /\ OpenTag(root, d, g)
  BY OpenBump, SMTT(30)
<1> HIDE DEF g
<1>2. a = x \o b
  BY <1>1, LeftNext
<1>3. Remaining(root, <<f>> \o below) = a \o c
  BY RemainingPush
<1>4. Piled(<<g>> \o below, OpenSets(root)) /\ Remaining(root, <<g>> \o below) = b \o c
  BY <1>1, RemainingPush
<1>5. Len(<<g>> \o below) = d + 1
  <2>1. g \in OpenSets(root)[Len(below)]
    BY <1>1, OpenIs
  <2> QED BY <2>1, PiledPush
<1>6. b \in Seq(Event) /\ c \in Seq(Event)
  BY <1>1, LeftType, RemainingType
<1>7. x \in Seq(Event)
  <2>1. f.tag.body[f.next] \in Nodes(root)
    <3>1. f.next \in 1 .. Len(f.tag.body)
      BY OpenBody DEF OpenTag
    <3> QED BY <3>1, OpenBody
  <2>2. Flat(f.lvl) \in BOOLEAN
    BY DEF Flat
  <2>3. \A n \in Nodes(root) : \A k \in BOOLEAN : LookIn(root, n, k) \in Seq(Event)
    BY LookType DEF Tamed
  <2> QED BY <2>1, <2>2, <2>3
<1> HIDE DEF x, a, b, c
<1>8. (x \o b) \o c = x \o (b \o c)
  <2>1. ConcatAssociates(Event)
    BY Associative
  <2> QED BY <1>6, <1>7, <2>1, ZenonT(30) DEF ConcatAssociates
<1>9. LeftFirst(root, <<f>> \o below, x, <<g>> \o below)
  BY <1>2, <1>3, <1>4, <1>8, Zenon DEF LeftFirst
<1> QED BY <1>4, <1>5, <1>7, <1>9, Zenon DEF x, g

\* A child that is a tag is opened.
LEMMA PrintedTag ==
  ASSUME NEW exact, NEW root \in TreeOf[Height], Tamed(exact, root), NEW mid, Piled(mid, OpenSets(root)),
         NEW d \in Nat, Len(mid) = d, NEW h, OpenTag(root, d, h), h.next = 1,
         NEW flow \in BOOLEAN, Flat(h.lvl) = InFlow(h.tag, flow),
         NEW s, LeftFirst(root, s, LookIn(root, h.tag, flow), mid),
         NEW text, Printed(exact, root, text, s)
  PROVE  /\ Piled(<<h>> \o mid, OpenSets(root))
         /\ Printed(exact, root, text \o W!OnLine(h.lvl, W!PrintOpen(h.tag)), <<h>> \o mid)
<1> DEFINE t == <<h>> \o mid
           more == W!OnLine(h.lvl, W!PrintOpen(h.tag))
           open == Line(<<Opening(h.tag)>>, Flat(h.lvl))
           a == Left(root, h)
           c == Remaining(root, mid)
           x == LookIn(root, h.tag, flow)
<1>1. Piled(t, OpenSets(root)) /\ Remaining(root, t) = a \o c
  BY RemainingPush
<1>2. x = open \o a
  BY LookOpens
<1>3. a \in Seq(Event) /\ c \in Seq(Event)
  BY LeftType, RemainingType
<1>4. open \in Seq(Event) /\ more \in Seq(Word) /\ Shows(exact, "data", more, open, "data")
  BY CloseType
<1>5. Remaining(root, s) = x \o c
  BY Zenon DEF LeftFirst
<1> HIDE DEF t, more, open, a, c, x
<1>6. (open \o a) \o c = open \o (a \o c)
  <2>1. ConcatAssociates(Event)
    BY Associative
  <2> QED BY <1>3, <1>4, <2>1, ZenonT(30) DEF ConcatAssociates
<1>7. Remaining(root, s) = open \o Remaining(root, t)
  BY <1>1, <1>2, <1>5, <1>6, Zenon
<1>8. Remaining(root, t) \in Seq(Event)
  BY <1>1, RemainingType
<1>9. Printed(exact, root, text \o more, t)
  BY <1>4, <1>7, <1>8, PrintedMore
<1> QED BY <1>1, <1>9 DEF t, more

\* A child without children is printed.
LEMMA PrintedLeaf ==
  ASSUME NEW exact, NEW root \in TreeOf[Height], Tamed(exact, root), NEW mid, Piled(mid, OpenSets(root)),
         NEW node, node \in Nodes(root), node.kind # "simple", NEW lvl, IsLevel(lvl),
         NEW s, LeftFirst(root, s, LookIn(root, node, Flat(lvl)), mid),
         NEW text, Printed(exact, root, text, s)
  PROVE  Printed(exact, root, text \o W!Leaf(node, lvl), mid)
<1> DEFINE more == W!Leaf(node, lvl)
           fl == Flat(lvl)
           parts == PartsIn(root, node, fl)
           x == LookIn(root, node, fl)
<1>1. node \in LeafNode
  <2> DEFINE m == Height
  <2>1. m \in Nat /\ node \in TreeOf[m]
    BY StackAssumption, NodesOfTree DEF Height
  <2> HIDE DEF m
  <2>2. (node \in LeafNode /\ node.kind # "simple") \/ node \in TagOver(TreeOf[m - 1])
    BY <2>1, TreeIs
  <2>3. node \notin TagOver(TreeOf[m - 1])
    <3> DEFINE X == TreeOf[m - 1]
    <3> HIDE DEF X
    <3>1. node \notin TagOver(X)
      BY TagFields
    <3> QED BY <3>1 DEF X
  <2> QED BY <2>2, <2>3
<1>2. fl \in BOOLEAN
  BY DEF Flat
<1>3. x = NodeLook(node, fl, parts)
  <2> HIDE DEF fl
  <2>1. InFlow(node, fl) = fl
    BY <1>2, Zenon DEF InFlow
  <2>2. LookIn(root, node, fl) = NodeLook(node, InFlow(node, fl), PartsIn(root, node, InFlow(node, fl)))
    BY <1>2, LookUnfolds
  <2> QED BY <2>1, <2>2, Zenon
<1>4. NodeTame(exact, node)
  BY DEF Tamed
<1>5. x \in Seq(Event) /\ more \in Seq(Word) /\ Shows(exact, "data", more, x, "data")
  <2> HIDE DEF parts, x
  <2>1. /\ W!Leaf(node, lvl) \in Seq(Word) /\ NodeLook(node, Flat(lvl), parts) \in Seq(Event)
        /\ Shows(exact, "data", W!Leaf(node, lvl), NodeLook(node, Flat(lvl), parts), "data")
    BY <1>1, <1>4, ShowsLeaf
  <2> QED BY <1>3, <2>1, Zenon
<1>6. Remaining(root, mid) \in Seq(Event)
  BY RemainingType
<1>7. Remaining(root, s) = x \o Remaining(root, mid)
  BY Zenon DEF LeftFirst
<1> HIDE DEF more, x, fl
<1>8. Printed(exact, root, text \o more, mid)
  BY <1>5, <1>6, <1>7, PrintedMore
<1> QED BY <1>8 DEF more

\* A tag is closed.
LEMMA PrintedClose ==
  ASSUME NEW exact, NEW root \in TreeOf[Height], Tamed(exact, root), NEW below, Piled(below, OpenSets(root)),
         NEW d \in Nat, Len(below) = d, NEW f, OpenTag(root, d, f), f.next > Len(f.tag.body),
         NEW text, Printed(exact, root, text, <<f>> \o below)
  PROVE  Printed(exact, root, text \o W!OnLine(f.lvl, W!PrintClose(f.tag)), below)
<1> DEFINE s == <<f>> \o below
           more == W!OnLine(f.lvl, W!PrintClose(f.tag))
           close == Line(<<<<"close", f.tag.tag>>>>, Flat(f.lvl))
<1>1. Remaining(root, s) = Left(root, f) \o Remaining(root, below)
  BY RemainingPush
<1>2. Left(root, f) = close
  BY LeftEnd
<1>3. close \in Seq(Event) /\ more \in Seq(Word) /\ Shows(exact, "data", more, close, "data")
  BY CloseType
<1>4. Remaining(root, below) \in Seq(Event)
  BY RemainingType
<1> HIDE DEF s, more, close
<1>5. Printed(exact, root, text, s)
  BY DEF s
<1>6. Printed(exact, root, text \o more, below)
  BY <1>1, <1>2, <1>3, <1>4, <1>5, PrintedMore
<1> QED BY <1>6 DEF more

\* A level is lower or the same in a tag in flow style, and no level but that of
\* flow style is as great as ~0u.
LEMMA LevelDown ==
  ASSUME NEW root \in TreeOf[Height], NEW d \in Nat, NEW f, OpenTag(root, d, f), f.next <= Len(f.tag.body)
  PROVE  /\ d + 1 < Height
         /\ W!IncIndent(f.lvl) = FLOW_STYLE \/ W!IncIndent(f.lvl) = RowLevel + 2 * (d + 1)
         /\ Flat(W!IncIndent(f.lvl)) = Flat(f.lvl) /\ IsLevel(W!IncIndent(f.lvl))
         /\ f.tag.body[f.next] \in Nodes(root) /\ f.tag.body[f.next] \in TreeOf[Height - (d + 1)]
<1> DEFINE l == f.lvl
           i == W!IncIndent(l)
           m == Height - (d + 1)
           node == f.tag.body[f.next]
<1>1. node \in Nodes(root) /\ node \in TreeOf[m]
  <2>1. f.next \in 1 .. Len(f.tag.body)
    BY OpenBody DEF OpenTag
  <2> QED BY <2>1, OpenBody
<1>2. m \in Nat /\ d < Height /\ Height \in Nat
  BY StackAssumption, SMTT(30) DEF OpenTag, Height
<1>3. m # 0
  <2> HIDE DEF m, node
  <2> QED BY <1>1, <1>2, TreeIs
<1>4. d + 1 < Height
  BY <1>2, <1>3
<1>5. RowLevel + 2 * (d + 1) \in Nat /\ RowLevel + 2 * (d + 1) > 0 /\ RowLevel + 2 * (d + 1) + 2 < FLOW_STYLE
  BY <1>4, StackAssumption DEF Height, RowLevel
<1>6. FLOW_STYLE \in Nat /\ FLOW_STYLE > 0
  BY StackAssumption DEF RowLevel
<1>7. CASE l = FLOW_STYLE
  <2>1. i = FLOW_STYLE
    BY <1>7 DEF W!IncIndent
  <2> HIDE DEF i, l
  <2>2. Flat(i) = Flat(l) /\ IsLevel(i)
    BY <1>7, <2>1 DEF Flat, IsLevel
  <2> QED BY <1>1, <1>4, <2>1, <2>2 DEF i, l, node, m
<1>8. CASE l # FLOW_STYLE
  <2> DEFINE b == RowLevel + 2 * d
             a == b + 2
  <2>1. l = b /\ b \in Nat /\ a \in Nat /\ a < FLOW_STYLE + 1 /\ a = RowLevel + 2 * (d + 1)
    BY <1>5, <1>6, <1>8, SMTT(30) DEF OpenTag, RowLevel
  <2>2. i = a
    <3>1. i = (l + 2) % (FLOW_STYLE + 1)
      BY <1>8 DEF W!IncIndent, W!Plus2
    <3>2. i = a % (FLOW_STYLE + 1)
      BY <2>1, <3>1, Zenon
    <3> HIDE DEF a
    <3>3. a % (FLOW_STYLE + 1) = a
      BY <1>6, <2>1, SMTT(30)
    <3> QED BY <3>2, <3>3
  <2> HIDE DEF i, l
  <2>3. i = RowLevel + 2 * (d + 1)
    BY <2>1, <2>2, Zenon
  <2>4. Flat(i) = FALSE /\ Flat(l) = FALSE
    BY <1>5, <1>6, <1>8, <2>3 DEF Flat
  <2>5. IsLevel(i)
    BY <1>5, <2>3 DEF IsLevel
  <2> QED BY <1>1, <1>4, <2>3, <2>4, <2>5 DEF i, l, node, m
<1> QED BY <1>7, <1>8

\* The style of a tag goes for all that is in it.
LEMMA LevelOfTag ==
  ASSUME NEW t, t.kind = "simple", NEW lvl
  PROVE  /\ Flat(W!LevelOf(t, lvl)) = InFlow(t, Flat(lvl))
         /\ W!LevelOf(t, lvl) = FLOW_STYLE \/ W!LevelOf(t, lvl) = lvl
<1>1. CASE t.style = "flow"
  <2>1. W!LevelOf(t, lvl) = FLOW_STYLE
    BY <1>1 DEF W!LevelOf
  <2>2. Flat(FLOW_STYLE) = TRUE /\ InFlow(t, Flat(lvl)) = TRUE
    BY <1>1, Zenon DEF Flat, InFlow
  <2> QED BY <2>1, <2>2, Zenon
<1>2. CASE t.style # "flow"
  <2>1. W!LevelOf(t, lvl) = lvl
    BY <1>2 DEF W!LevelOf
  <2>2. InFlow(t, Flat(lvl)) = Flat(lvl)
    BY <1>2, Zenon DEF Flat, InFlow
  <2> QED BY <2>1, <2>2, Zenon
<1> QED BY <1>1, <1>2

\* A tag that is opened now.
Begun(t, lvl) == [tag |-> t, lvl |-> lvl, next |-> 1]

\* It is open at its depth.
LEMMA BegunIsOpen ==
  ASSUME NEW root \in TreeOf[Height], NEW d \in Nat, d < Height, NEW t \in Nodes(root), t.kind = "simple",
         t \in TreeOf[Height - d], NEW lvl, lvl = FLOW_STYLE \/ lvl = RowLevel + 2 * d
  PROVE  /\ OpenTag(root, d, Begun(t, lvl))
         /\ Begun(t, lvl).tag = t /\ Begun(t, lvl).lvl = lvl /\ Begun(t, lvl).next = 1
<1> DEFINE f == Begun(t, lvl)
           h == Height - d
<1>1. f.tag = t /\ f.lvl = lvl /\ f.next = 1 /\ f = [tag |-> f.tag, lvl |-> f.lvl, next |-> f.next]
  BY DEF Begun
<1>2. Len(t.body) \in Nat
  <2>1. h \in Nat /\ t \in TreeOf[h]
    BY StackAssumption DEF Height
  <2> HIDE DEF h
  <2>2. t.body \in Seq(TreeOf[h - 1])
    BY <2>1, ChildLess
  <2> QED BY <2>2, LenProperties
<1> HIDE DEF f
<1>3. f.next \in 1 .. Len(f.tag.body) + 1
  BY <1>1, <1>2
<1> QED BY <1>1, <1>3 DEF OpenTag, f

\* The first tag is opened.
LEMMA PrintedFirst ==
  ASSUME NEW exact, NEW root \in TreeOf[Height], Tamed(exact, root), NEW h, OpenTag(root, 0, h), h.next = 1,
         h.tag = root, Flat(h.lvl) = InFlow(root, FALSE)
  PROVE  Printed(exact, root, W!OnLine(h.lvl, W!PrintOpen(h.tag)), <<h>>)
<1> DEFINE more == W!OnLine(h.lvl, W!PrintOpen(h.tag))
           open == Line(<<Opening(h.tag)>>, Flat(h.lvl))
           a == Left(root, h)
           none == <<>>
           no == FALSE
<1>0. 0 \in Nat /\ no \in BOOLEAN
  OBVIOUS
<1>1. Piled(none, OpenSets(root)) /\ Len(none) = 0 /\ Remaining(root, none) = none
  BY PiledNone, RemainingNone
<1> HIDE DEF none
<1>2. Remaining(root, <<h>> \o none) = a \o none
  <2>1. OpenTag(root, Len(none), h)
    BY <1>1
  <2>2. Remaining(root, <<h>> \o none) = Left(root, h) \o Remaining(root, none)
    BY <1>1, <2>1, RemainingPush
  <2> QED BY <1>1, <2>2, Zenon
<1>3. a \in Seq(Event)
  BY <1>0, LeftType
<1>4. LookIn(root, root, FALSE) = open \o a
  <2>1. Flat(h.lvl) = InFlow(h.tag, no)
    OBVIOUS
  <2> HIDE DEF no
  <2>2. LookIn(root, h.tag, no) = Line(<<Opening(h.tag)>>, Flat(h.lvl)) \o Left(root, h)
    BY <1>0, <2>1, LookOpens
  <2> QED BY <2>2 DEF no
<1>5. open \in Seq(Event) /\ more \in Seq(Word) /\ Shows(exact, "data", more, open, "data")
  BY <1>0, CloseType
<1> HIDE DEF a, open, more
<1>6. a \o none = a /\ <<h>> \o none = <<h>>
  BY <1>3 DEF none
<1>7. Remaining(root, <<h>>) = a
  BY <1>2, <1>6, Zenon
<1> QED BY <1>4, <1>5, <1>7 DEF Printed, more

-----------------------------------------------------------------------------
(* The page in the making.                                                 *)

\* The tags in the stack are open, and the text shows the page up to what is
\* left of them, if the values of the attributes are good.
PageGoesOn(root, text, s) ==
  /\ Piled(s, OpenSets(root))
  /\ \A exact \in BOOLEAN : Good(exact, root) => Printed(exact, root, text, s)

\* The root can be opened.
LEMMA RootOpens ==
  ASSUME NEW root \in TreeOf[Height], root.kind = "simple"
  PROVE  LET l == W!LevelOf(root, RowLevel)
             h == Begun(root, l)
         IN OpenTag(root, 0, h) /\ h.tag = root /\ h.lvl = l /\ h.next = 1 /\ Flat(l) = InFlow(root, FALSE)
<1> DEFINE l == W!LevelOf(root, RowLevel)
           h == Begun(root, l)
<1>1. 0 \in Nat /\ 0 < Height /\ Height - 0 = Height /\ RowLevel + 2 * 0 = RowLevel
  BY StackAssumption DEF Height, RowLevel
<1>2. Flat(RowLevel) = FALSE
  BY StackAssumption DEF Flat, RowLevel
<1>3. Flat(l) = InFlow(root, FALSE) /\ (l = FLOW_STYLE \/ l = RowLevel)
  BY <1>2, LevelOfTag, ZenonT(30)
<1>4. root \in Nodes(root)
  BY NodesOfTree
<1> HIDE DEF l
<1>5. OpenTag(root, 0, h) /\ h.tag = root /\ h.lvl = l /\ h.next = 1
  <2>1. root \in TreeOf[Height - 0] /\ (l = FLOW_STYLE \/ l = RowLevel + 2 * 0)
    BY <1>1, <1>3
  <2> QED BY <1>1, <1>4, <2>1, BegunIsOpen
<1> QED BY <1>3, <1>5, Zenon DEF l

\* The root is opened.
LEMMA PageFirst ==
  ASSUME NEW root \in TreeOf[Height], root.kind = "simple", NEW l, l = W!LevelOf(root, RowLevel)
  PROVE  PageGoesOn(root, <<>> \o W!OnLine(l, W!PrintOpen(root)), <<Begun(root, l)>> \o <<>>)
<1> DEFINE h == Begun(root, l)
           none == <<>>
           more == W!OnLine(l, W!PrintOpen(root))
<1>1. OpenTag(root, 0, h) /\ h.tag = root /\ h.lvl = l /\ h.next = 1 /\ Flat(l) = InFlow(root, FALSE)
  BY RootOpens
<1> HIDE DEF h
<1>2. Piled(<<h>> \o none, OpenSets(root))
  <2>1. h \in OpenSets(root)[0]
    BY <1>1, OpenIs
  <2>2. Piled(none, OpenSets(root)) /\ Len(none) = 0
    BY PiledNone
  <2> HIDE DEF none
  <2> QED BY <2>1, <2>2, PiledPush
<1>3. ASSUME NEW exact \in BOOLEAN, Good(exact, root)
      PROVE  Printed(exact, root, more, <<h>>)
  <2>1. Tamed(exact, root)
    BY <1>3, GoodIsTame
  <2>2. Printed(exact, root, W!OnLine(h.lvl, W!PrintOpen(h.tag)), <<h>>)
    BY <1>1, <2>1, PrintedFirst
  <2> QED BY <1>1, <2>2, Zenon
<1>4. <<h>> \o none = <<h>>
  OBVIOUS
<1> HIDE DEF none
<1>5. ASSUME NEW exact \in BOOLEAN, Good(exact, root)
      PROVE  Printed(exact, root, none \o more, <<h>> \o none)
  <2>1. Printed(exact, root, more, <<h>>)
    BY <1>3, <1>5
  <2>2. none \o more = more
    <3> HIDE DEF more
    <3>1. more \in Seq(Word)
      BY <2>1 DEF Printed
    <3> QED BY <3>1 DEF none
  <2> QED BY <1>4, <2>1, <2>2, Zenon
<1> QED BY <1>2, <1>5 DEF PageGoesOn, none, h

\* The next child is a tag.
LEMMA PageTag ==
  ASSUME NEW root \in TreeOf[Height], NEW text, NEW below, Piled(below, OpenSets(root)),
         NEW d \in Nat, Len(below) = d, NEW f, OpenTag(root, d, f), f.next <= Len(f.tag.body),
         PageGoesOn(root, text, <<f>> \o below),
         NEW node, node = f.tag.body[f.next], node.kind = "simple",
         NEW l, l = W!LevelOf(node, W!IncIndent(f.lvl))
  PROVE  PageGoesOn(root, text \o W!OnLine(l, W!PrintOpen(node)), <<Begun(node, l)>> \o (<<Bumped(f)>> \o below))
<1> DEFINE g == Bumped(f)
           mid == <<g>> \o below
           h == Begun(node, l)
           flow == Flat(f.lvl)
           s == <<f>> \o below
           e == d + 1
<1>0. flow \in BOOLEAN /\ e \in Nat
  BY DEF Flat
<1>1. OpenTag(root, d, g)
  BY OpenBump
<1> HIDE DEF g
<1>2. Piled(mid, OpenSets(root)) /\ Len(mid) = e
  <2>1. g \in OpenSets(root)[Len(below)]
    BY <1>1, OpenIs
  <2> QED BY <2>1, PiledPush
<1>3. /\ e < Height /\ node \in Nodes(root) /\ node \in TreeOf[Height - e]
      /\ W!IncIndent(f.lvl) = FLOW_STYLE \/ W!IncIndent(f.lvl) = RowLevel + 2 * e
      /\ Flat(W!IncIndent(f.lvl)) = flow
  BY LevelDown
<1>4. Flat(l) = InFlow(node, flow) /\ (l = FLOW_STYLE \/ l = RowLevel + 2 * e)
  <2> DEFINE i == W!IncIndent(f.lvl)
  <2> HIDE DEF i, flow, e
  <2>1. Flat(W!LevelOf(node, i)) = InFlow(node, Flat(i)) /\ (W!LevelOf(node, i) = FLOW_STYLE \/ W!LevelOf(node, i) = i)
    BY LevelOfTag
  <2>2. l = W!LevelOf(node, i) /\ Flat(i) = flow /\ (i = FLOW_STYLE \/ i = RowLevel + 2 * e)
    BY <1>3 DEF i
  <2>3. Flat(l) = InFlow(node, flow)
    BY <2>1, <2>2, Zenon
  <2>4. l = FLOW_STYLE \/ l = i
    BY <2>1, <2>2, ZenonT(30)
  <2> QED BY <2>2, <2>3, <2>4, ZenonT(30)
<1> HIDE DEF e
<1>5. OpenTag(root, e, h) /\ h.tag = node /\ h.lvl = l /\ h.next = 1
  BY <1>0, <1>3, <1>4, BegunIsOpen
<1> HIDE DEF h
<1>6. Piled(<<h>> \o mid, OpenSets(root))
  <2>1. h \in OpenSets(root)[Len(mid)]
    BY <1>0, <1>2, <1>5, OpenIs
  <2> HIDE DEF mid
  <2> QED BY <1>2, <2>1, PiledPush
<1>7. ASSUME NEW exact \in BOOLEAN, Good(exact, root)
      PROVE  Printed(exact, root, text \o W!OnLine(l, W!PrintOpen(node)), <<h>> \o mid)
  <2>1. Tamed(exact, root)
    BY <1>7, GoodIsTame
  <2>2. Printed(exact, root, text, s)
    BY <1>7 DEF PageGoesOn
  <2>3. LeftFirst(root, s, LookIn(root, f.tag.body[f.next], Flat(f.lvl)), <<Bumped(f)>> \o below)
    BY <2>1, RemainingNext
  <2>4. LeftFirst(root, s, LookIn(root, h.tag, flow), mid)
    BY <1>5, <2>3, Zenon DEF g
  <2>5. Flat(h.lvl) = InFlow(h.tag, flow)
    BY <1>4, <1>5, ZenonT(30)
  <2> HIDE DEF mid, s, flow
  <2>6. Printed(exact, root, text \o W!OnLine(h.lvl, W!PrintOpen(h.tag)), <<h>> \o mid)
    BY <1>0, <1>2, <1>5, <2>1, <2>2, <2>4, <2>5, PrintedTag
  <2> QED BY <1>5, <2>6, Zenon
<1> QED BY <1>6, <1>7, Zenon DEF PageGoesOn, mid, h, g

\* The next child has no children.
LEMMA PageLeaf ==
  ASSUME NEW root \in TreeOf[Height], NEW text, NEW below, Piled(below, OpenSets(root)),
         NEW d \in Nat, Len(below) = d, NEW f, OpenTag(root, d, f), f.next <= Len(f.tag.body),
         PageGoesOn(root, text, <<f>> \o below),
         NEW node, node = f.tag.body[f.next], node.kind # "simple"
  PROVE  PageGoesOn(root, text \o W!Leaf(node, W!IncIndent(f.lvl)), <<Bumped(f)>> \o below)
<1> DEFINE g == Bumped(f)
           mid == <<g>> \o below
           s == <<f>> \o below
           i == W!IncIndent(f.lvl)
<1>1. OpenTag(root, d, g)
  BY OpenBump
<1> HIDE DEF g
<1>2. Piled(mid, OpenSets(root))
  <2>1. g \in OpenSets(root)[Len(below)]
    BY <1>1, OpenIs
  <2> QED BY <2>1, PiledPush
<1>3. node \in Nodes(root) /\ IsLevel(i) /\ Flat(i) = Flat(f.lvl)
  BY LevelDown
<1>4. ASSUME NEW exact \in BOOLEAN, Good(exact, root)
      PROVE  Printed(exact, root, text \o W!Leaf(node, i), mid)
  <2>1. Tamed(exact, root)
    BY <1>4, GoodIsTame
  <2>2. Printed(exact, root, text, s)
    BY <1>4 DEF PageGoesOn
  <2>3. LeftFirst(root, s, LookIn(root, f.tag.body[f.next], Flat(f.lvl)), <<Bumped(f)>> \o below)
    BY <2>1, RemainingNext
  <2>4. LeftFirst(root, s, LookIn(root, node, Flat(i)), mid)
    BY <1>3, <2>3, Zenon DEF g
  <2> HIDE DEF mid, s, i
  <2> QED BY <1>2, <1>3, <2>1, <2>2, <2>4, PrintedLeaf
<1> QED BY <1>2, <1>4, Zenon DEF PageGoesOn, mid, g, i

\* The tag on the top has no more children.
LEMMA PageClose ==
  ASSUME NEW root \in TreeOf[Height], NEW text, NEW below, Piled(below, OpenSets(root)),
         NEW d \in Nat, Len(below) = d, NEW f, OpenTag(root, d, f), f.next > Len(f.tag.body),
         PageGoesOn(root, text, <<f>> \o below)
  PROVE  PageGoesOn(root, text \o W!OnLine(f.lvl, W!PrintClose(f.tag)), below)
<1>1. ASSUME NEW exact \in BOOLEAN, Good(exact, root)
      PROVE  Printed(exact, root, text \o W!OnLine(f.lvl, W!PrintClose(f.tag)), below)
  <2>1. Tamed(exact, root)
    BY <1>1, GoodIsTame
  <2>2. Printed(exact, root, text, <<f>> \o below)
    BY <1>1 DEF PageGoesOn
  <2> QED BY <2>1, <2>2, PrintedClose
<1> QED BY <1>1 DEF PageGoesOn

-----------------------------------------------------------------------------
\* When a tree is complete it is printed.
WriterInv ==
  /\ writer \in {"ready", "printing", "done", "aborted"}
  /\ writer # "ready" => renderer = "done" \/ job.kind = "tree"
  /\ writer = "ready" => out = <<>>
  /\ writer \in {"printing", "done"} => PageGoesOn(html, out, stack)
  /\ writer = "done" => stack = <<>>

\* In the beginning nothing is printed.
LEMMA WriterInit == Init => WriterInv
BY DEF Init, W!Init, WriterInv

\* What is on the top of the tags that are open, and what is below.
LEMMA WriterTop ==
  ASSUME RowInv, WriterInv, writer = "printing", stack # <<>>
  PROVE  /\ Len(W!Rest) \in Nat /\ Piled(W!Rest, OpenSets(html)) /\ OpenTag(html, Len(W!Rest), W!Top)
         /\ PageGoesOn(html, out, <<W!Top>> \o W!Rest)
<1> DEFINE root == html
           ok == OpenSets(root)
           s == stack
           n == Len(s)
           rest == Tail(s)
           U == UNION {ok[d] : d \in Nat}
<1>1. root \in TreeOf[Height] /\ PageGoesOn(root, out, s) /\ Piled(s, ok)
  BY DEF RowInv, WriterInv, PageGoesOn
<1>2. W!Rest = rest /\ W!Top = s[1]
  <2>1. s \in Seq(U)
    BY <1>1 DEF Piled
  <2> HIDE DEF U
  <2>2. SubSeq(s, 2, Len(s)) = Tail(s)
    BY <2>1, RestIsTail
  <2> QED BY <2>2 DEF W!Rest, W!Top
<1> HIDE DEF ok
<1>3. n \in Nat \ {0} /\ s[1] \in ok[n - 1] /\ Piled(rest, ok) /\ Len(rest) = n - 1 /\ s = <<s[1]>> \o rest
  BY <1>1, PiledTop
<1>4. Len(rest) \in Nat /\ s[1] \in ok[Len(rest)]
  BY <1>3
<1> DEFINE top == s[1]
<1>5. PageGoesOn(root, out, <<top>> \o rest)
  <2>1. s = <<top>> \o rest
    BY <1>3
  <2> HIDE DEF top, rest
  <2> QED BY <1>1, <2>1, Zenon
<1>6. OpenTag(root, Len(rest), top)
  <2> HIDE DEF rest, root
  <2> QED BY <1>1, <1>4, OpenIs DEF ok
<1> QED BY <1>2, <1>3, <1>4, <1>5, <1>6, SMTT(30) DEF ok

\* A row is made before anything is printed.
LEMMA WriterRow ==
  ASSUME RowInv, WriterInv, R!Next, UNCHANGED <<stack, out, writer>>
  PROVE  WriterInv'
<1>1. job.kind = "tree" => renderer = "ready"
  BY DEF RowInv
<1>2. (renderer = "ready" /\ job.kind # "tree") \/ renderer = "rendering"
  BY DEF R!Next, R!Start, R!AddNode, R!VisitScev, R!RenderMetadata, R!Enter, R!Overflow, R!Leave, R!Finish,
         R!AtItem
<1>3. writer = "ready"
  BY <1>1, <1>2 DEF WriterInv
<1> QED BY <1>3 DEF WriterInv

\* The first tag is opened.
LEMMA WriterStart ==
  ASSUME RowInv, WriterInv, renderer = "done" \/ job.kind = "tree", W!Start(RowLevel),
         UNCHANGED <<job, frames, renderer>>
  PROVE  WriterInv'
<1> DEFINE root == html
           l == W!LevelOf(root, RowLevel)
<1>1. root \in TreeOf[Height] /\ root.kind = "simple" /\ out = <<>>
  BY DEF RowInv, WriterInv, W!Start
<1>2. /\ stack' = <<Begun(root, l)>> \o <<>> /\ out' = out \o W!OnLine(l, W!PrintOpen(root))
      /\ html' = root /\ writer' = "printing"
  BY Zenon DEF W!Start, W!Enter, Begun
<1> DEFINE s == <<Begun(root, l)>> \o <<>>
           text == <<>> \o W!OnLine(l, W!PrintOpen(root))
<1>3. PageGoesOn(root, text, s)
  <2> HIDE DEF root, l
  <2>1. l = W!LevelOf(root, RowLevel)
    BY DEF l
  <2> QED BY <1>1, <2>1, PageFirst
<1>4. stack' = s /\ out' = text
  BY <1>1, <1>2, Zenon
<1> HIDE DEF s, text
<1>5. PageGoesOn(html', out', stack')
  BY <1>2, <1>3, <1>4, Zenon
<1> QED BY <1>2, <1>5 DEF WriterInv, PageGoesOn

\* A tag is opened in another.
LEMMA WriterTag ==
  ASSUME RowInv, WriterInv, W!PrintTag, UNCHANGED <<job, frames, renderer>>
  PROVE  WriterInv'
<1> DEFINE root == html
           text == out
           top == W!Top
           below == W!Rest
           d == Len(below)
           node == W!Node
           l == W!LevelOf(node, W!IncIndent(top.lvl))
<1>1. writer = "printing" /\ stack # <<>> /\ top.next <= Len(top.tag.body) /\ node.kind = "simple"
  BY DEF W!PrintTag, W!AtNode
<1>2. node = top.tag.body[top.next]
  BY Zenon DEF W!Node
<1>3. /\ stack' = <<Begun(node, l)>> \o (<<Bumped(top)>> \o below)
      /\ out' = text \o W!OnLine(l, W!PrintOpen(node)) /\ html' = root /\ writer' = writer
  BY Zenon DEF W!PrintTag, W!Enter, Begun, Bumped, W!Bump
<1>4. root \in TreeOf[Height]
  BY DEF RowInv
<1>5. /\ d \in Nat /\ Piled(below, OpenSets(root)) /\ OpenTag(root, d, top)
      /\ PageGoesOn(root, text, <<top>> \o below)
  BY <1>1, WriterTop
<1> DEFINE s == <<Begun(node, l)>> \o (<<Bumped(top)>> \o below)
           more == text \o W!OnLine(l, W!PrintOpen(node))
<1>6. PageGoesOn(root, more, s)
  <2>1. l = W!LevelOf(node, W!IncIndent(top.lvl)) /\ Len(below) = d
    OBVIOUS
  <2> HIDE DEF root, text, top, node, l, d, below
  <2> QED BY <1>1, <1>2, <1>4, <1>5, <2>1, PageTag, SMTT(30)
<1>7. stack' = s /\ out' = more
  BY <1>3, Zenon
<1> HIDE DEF s, more
<1>8. PageGoesOn(html', out', stack')
  BY <1>3, <1>6, <1>7, Zenon
<1> QED BY <1>1, <1>3, <1>8 DEF WriterInv, PageGoesOn

\* A node without children is printed.
LEMMA WriterLeaf ==
  ASSUME RowInv, WriterInv, W!PrintLeaf, UNCHANGED <<job, frames, renderer>>
  PROVE  WriterInv'
<1> DEFINE root == html
           text == out
           top == W!Top
           below == W!Rest
           d == Len(below)
           node == W!Node
<1>1. writer = "printing" /\ stack # <<>> /\ top.next <= Len(top.tag.body) /\ node.kind # "simple"
  BY DEF W!PrintLeaf, W!AtNode
<1>2. node = top.tag.body[top.next]
  BY Zenon DEF W!Node
<1>3. /\ stack' = <<Bumped(top)>> \o below
      /\ out' = text \o W!Leaf(node, W!IncIndent(top.lvl)) /\ html' = root /\ writer' = writer
  BY Zenon DEF W!PrintLeaf, Bumped, W!Bump
<1>4. root \in TreeOf[Height]
  BY DEF RowInv
<1>5. /\ d \in Nat /\ Piled(below, OpenSets(root)) /\ OpenTag(root, d, top)
      /\ PageGoesOn(root, text, <<top>> \o below)
  BY <1>1, WriterTop
<1> DEFINE s == <<Bumped(top)>> \o below
           more == text \o W!Leaf(node, W!IncIndent(top.lvl))
<1>6. PageGoesOn(root, more, s)
  <2>1. Len(below) = d
    OBVIOUS
  <2> HIDE DEF root, text, top, node, d, below
  <2> QED BY <1>1, <1>2, <1>4, <1>5, <2>1, PageLeaf
<1>7. stack' = s /\ out' = more
  BY <1>3, Zenon
<1> HIDE DEF s, more
<1>8. PageGoesOn(html', out', stack')
  BY <1>3, <1>6, <1>7, Zenon
<1> QED BY <1>1, <1>3, <1>8 DEF WriterInv, PageGoesOn

\* A tag is closed.
LEMMA WriterClose ==
  ASSUME RowInv, WriterInv, W!CloseTag, UNCHANGED <<job, frames, renderer>>
  PROVE  WriterInv'
<1> DEFINE root == html
           text == out
           top == W!Top
           below == W!Rest
           d == Len(below)
           more == text \o W!OnLine(top.lvl, W!PrintClose(top.tag))
<1>1. writer = "printing" /\ stack # <<>> /\ top.next > Len(top.tag.body)
  BY DEF W!CloseTag
<1>2. /\ stack' = below /\ out' = more /\ html' = root
      /\ writer' = IF below = <<>> THEN "done" ELSE "printing"
  BY Zenon DEF W!CloseTag
<1>3. root \in TreeOf[Height]
  BY DEF RowInv
<1>4. /\ d \in Nat /\ Piled(below, OpenSets(root)) /\ OpenTag(root, d, top)
      /\ PageGoesOn(root, text, <<top>> \o below)
  BY <1>1, WriterTop
<1>5. PageGoesOn(root, more, below)
  <2>1. Len(below) = d
    OBVIOUS
  <2> HIDE DEF root, text, top, d, below
  <2> QED BY <1>1, <1>3, <1>4, <2>1, PageClose
<1> HIDE DEF more, below
<1>6. PageGoesOn(html', out', stack')
  BY <1>2, <1>5, Zenon
<1>7. writer' \in {"printing", "done"} /\ (writer' = "done" => stack' = <<>>)
  BY <1>2
<1>8. renderer = "done" \/ job.kind = "tree"
  BY <1>1 DEF WriterInv
<1> QED BY <1>6, <1>7, <1>8, SMTT(30) DEF WriterInv, PageGoesOn

\* Nothing more is printed after the assert.
LEMMA WriterFails ==
  ASSUME RowInv, WriterInv, W!AssertFails, UNCHANGED <<job, frames, renderer>>
  PROVE  WriterInv'
<1>1. writer = "printing" /\ writer' = "aborted"
  BY DEF W!AssertFails, W!AtNode
<1> QED BY <1>1 DEF WriterInv

\* Every step.
LEMMA WriterStep == ASSUME RowInv, WriterInv, [Next]_vars PROVE RowInv' /\ WriterInv'
<1>1. CASE Render
  <2>1. R!Next /\ UNCHANGED <<stack, out, writer>>
    BY <1>1 DEF Render
  <2> QED BY <2>1, RowStep, WriterRow
<1>2. CASE WriteRow
  <2>1. UNCHANGED <<job, frames, renderer>>
    BY <1>2, SMTT(30) DEF WriteRow
  <2>2. UNCHANGED html
    BY <1>2 DEF WriteRow, W!Start, W!Enter, W!Next, W!PrintTag, W!PrintLeaf, W!AssertFails, W!CloseTag
  <2>3. RowInv'
    BY <2>1, <2>2, RowSame
  <2>4. CASE (renderer = "done" \/ job.kind = "tree") /\ W!Start(RowLevel)
    BY <2>1, <2>3, <2>4, WriterStart
  <2>5. CASE W!Next
    BY <2>1, <2>3, <2>5, WriterTag, WriterLeaf, WriterFails, WriterClose DEF W!Next
  <2> QED BY <1>2, <2>4, <2>5 DEF WriteRow
<1>3. CASE Browse \/ UNCHANGED vars
  <2>1. UNCHANGED <<job, frames, html, renderer, stack, out, writer>>
    BY <1>3 DEF Browse, vars
  <2>2. RowInv'
    BY <2>1, RowSame
  <2>3. WriterInv'
    BY <2>1 DEF WriterInv, PageGoesOn
  <2> QED BY <2>2, <2>3
<1> QED BY <1>1, <1>2, <1>3 DEF Next

-----------------------------------------------------------------------------
(* The browser, when the page is complete.                                 *)

\* The browser is opened when the page is complete, and reads it from the start.
BrowserInv ==
  /\ pos \in Nat
  /\ writer # "done" => pos = 0
  /\ \E g : /\ g[0] = EmptyPage
            /\ g[pos] = browser
            /\ \A k \in 1 .. pos : g[k] = Token(g[k - 1], out[k])

\* In the beginning the browser has read nothing.
LEMMA BrowserInit == Init => BrowserInv
<1> SUFFICES ASSUME Init
             PROVE  BrowserInv
  OBVIOUS
<1> DEFINE g == [k \in {0} |-> EmptyPage]
<1>1. pos = 0 /\ browser = EmptyPage
  BY DEF Init
<1>2. g[0] = EmptyPage
  OBVIOUS
<1> HIDE DEF g
<1>3. g[pos] = browser /\ \A k \in 1 .. pos : g[k] = Token(g[k - 1], out[k])
  BY <1>1, <1>2
<1> QED BY <1>1, <1>2, <1>3 DEF BrowserInv

\* One token more is read.
LEMMA BrowserReads == ASSUME BrowserInv, Browse PROVE BrowserInv'
<1> DEFINE n == pos
           b == Token(browser, out[n + 1])
<1>1. n \in Nat /\ pos' = n + 1 /\ browser' = b /\ out' = out /\ writer' = "done"
  BY DEF BrowserInv, Browse
<1>2. PICK g : g[0] = EmptyPage /\ g[n] = browser /\ \A k \in 1 .. n : g[k] = Token(g[k - 1], out[k])
  BY DEF BrowserInv
<1> HIDE DEF n
<1> DEFINE h == [k \in 0 .. n + 1 |-> IF k <= n THEN g[k] ELSE b]
<1> HIDE DEF b
<1>3. h[0] = g[0] /\ h[n] = g[n] /\ h[n + 1] = b /\ \A k \in 1 .. n : h[k] = g[k] /\ h[k - 1] = g[k - 1]
  BY <1>1
<1>4. (n + 1) - 1 = n
  BY <1>1
<1> HIDE DEF h
<1>5. ASSUME NEW k \in 1 .. n + 1
      PROVE  h[k] = Token(h[k - 1], out[k])
  <2>1. CASE k = n + 1
    <3>1. h[k - 1] = browser /\ h[k] = b
      BY <1>2, <1>3, <1>4, <2>1
    <3> QED BY <2>1, <3>1, Zenon DEF b, n
  <2>2. CASE k # n + 1
    <3>1. k \in 1 .. n
      BY <1>1, <2>2
    <3>2. h[k] = g[k] /\ h[k - 1] = g[k - 1] /\ g[k] = Token(g[k - 1], out[k])
      BY <1>2, <1>3, <3>1
    <3> QED BY <3>2, Zenon
  <2> QED BY <2>1, <2>2
<1>6. h[0] = EmptyPage
  BY <1>2, <1>3
<1>7. n + 1 \in Nat
  BY <1>1
<1> QED BY <1>1, <1>3, <1>5, <1>6, <1>7, SMTT(30) DEF BrowserInv

\* Every step.
LEMMA BrowserStep == ASSUME BrowserInv, [Next]_vars PROVE BrowserInv'
<1>1. CASE Browse
  BY <1>1, BrowserReads
<1>2. CASE Render \/ UNCHANGED vars
  <2>1. UNCHANGED <<out, writer, browser, pos>>
    BY <1>2 DEF Render, vars
  <2> QED BY <2>1 DEF BrowserInv
<1>3. CASE WriteRow
  <2>1. UNCHANGED <<browser, pos>> /\ writer # "done"
    BY <1>3 DEF WriteRow, W!Start, W!Next, W!PrintTag, W!PrintLeaf, W!AssertFails, W!CloseTag, W!AtNode
  <2>2. pos = 0
    BY <2>1 DEF BrowserInv
  <2>3. PICK g : g[0] = EmptyPage /\ g[pos] = browser
    BY DEF BrowserInv
  <2>4. pos' = 0 /\ browser' = browser
    BY <2>1, <2>2
  <2>5. g[pos'] = browser' /\ \A k \in 1 .. pos' : g[k] = Token(g[k - 1], out'[k])
    BY <2>2, <2>3, <2>4
  <2> QED BY <2>3, <2>4, <2>5 DEF BrowserInv
<1> QED BY <1>1, <1>2, <1>3 DEF Next

\* What is seen is never nothing but blanks.
LEMMA CollapsedKeeps ==
  ASSUME NEW e \in Seq(Event), NEW i \in 1 .. Len(e), e[i] # BlankEvent
  PROVE  Collapsed(e) \in Seq(Event) /\ \E j \in 1 .. Len(Collapsed(e)) : Collapsed(e)[j] # BlankEvent
<1> DEFINE x == e[i]
           n == Len(e)
           c == Collapsed(e)
           s == [k \in DOMAIN e |-> IF k # 1 /\ e[k] = <<"blank">> /\ e[k - 1] = <<"blank">> THEN <<>> ELSE <<e[k]>>]
<1>1. n \in Nat /\ DOMAIN e = 1 .. n /\ \A k \in 1 .. n : e[k] \in Event
  OBVIOUS
<1>2. s \in [1 .. n -> Seq(Event)]
  <2>1. ASSUME NEW k \in 1 .. n
        PROVE  s[k] \in Seq(Event)
    <3> DEFINE y == e[k]
    <3>1. y \in Event /\ (s[k] = <<>> \/ s[k] = <<y>>)
      BY <1>1
    <3> DEFINE z == s[k]
    <3>2. <<>> \in Seq(Event)
      OBVIOUS
    <3> HIDE DEF y, s, z
    <3>3. <<y>> \in Seq(Event)
      BY <3>1
    <3>4. z = <<>> \/ z = <<y>>
      BY <3>1 DEF z
    <3>5. z \in Seq(Event)
      BY <3>2, <3>3, <3>4, Zenon
    <3> QED BY <3>5 DEF z
  <2> QED BY <1>1, <2>1
<1>3. s \in Seq(Seq(Event)) /\ Len(s) = n
  <2> HIDE DEF s
  <2>1. s \in Seq(Seq(Event))
    BY <1>1, <1>2, FunctionIsSeq
  <2> QED BY <1>1, <1>2, <2>1
<1>4. c = FlattenSeq(s)
  BY Zenon DEF Collapsed
<1>5. s[i] = <<x>>
  BY <1>1 DEF BlankEvent
<1>6. x \in Range(s[i])
  <2> HIDE DEF s, x
  <2>1. <<x>>[1] = x /\ 1 \in DOMAIN <<x>>
    OBVIOUS
  <2> QED BY <1>5, <2>1 DEF Range
<1> HIDE DEF s, x
<1>7. x \in Range(FlattenSeq(s))
  BY <1>3, <1>6, FlattenRange
<1>8. c \in Seq(Event)
  BY <1>3, <1>4, FlattenType
<1>9. PICK j \in DOMAIN c : c[j] = x
  BY <1>4, <1>7 DEF Range
<1> HIDE DEF c
<1>10. j \in 1 .. Len(c)
  BY <1>8, <1>9
<1>11. c[j] # BlankEvent
  BY <1>9 DEF x
<1> QED BY <1>8, <1>10, <1>11 DEF c

\* If they are alike but for the attributes, they are still alike on the page.
LEMMA AlikeOnPage ==
  ASSUME NEW d \in Seq(Event), NEW e \in Seq(Event), NoAttrs(d) = NoAttrs(e),
         NEW i \in 1 .. Len(e), e[i] # BlankEvent
  PROVE  NoAttrs(Trim(Collapsed(d))) = NoAttrs(Trim(Collapsed(e)))
<1>1. Len(d) = Len(e) /\ NoAttr(d[i]) = NoAttr(e[i]) /\ i \in 1 .. Len(d)
  <2>1. Len(NoAttrs(d)) = Len(d) /\ Len(NoAttrs(e)) = Len(e)
    BY NoAttrsIs
  <2>2. Len(d) = Len(e)
    BY <2>1
  <2>3. NoAttrs(d)[i] = NoAttr(d[i]) /\ NoAttrs(e)[i] = NoAttr(e[i])
    BY <2>2, NoAttrsIs
  <2> QED BY <2>2, <2>3
<1>2. d[i] # BlankEvent
  <2>1. d[i] \in Event /\ e[i] \in Event
    BY <1>1, ElementOfSeq
  <2>2. NoAttr(d[i]) = BlankEvent <=> d[i] = BlankEvent
    BY <2>1, NoAttrType
  <2>3. NoAttr(e[i]) = BlankEvent <=> e[i] = BlankEvent
    BY <2>1, NoAttrType
  <2> QED BY <1>1, <2>2, <2>3
<1>3. \A s \in Seq(Event) : \A k \in 1 .. Len(s) : s[k] # BlankEvent =>
        NoAttrs(Trim(Collapsed(s))) = Trim(Collapsed(NoAttrs(s)))
  <2> SUFFICES ASSUME NEW s \in Seq(Event), NEW k \in 1 .. Len(s), s[k] # BlankEvent
               PROVE  NoAttrs(Trim(Collapsed(s))) = Trim(Collapsed(NoAttrs(s)))
    OBVIOUS
  <2> DEFINE c == Collapsed(s)
  <2>1. c \in Seq(Event) /\ \E j \in 1 .. Len(c) : c[j] # BlankEvent
    BY CollapsedKeeps
  <2>2. NoAttrs(c) = Collapsed(NoAttrs(s))
    BY NoAttrsCollapsed
  <2> HIDE DEF c
  <2>3. NoAttrs(Trim(c)) = Trim(NoAttrs(c))
    BY <2>1, NoAttrsTrim
  <2> QED BY <2>2, <2>3, Zenon DEF c
<1>4. NoAttrs(Trim(Collapsed(d))) = Trim(Collapsed(NoAttrs(d)))
  BY <1>1, <1>2, <1>3
<1>5. NoAttrs(Trim(Collapsed(e))) = Trim(Collapsed(NoAttrs(e)))
  BY <1>3
<1> QED BY <1>4, <1>5, Zenon

\* A tag can be seen.
LEMMA LookNotBlank ==
  ASSUME NEW exact, NEW root \in TreeOf[Height], root.kind = "simple", Tamed(exact, root)
  PROVE  LookIn(root, root, FALSE) \in Seq(Event)
         /\ \E i \in 1 .. Len(LookIn(root, root, FALSE)) : LookIn(root, root, FALSE)[i] # BlankEvent
<1> DEFINE no == FALSE
           look == LookIn(root, root, no)
           x == Opening(root)
           l == W!LevelOf(root, RowLevel)
           h == Begun(root, l)
           open == Line(<<x>>, Flat(l))
           left == Left(root, h)
<1>0. root \in Nodes(root) /\ no \in BOOLEAN /\ 0 \in Nat
  BY NodesOfTree
<1>1. OpenTag(root, 0, h) /\ h.tag = root /\ h.lvl = l /\ h.next = 1 /\ Flat(l) = InFlow(root, no)
  BY RootOpens
<1> HIDE DEF h
<1>2. look = open \o left
  <2> HIDE DEF no, l
  <2>1. LookIn(root, h.tag, no) = Line(<<Opening(h.tag)>>, Flat(h.lvl)) \o Left(root, h)
    BY <1>0, <1>1, LookOpens
  <2> QED BY <1>1, <2>1, Zenon
<1>3. open \in Seq(Event) /\ left \in Seq(Event)
  <2>1. Line(<<Opening(h.tag)>>, Flat(h.lvl)) \in Seq(Event) /\ Left(root, h) \in Seq(Event)
    BY <1>0, <1>1, CloseType, LeftType
  <2> QED BY <1>1, <2>1, Zenon
<1>4. x # BlankEvent
  <2> DEFINE a == ShownAttrs(root)
             t == root.tag
  <2>1. x = <<"open", t, a>>
    BY Zenon DEF Opening
  <2> HIDE DEF x, t, a
  <2> QED BY <2>1 DEF BlankEvent
<1>5. \E j \in 1 .. Len(open) : open[j] = x
  <2> HIDE DEF x, l
  <2>1. CASE Flat(l)
    <3>1. open = <<x>>
      BY <2>1 DEF Line
    <3> HIDE DEF open
    <3> QED BY <3>1
  <2>2. CASE ~ Flat(l)
    <3>1. open = <<<<"blank">>>> \o <<x>> \o <<<<"blank">>>>
      BY <2>2 DEF Line
    <3> DEFINE b == <<"blank">>
    <3> HIDE DEF open, b
    <3> DEFINE p == <<b>>
               q == <<x>>
               U == {b, x}
    <3>2. p \in Seq(U) /\ q \in Seq(U) /\ Len(p) = 1 /\ Len(q) = 1 /\ q[1] = x
      OBVIOUS
    <3>3. open = (p \o q) \o p
      BY <3>1, Zenon DEF b
    <3> HIDE DEF p, q, U
    <3>4. p \o q \in Seq(U) /\ Len(p \o q) = 2 /\ (p \o q)[2] = x
      <4>1. p \o q \in Seq(U) /\ Len(p \o q) = Len(p) + Len(q)
        BY <3>2, ConcatProperties
      <4>2. (p \o q)[2] = q[2 - Len(p)]
        BY <3>2, <4>1
      <4>3. 2 - Len(p) = 1
        BY <3>2
      <4> QED BY <3>2, <4>1, <4>2, <4>3
    <3>5. Len(open) = 3 /\ open[2] = x
      BY <3>2, <3>3, <3>4
    <3> QED BY <3>5
  <2> QED BY <2>1, <2>2
<1> HIDE DEF open, left, look, x
<1>6. PICK j \in 1 .. Len(open) : open[j] = x
  BY <1>5
<1>7. look \in Seq(Event) /\ j \in 1 .. Len(look) /\ look[j] = x
  BY <1>2, <1>3, <1>6
<1> QED BY <1>4, <1>7 DEF look

-----------------------------------------------------------------------------
\* When the page is complete and has been read, the browser shows the tree.
LEMMA EndReadsBack == ASSUME RowInv, WriterInv, BrowserInv PROVE PageReadsBack
<1> SUFFICES ASSUME Shown
             PROVE  LET seen == Trim(browser.seen)
                        look == Trim(Collapsed(Look(html, FALSE)))
                    IN /\ (\A v \in Values(html) : Plain(v)) => seen = look
                       /\ (\A v \in Values(html) : Harmless(v)) => NoAttrs(seen) = NoAttrs(look)
  BY DEF PageReadsBack
<1> DEFINE root == html
           text == out
           look == LookIn(root, root, FALSE)
           start == TextPage("data", "", Collapsed(<<>>))
<1>1. root \in TreeOf[Height] /\ root.kind = "simple" /\ PageGoesOn(root, text, <<>>)
  BY DEF RowInv, WriterInv, Shown
<1>2. ReadsTo(EmptyPage, text, browser)
  <2>1. pos = Len(text)
    BY DEF Shown
  <2>2. PICK g : g[0] = EmptyPage /\ g[pos] = browser /\ \A k \in 1 .. pos : g[k] = Token(g[k - 1], out[k])
    BY DEF BrowserInv
  <2>3. Along(g, EmptyPage, text, browser)
    BY <2>1, <2>2, Zenon DEF Along
  <2> QED BY <2>3 DEF ReadsTo
<1>3. EmptyPage = start
  BY CollapsedNothing DEF EmptyPage, TextPage, DataPage, Page
<1>4. Look(root, FALSE) = look
  BY Zenon DEF Look, LookIn
<1> HIDE DEF root, text, look, start
<1>5. ASSUME NEW exact \in BOOLEAN, Good(exact, root)
      PROVE  \E d \in Seq(Event) : browser.seen = Collapsed(d) /\ Alike(exact, d, look)
  <2>1. Printed(exact, root, text, <<>>)
    BY <1>1, <1>5, SMTT(30) DEF PageGoesOn
  <2>2. text \in Seq(Word)
    BY <2>1 DEF Printed
  <2>3. PICK e \in Seq(Event) : Shows(exact, "data", text, e, "data") /\ e \o Remaining(root, <<>>) = LookIn(root, root, FALSE)
    BY <2>1 DEF Printed
  <2>4. e = look
    <3>1. e \o <<>> = e
      OBVIOUS
    <3>2. Remaining(root, <<>>) = <<>>
      BY RemainingNone
    <3> QED BY <2>3, <3>1, <3>2, Zenon DEF look
  <2>5. Shows(exact, "data", text, look, "data")
    BY <2>3, <2>4, Zenon
  <2> DEFINE none == <<>>
  <2>6. none \in Seq(Event)
    OBVIOUS
  <2> HIDE DEF none
  <2>7. PICK u : \E d \in Seq(Event) :
          /\ ReadsTo(TextPage("data", "", Collapsed(none)), text, TextPage("data", u, Collapsed(none \o d)))
          /\ Alike(exact, d, look)
    BY <2>5, <2>6, Zenon DEF Shows
  <2>8. PICK d \in Seq(Event) :
          /\ ReadsTo(TextPage("data", "", Collapsed(none)), text, TextPage("data", u, Collapsed(none \o d)))
          /\ Alike(exact, d, look)
    BY <2>7
  <2>9. none \o d = d
    BY DEF none
  <2>10. TextPage("data", "", Collapsed(none)) = EmptyPage
    BY <1>3, Zenon DEF none, start
  <2> DEFINE last == TextPage("data", u, Collapsed(d))
  <2>11. ReadsTo(EmptyPage, text, last)
    BY <2>8, <2>9, <2>10, Zenon
  <2>12. last.seen = Collapsed(d)
    BY DEF TextPage, DataPage, Page
  <2> HIDE DEF last
  <2>13. browser = last
    BY <1>2, <2>2, <2>11, ReadsSame
  <2> QED BY <2>8, <2>12, <2>13, ZenonT(30)
<1>6. ASSUME \A v \in Values(root) : Plain(v)
      PROVE  Trim(browser.seen) = Trim(Collapsed(look))
  <2> DEFINE yes == TRUE
  <2>1. Good(yes, root) /\ yes \in BOOLEAN
    BY <1>6 DEF Good
  <2>2. PICK d \in Seq(Event) : browser.seen = Collapsed(d) /\ Alike(yes, d, look)
    <3> HIDE DEF yes
    <3> QED BY <1>5, <2>1
  <2>3. d = look
    BY <2>2 DEF Alike
  <2> QED BY <2>2, <2>3, Zenon
<1>7. ASSUME \A v \in Values(root) : Harmless(v)
      PROVE  NoAttrs(Trim(browser.seen)) = NoAttrs(Trim(Collapsed(look)))
  <2> DEFINE no == FALSE
  <2>1. Good(no, root) /\ no \in BOOLEAN
    BY <1>7 DEF Good
  <2>2. PICK d \in Seq(Event) : browser.seen = Collapsed(d) /\ Alike(no, d, look)
    <3> HIDE DEF no
    <3> QED BY <1>5, <2>1
  <2>3. NoAttrs(d) = NoAttrs(look)
    BY <2>2 DEF Alike
  <2>4. Tamed(no, root)
    <3> HIDE DEF no
    <3> QED BY <1>1, <2>1, GoodIsTame
  <2>5. look \in Seq(Event) /\ \E i \in 1 .. Len(look) : look[i] # BlankEvent
    BY <1>1, <2>4, LookNotBlank DEF look
  <2>6. NoAttrs(Trim(Collapsed(d))) = NoAttrs(Trim(Collapsed(look)))
    BY <2>3, <2>5, AlikeOnPage
  <2> QED BY <2>2, <2>6, Zenon
<1> QED BY <1>4, <1>6, <1>7, Zenon DEF root

\* The invariant of rows, page and browser.
LEMMA PageInvariance == Spec => [](RowInv /\ WriterInv /\ BrowserInv)
<1>1. Init => RowInv /\ WriterInv /\ BrowserInv
  BY RowInit, WriterInit, BrowserInit
<1>2. RowInv /\ WriterInv /\ BrowserInv /\ [Next]_vars => RowInv' /\ WriterInv' /\ BrowserInv'
  BY WriterStep, BrowserStep
<1> QED BY <1>1, <1>2, PTL DEF Spec

\* What the renderers make of any row, with whatever scalar evolutions, metadata
\* and operands, is a tree the printer knows all nodes of, and no deeper than the
\* calls that made it.
THEOREM RowsAreTrees == Spec => [](html \in TreeOf[Height] /\ html.kind = "simple")
<1>1. RowInv => html \in TreeOf[Height] /\ html.kind = "simple"
  BY DEF RowInv
<1> QED BY <1>1, PageInvariance, PTL

\* Whatever tree is printed, with any words as its texts and values, the browser
\* shows that tree: _print and print_str lose, add and reorder nothing.
THEOREM PageAlwaysReadsBack == Spec => []PageReadsBack
<1>1. RowInv /\ WriterInv /\ BrowserInv => PageReadsBack
  BY EndReadsBack
<1> QED BY <1>1, PageInvariance, PTL

-----------------------------------------------------------------------------
(* Where the assert of print_str fails.                                    *)

\* A text with a character that isprint rejects.
Refusable(n) == n.kind = "string" /\ \E k \in DOMAIN n.txt : n.txt[k] \in Unprintable

\* The node is in a child that an open tag, or one of them, has still to print.
StillIn(f, n) == \E j \in f.next .. Len(f.tag.body) : n \in Nodes(f.tag.body[j])
Ahead(s, n)   == \E k \in 1 .. Len(s) : StillIn(s[k], n)

\* It is in one of the tag on the top, or further down.
LEMMA AheadPush ==
  ASSUME NEW S, NEW x, NEW s \in Seq(S), NEW n
  PROVE  /\ <<x>> \o s \in Seq(S \cup {x})
         /\ Ahead(<<x>> \o s, n) <=> (StillIn(x, n) \/ Ahead(s, n))
<1> DEFINE U == S \cup {x}
           t == <<x>> \o s
           m == Len(s)
<1>1. s \in Seq(U) /\ x \in U /\ m \in Nat
  OBVIOUS
<1> HIDE DEF U
<1>2. t \in Seq(U) /\ Len(t) = m + 1 /\ t[1] = x /\ \A k \in 1 .. m : t[k + 1] = s[k]
  BY <1>1, Prepended
<1> HIDE DEF t
<1>3. ASSUME Ahead(t, n)
      PROVE  StillIn(x, n) \/ Ahead(s, n)
  <2>1. PICK k \in 1 .. Len(t) : StillIn(t[k], n)
    BY <1>3 DEF Ahead
  <2>2. CASE k = 1
    BY <1>2, <2>1, <2>2
  <2>3. CASE k # 1
    <3>1. k - 1 \in 1 .. m /\ (k - 1) + 1 = k
      BY <1>1, <1>2, <2>1, <2>3
    <3>2. t[k] = s[k - 1]
      BY <1>2, <3>1
    <3> QED BY <2>1, <3>1, <3>2 DEF Ahead
  <2> QED BY <2>2, <2>3
<1>4. ASSUME StillIn(x, n)
      PROVE  Ahead(t, n)
  <2>1. 1 \in 1 .. Len(t)
    BY <1>1, <1>2
  <2> QED BY <1>2, <1>4, <2>1 DEF Ahead
<1>5. ASSUME Ahead(s, n)
      PROVE  Ahead(t, n)
  <2>1. PICK k \in 1 .. m : StillIn(s[k], n)
    BY <1>5 DEF Ahead
  <2>2. k + 1 \in 1 .. Len(t) /\ t[k + 1] = s[k]
    BY <1>1, <1>2, <2>1
  <2> QED BY <2>1, <2>2 DEF Ahead
<1>6. Ahead(t, n) <=> (StillIn(x, n) \/ Ahead(s, n))
  BY <1>3, <1>4, <1>5
<1> QED BY <1>2, <1>6 DEF t, U

\* A tag that was just opened has still to print all texts in it.
LEMMA BegunHas ==
  ASSUME NEW t \in TreeOf[Height], t.kind = "simple", NEW n \in Nodes(t), Refusable(n), NEW l
  PROVE  StillIn(Begun(t, l), n)
<1>1. n # t
  BY DEF Refusable
<1>2. \E j \in 1 .. Len(t.body) : n \in Nodes(t.body[j])
  BY <1>1, NodesUnfold
<1>3. Begun(t, l).tag = t /\ Begun(t, l).next = 1
  BY DEF Begun
<1> HIDE DEF Begun
<1> QED BY <1>2, <1>3, Zenon DEF StillIn

\* When a tag goes on to the next child, only what is in that child is gone.
LEMMA BumpedHas ==
  ASSUME NEW root \in TreeOf[Height], NEW d \in Nat, NEW f, OpenTag(root, d, f), f.next <= Len(f.tag.body),
         NEW n, StillIn(f, n), n \notin Nodes(f.tag.body[f.next])
  PROVE  StillIn(Bumped(f), n)
<1> DEFINE g == Bumped(f)
           m == Len(f.tag.body)
<1>1. g.tag = f.tag /\ g.next = f.next + 1
  BY OpenBump
<1>2. m \in Nat /\ f.next \in Nat
  BY OpenBody
<1>3. PICK j \in f.next .. m : n \in Nodes(f.tag.body[j])
  BY DEF StillIn
<1>4. j # f.next
  BY <1>3
<1>5. j \in f.next + 1 .. m
  BY <1>2, <1>3, <1>4
<1> HIDE DEF g
<1>6. StillIn(g, n)
  BY <1>1, <1>3, <1>5 DEF StillIn
<1> QED BY <1>6 DEF g

\* A leaf has no node but itself.
LEMMA LeafAlone ==
  ASSUME NEW t \in TreeOf[Height], t.kind # "simple", NEW n \in Nodes(t)
  PROVE  n = t
BY NodesUnfold

\* Every text with such a character is still to be printed; if the assert has
\* failed there is one.
TextInv ==
  /\ writer \in {"printing", "done"} => \A n \in Nodes(html) : Refusable(n) => Ahead(stack, n)
  /\ writer = "aborted" => \E n \in Nodes(html) : Refusable(n)

\* In the beginning nothing has failed.
LEMMA TextInit == Init => TextInv
BY DEF Init, W!Init, TextInv

\* The stack, its top and what is below.
LEMMA StackIs ==
  ASSUME RowInv, WriterInv, writer = "printing", stack # <<>>
  PROVE  /\ stack = <<W!Top>> \o W!Rest
         /\ W!Rest \in Seq(UNION {OpenSets(html)[d] : d \in Nat})
         /\ Len(W!Rest) \in Nat /\ OpenTag(html, Len(W!Rest), W!Top)
<1> DEFINE ok == OpenSets(html)
           s == stack
           rest == Tail(s)
           U == UNION {ok[d] : d \in Nat}
<1>1. Piled(s, ok)
  BY DEF WriterInv, PageGoesOn
<1>2. W!Rest = rest /\ W!Top = s[1]
  <2>1. s \in Seq(U)
    BY <1>1 DEF Piled
  <2> HIDE DEF U
  <2>2. SubSeq(s, 2, Len(s)) = Tail(s)
    BY <2>1, RestIsTail
  <2> QED BY <2>2 DEF W!Rest, W!Top
<1> HIDE DEF ok
<1>3. s = <<s[1]>> \o rest
  BY <1>1, PiledTop
<1>4. Piled(W!Rest, ok) /\ Len(W!Rest) \in Nat /\ OpenTag(html, Len(W!Rest), W!Top)
  BY WriterTop DEF ok
<1>5. W!Rest \in Seq(U)
  BY <1>4 DEF Piled
<1> QED BY <1>2, <1>3, <1>4, <1>5, Zenon DEF ok

\* The first tag is opened.
LEMMA TextStart ==
  ASSUME RowInv, W!Start(RowLevel)
  PROVE  TextInv'
<1> DEFINE root == html
           l == W!LevelOf(root, RowLevel)
           f == Begun(root, l)
           none == <<>>
           s == <<f>> \o none
<1>1. root \in TreeOf[Height] /\ root.kind = "simple"
  BY DEF RowInv
<1>2. stack' = s /\ html' = root /\ writer' = "printing"
  BY Zenon DEF W!Start, W!Enter, Begun
<1>3. ASSUME NEW n \in Nodes(root), Refusable(n)
      PROVE  Ahead(s, n)
  <2>1. none \in Seq({})
    OBVIOUS
  <2> HIDE DEF none, root, l
  <2>2. StillIn(f, n)
    BY <1>1, <1>3, BegunHas
  <2> HIDE DEF f
  <2> QED BY <2>1, <2>2, AheadPush
<1> HIDE DEF s, root
<1>4. \A n \in Nodes(html') : Refusable(n) => Ahead(stack', n)
  BY <1>2, <1>3, Zenon
<1> QED BY <1>2, <1>4 DEF TextInv

\* A tag is opened in another: its texts are ahead in itself.
LEMMA TextTag ==
  ASSUME RowInv, WriterInv, TextInv, W!PrintTag
  PROVE  TextInv'
<1> DEFINE root == html
           top == W!Top
           below == W!Rest
           d == Len(below)
           node == top.tag.body[top.next]
           f == Begun(node, W!LevelOf(node, W!IncIndent(top.lvl)))
           g == Bumped(top)
           s == <<f>> \o (<<g>> \o below)
           U == UNION {OpenSets(html)[k] : k \in Nat}
<1>1. writer = "printing" /\ stack # <<>> /\ top.next <= Len(top.tag.body) /\ node.kind = "simple"
  BY DEF W!PrintTag, W!AtNode, W!Node
<1>2. stack' = s /\ html' = root /\ writer' = "printing"
  BY <1>1, Zenon DEF W!PrintTag, W!Enter, W!Node, Begun, Bumped, W!Bump
<1>3. root \in TreeOf[Height]
  BY DEF RowInv
<1>4. stack = <<top>> \o below /\ below \in Seq(U) /\ d \in Nat /\ OpenTag(root, d, top)
  BY <1>1, StackIs
<1>5. node \in TreeOf[Height]
  <2> HIDE DEF root, top, d
  <2>1. /\ Len(top.tag.body) \in Nat /\ top.next \in Nat /\ top.next \in 1 .. Len(top.tag.body) + 1
        /\ \A k \in 1 .. Len(top.tag.body) : top.tag.body[k] \in Nodes(root)
    BY <1>3, <1>4, OpenBody DEF OpenTag
  <2>2. node \in Nodes(root)
    BY <1>1, <2>1
  <2> QED BY <1>3, <2>2, NodesOfTree
<1>6. ASSUME NEW n \in Nodes(root), Refusable(n)
      PROVE  Ahead(s, n)
  <2>1. Ahead(<<top>> \o below, n)
    BY <1>1, <1>4, <1>6, Zenon DEF TextInv
  <2> HIDE DEF top, below, U
  <2>2. StillIn(top, n) \/ Ahead(below, n)
    BY <1>4, <2>1, AheadPush
  <2>3. CASE n \in Nodes(node)
    <3>1. StillIn(f, n)
      <4> HIDE DEF node
      <4> QED BY <1>1, <1>5, <1>6, <2>3, BegunHas
    <3> HIDE DEF f, g
    <3>2. <<g>> \o below \in Seq(U \cup {g})
      BY <1>4, AheadPush
    <3> QED BY <3>1, <3>2, AheadPush
  <2>4. CASE n \notin Nodes(node)
    <3>1. StillIn(g, n) \/ Ahead(below, n)
      <4> HIDE DEF root, d
      <4>1. CASE StillIn(top, n)
        BY <1>1, <1>3, <1>4, <2>4, <4>1, BumpedHas
      <4> QED BY <2>2, <4>1
    <3> HIDE DEF f, g
    <3>2. Ahead(<<g>> \o below, n) /\ <<g>> \o below \in Seq(U \cup {g})
      BY <1>4, <3>1, AheadPush
    <3> QED BY <3>2, AheadPush
  <2> QED BY <2>3, <2>4
<1> HIDE DEF s, root
<1>7. \A n \in Nodes(html') : Refusable(n) => Ahead(stack', n)
  BY <1>2, <1>6, Zenon
<1> QED BY <1>2, <1>7 DEF TextInv

\* A leaf is printed only if its characters are printable.
LEMMA TextLeaf ==
  ASSUME RowInv, WriterInv, TextInv, W!PrintLeaf
  PROVE  TextInv'
<1> DEFINE root == html
           top == W!Top
           below == W!Rest
           d == Len(below)
           node == top.tag.body[top.next]
           g == Bumped(top)
           s == <<g>> \o below
           U == UNION {OpenSets(html)[k] : k \in Nat}
<1>1. /\ writer = "printing" /\ stack # <<>> /\ top.next <= Len(top.tag.body) /\ node.kind # "simple"
      /\ ~Refusable(node)
  BY DEF W!PrintLeaf, W!AtNode, W!Node, W!Refused, Refusable
<1>2. stack' = s /\ html' = root /\ writer' = "printing"
  BY <1>1, Zenon DEF W!PrintLeaf, Bumped, W!Bump
<1>3. root \in TreeOf[Height]
  BY DEF RowInv
<1>4. stack = <<top>> \o below /\ below \in Seq(U) /\ d \in Nat /\ OpenTag(root, d, top)
  BY <1>1, StackIs
<1>5. node \in TreeOf[Height]
  <2> HIDE DEF root, top, d
  <2>1. /\ Len(top.tag.body) \in Nat /\ top.next \in Nat /\ top.next \in 1 .. Len(top.tag.body) + 1
        /\ \A k \in 1 .. Len(top.tag.body) : top.tag.body[k] \in Nodes(root)
    BY <1>3, <1>4, OpenBody DEF OpenTag
  <2>2. node \in Nodes(root)
    BY <1>1, <2>1
  <2> QED BY <1>3, <2>2, NodesOfTree
<1>6. ASSUME NEW n \in Nodes(root), Refusable(n)
      PROVE  Ahead(s, n)
  <2>1. Ahead(<<top>> \o below, n)
    BY <1>1, <1>4, <1>6, Zenon DEF TextInv
  <2> HIDE DEF top, below, U
  <2>2. StillIn(top, n) \/ Ahead(below, n)
    BY <1>4, <2>1, AheadPush
  <2>3. n \notin Nodes(node)
    <3> HIDE DEF node
    <3> QED BY <1>1, <1>5, <1>6, LeafAlone
  <2>4. StillIn(g, n) \/ Ahead(below, n)
    <3> HIDE DEF root, d
    <3>1. CASE StillIn(top, n)
      BY <1>1, <1>3, <1>4, <2>3, <3>1, BumpedHas
    <3> QED BY <2>2, <3>1
  <2> HIDE DEF g
  <2> QED BY <1>4, <2>4, AheadPush
<1> HIDE DEF s, root
<1>7. \A n \in Nodes(html') : Refusable(n) => Ahead(stack', n)
  BY <1>2, <1>6, Zenon
<1> QED BY <1>2, <1>7 DEF TextInv

\* A tag is closed when nothing in it is ahead.
LEMMA TextClose ==
  ASSUME RowInv, WriterInv, TextInv, W!CloseTag
  PROVE  TextInv'
<1> DEFINE root == html
           top == W!Top
           below == W!Rest
           d == Len(below)
           U == UNION {OpenSets(html)[k] : k \in Nat}
<1>1. writer = "printing" /\ stack # <<>> /\ top.next > Len(top.tag.body)
  BY DEF W!CloseTag
<1>2. stack' = below /\ html' = root /\ writer' \in {"printing", "done"}
  BY DEF W!CloseTag
<1>3. root \in TreeOf[Height]
  BY DEF RowInv
<1>4. stack = <<top>> \o below /\ below \in Seq(U) /\ d \in Nat /\ OpenTag(root, d, top)
  BY <1>1, StackIs
<1>5. ASSUME NEW n \in Nodes(root), Refusable(n)
      PROVE  Ahead(below, n)
  <2>1. Ahead(<<top>> \o below, n)
    BY <1>1, <1>4, <1>5, Zenon DEF TextInv
  <2>2. ~StillIn(top, n)
    <3> HIDE DEF root, top, d
    <3>1. Len(top.tag.body) \in Nat /\ top.next \in Nat
      BY <1>3, <1>4, OpenBody
    <3> QED BY <1>1, <3>1 DEF StillIn
  <2> HIDE DEF top, below, U
  <2> QED BY <1>4, <2>1, <2>2, AheadPush
<1> HIDE DEF below, root
<1>6. \A n \in Nodes(html') : Refusable(n) => Ahead(stack', n)
  BY <1>2, <1>5, Zenon
<1> QED BY <1>2, <1>6 DEF TextInv

\* The assert fails on a node of the tree.
LEMMA TextFails ==
  ASSUME RowInv, WriterInv, W!AssertFails
  PROVE  TextInv'
<1> DEFINE root == html
           top == W!Top
           below == W!Rest
           d == Len(below)
           node == top.tag.body[top.next]
<1>1. writer = "printing" /\ stack # <<>> /\ top.next <= Len(top.tag.body) /\ Refusable(node)
  BY DEF W!AssertFails, W!AtNode, W!Node, W!Refused, Refusable
<1>2. html' = root /\ writer' = "aborted"
  BY DEF W!AssertFails
<1>3. root \in TreeOf[Height]
  BY DEF RowInv
<1>4. d \in Nat /\ OpenTag(root, d, top)
  BY <1>1, StackIs
<1>5. node \in Nodes(root)
  <2> HIDE DEF root, top, d
  <2>1. /\ Len(top.tag.body) \in Nat /\ top.next \in Nat /\ top.next \in 1 .. Len(top.tag.body) + 1
        /\ \A k \in 1 .. Len(top.tag.body) : top.tag.body[k] \in Nodes(root)
    BY <1>3, <1>4, OpenBody DEF OpenTag
  <2> QED BY <1>1, <2>1
<1> HIDE DEF node, root
<1>6. \E n \in Nodes(html') : Refusable(n)
  BY <1>1, <1>2, <1>5, Zenon
<1> QED BY <1>2, <1>6 DEF TextInv

\* Every step.
LEMMA TextStep == ASSUME RowInv, WriterInv, TextInv, [Next]_vars PROVE TextInv'
<1>1. CASE Render
  <2>1. R!Next /\ UNCHANGED <<stack, out, writer>>
    BY <1>1 DEF Render
  <2>2. job.kind = "tree" => renderer = "ready"
    BY DEF RowInv
  <2>3. (renderer = "ready" /\ job.kind # "tree") \/ renderer = "rendering"
    BY <2>1 DEF R!Next, R!Start, R!AddNode, R!VisitScev, R!RenderMetadata, R!Enter, R!Overflow, R!Leave,
         R!Finish, R!AtItem
  <2>4. writer = "ready"
    BY <2>2, <2>3 DEF WriterInv
  <2> QED BY <2>1, <2>4 DEF TextInv
<1>2. CASE WriteRow
  BY <1>2, TextStart, TextTag, TextLeaf, TextClose, TextFails DEF WriteRow, W!Next
<1>3. CASE Browse \/ UNCHANGED vars
  <2>1. UNCHANGED <<html, stack, writer>>
    BY <1>3 DEF Browse, vars
  <2> QED BY <2>1 DEF TextInv
<1> QED BY <1>1, <1>2, <1>3 DEF Next

\* print ends by the assert of print_str exactly if a text of the tree has a
\* character that isprint rejects, wherever in the tree it is.
THEOREM PrintEndsAsTextsDemand ==
  Spec => [](/\ writer = "done" => \A n \in Nodes(html) : ~Refusable(n)
             /\ writer = "aborted" => \E n \in Nodes(html) : Refusable(n))
<1>1. WriterInv /\ TextInv =>
        /\ writer = "done" => \A n \in Nodes(html) : ~Refusable(n)
        /\ writer = "aborted" => \E n \in Nodes(html) : Refusable(n)
  <2> SUFFICES ASSUME WriterInv, TextInv, writer = "done", NEW n \in Nodes(html)
               PROVE  ~Refusable(n)
    BY DEF TextInv
  <2>1. ~Ahead(<<>>, n)
    BY DEF Ahead
  <2>2. stack = <<>>
    BY DEF WriterInv
  <2> QED BY <2>1, <2>2 DEF TextInv
<1>2. Init => TextInv
  BY TextInit
<1>3. RowInv /\ WriterInv /\ TextInv /\ [Next]_vars => TextInv'
  BY TextStep
<1>4. Spec => [](RowInv /\ WriterInv /\ BrowserInv)
  BY PageInvariance
<1> QED BY <1>1, <1>2, <1>3, <1>4, PTL DEF Spec

-----------------------------------------------------------------------------
(* The scripts of the page, whatever is clicked while animations wait.     *)

Way == {"up", "down"}

UiInv == UiTypeOK /\ CodeFollowsClass /\ FlagsFollowBoxes

\* What one function contributes to CodeFollowsClass.
Follows(f) ==
  (f \in collapsed) <=>
     IF queue[f] = <<>> THEN f \notin shown ELSE queue[f][Len(queue[f])] = "up"

\* After an animation is queued the last one is that.
LEMMA LastOfAppend ==
  ASSUME NEW q \in Seq(Way), NEW way \in Way
  PROVE  /\ Append(q, way) \in Seq(Way)
         /\ Append(q, way) # <<>>
         /\ Append(q, way)[Len(Append(q, way))] = way
OBVIOUS

\* A queue without length is empty.
LEMMA NoAnimations ==
  ASSUME NEW q \in Seq(Way)
  PROVE  q = <<>> <=> Len(q) = 0
OBVIOUS

\* Taking the first animation away leaves the last one, or it was the last.
LEMMA LastOfTail ==
  ASSUME NEW q \in Seq(Way), q # <<>>
  PROVE  /\ Tail(q) \in Seq(Way)
         /\ Head(q) \in Way
         /\ Tail(q) = <<>> => Head(q) = q[Len(q)]
         /\ Tail(q) # <<>> => Tail(q)[Len(Tail(q))] = q[Len(q)]
<1>1. Tail(q) \in Seq(Way) /\ Len(Tail(q)) = Len(q) - 1 /\ Len(q) >= 1 /\ Len(q) \in Nat
  OBVIOUS
<1>2. Head(q) \in Way /\ Head(q) = q[1]
  OBVIOUS
<1>3. CASE Len(q) = 1
  <2>1. Len(Tail(q)) = 0
    BY <1>1, <1>3
  <2>3. Tail(q) = <<>>
    BY <1>1, <2>1, NoAnimations
  <2>2. Head(q) = q[Len(q)]
    BY <1>2, <1>3
  <2> QED BY <1>1, <1>2, <2>2, <2>3
<1>4. CASE Len(q) # 1
  <2>1. Len(Tail(q)) \in 1 .. Len(q) - 1
    BY <1>1, <1>4
  <2>2. Tail(q)[Len(Tail(q))] = q[Len(Tail(q)) + 1]
    BY <2>1
  <2>3. Len(Tail(q)) + 1 = Len(q)
    BY <1>1
  <2>4. Tail(q) # <<>>
    <3>1. Len(Tail(q)) # 0
      BY <1>1, <1>4
    <3> QED BY <1>1, <3>1, NoAnimations, SMTT(30)
  <2> QED BY <1>1, <1>2, <2>2, <2>3, <2>4
<1> QED BY <1>3, <1>4

\* Slides that are asked for: of the functions in fs the last animation is the
\* new one, the others keep theirs.
LEMMA SlideKeeps ==
  ASSUME UiTypeOK, NEW fs \in SUBSET Functions, NEW way \in Way, Slide(fs, way)
  PROVE  /\ queue' \in [Functions -> Seq(Way)]
         /\ \A f \in fs : queue'[f] # <<>> /\ queue'[f][Len(queue'[f])] = way
         /\ \A f \in Functions \ fs : queue'[f] = queue[f]
<1>1. \A f \in Functions : queue[f] \in Seq(Way)
  BY DEF UiTypeOK, Way
<1>2. queue' = [f \in Functions |-> IF f \in fs THEN Append(queue[f], way) ELSE queue[f]]
  BY DEF Slide
<1>3. \A f \in fs : queue'[f] = Append(queue[f], way)
  BY <1>2
<1>4. \A f \in Functions \ fs : queue'[f] = queue[f]
  BY <1>2
<1>5. \A f \in fs : /\ queue'[f] \in Seq(Way) /\ queue'[f] # <<>>
                    /\ queue'[f][Len(queue'[f])] = way
  <2> SUFFICES ASSUME NEW f \in fs
               PROVE  /\ queue'[f] \in Seq(Way) /\ queue'[f] # <<>>
                      /\ queue'[f][Len(queue'[f])] = way
    OBVIOUS
  <2>1. queue[f] \in Seq(Way) /\ queue'[f] = Append(queue[f], way)
    BY <1>1, <1>3
  <2> QED BY <2>1, LastOfAppend
<1>6. \A f \in Functions : queue'[f] \in Seq(Way)
  BY <1>1, <1>4, <1>5
<1>7. queue' \in [Functions -> Seq(Way)]
  BY <1>2, <1>6
<1> QED BY <1>4, <1>5, <1>7

\* Queues without animations.
LEMMA IdleQueues == Idle \in [Functions -> Seq(Way)] /\ \A f \in Functions : Idle[f] = <<>>
<1>1. <<>> \in Seq(Way)
  OBVIOUS
<1> QED BY <1>1 DEF Idle

\* The page as it was printed.
LEMMA UiInitHolds == ASSUME UiInit PROVE UiInv
<1>1. queue \in [Functions -> Seq(Way)] /\ \A f \in Functions : queue[f] = <<>>
  BY IdleQueues DEF UiInit
<1>2. UiTypeOK
  <2>1. clicks \in 0 .. MaxClicks
    BY ClicksAssumption DEF UiInit
  <2>2. checked \subseteq Flags /\ touched \subseteq Flags /\ body \subseteq Flags
    BY DEF UiInit
  <2>3. /\ collapsed \subseteq Functions /\ shown \subseteq Functions
        /\ allBtn \in BOOLEAN /\ overlay \in BOOLEAN
    BY DEF UiInit
  <2> QED BY <1>1, <2>1, <2>2, <2>3 DEF UiTypeOK, Way
<1>3. CodeFollowsClass
  BY <1>1 DEF UiInit, CodeFollowsClass
<1>4. FlagsFollowBoxes
  BY DEF UiInit, FlagsFollowBoxes
<1> QED BY <1>2, <1>3, <1>4 DEF UiInv

\* The page as it is loaded again.
LEMMA ReloadKeeps == UiInv /\ Reload /\ clicks' \in 0 .. MaxClicks => UiInv'
<1> SUFFICES ASSUME UiInv, Reload, clicks' \in 0 .. MaxClicks PROVE UiInv'
  OBVIOUS
<1>1. queue' \in [Functions -> Seq(Way)] /\ \A f \in Functions : queue'[f] = <<>>
  BY IdleQueues DEF Reload
<1>2. UiTypeOK'
  BY <1>1 DEF Reload, UiInv, UiTypeOK, Way
<1>3. CodeFollowsClass'
  BY <1>1 DEF Reload, CodeFollowsClass
<1>4. FlagsFollowBoxes'
  BY DEF Reload, FlagsFollowBoxes
<1> QED BY <1>2, <1>3, <1>4 DEF UiInv

\* A changed box: the class of <body> follows it, code stays as it is.
LEMMA ChangeFlagKeeps ==
  ASSUME UiInv, NEW c \in Flags, ChangeFlag(c), clicks' \in 0 .. MaxClicks
  PROVE  UiInv'
BY DEF ChangeFlag, Toggled, code, UiInv, UiTypeOK, CodeFollowsClass, FlagsFollowBoxes

\* The overlay is no business of code and flags.
LEMMA OverlayKeeps ==
  ASSUME UiInv, NEW on \in BOOLEAN, SetOverlay(on), clicks' \in 0 .. MaxClicks
  PROVE  UiInv'
BY DEF SetOverlay, boxes, code, UiInv, UiTypeOK, CodeFollowsClass, FlagsFollowBoxes

\* One function: its class and its last animation change together.
LEMMA CollapseFunctionKeeps ==
  ASSUME UiInv, NEW f \in Functions, CollapseFunction(f), clicks' \in 0 .. MaxClicks
  PROVE  UiInv'
<1> DEFINE way == IF f \in collapsed' THEN "up" ELSE "down"
<1>1. way \in Way /\ (way = "up" <=> f \in collapsed')
  BY DEF Way
<1>2. Slide({f}, way)
  BY DEF CollapseFunction
<1> HIDE DEF way
<1>3. /\ queue' \in [Functions -> Seq(Way)]
      /\ queue'[f] # <<>> /\ queue'[f][Len(queue'[f])] = way
      /\ \A g \in Functions \ {f} : queue'[g] = queue[g]
  BY <1>1, <1>2, SlideKeeps, ZenonT(30) DEF UiInv
<1>4. /\ shown' = shown /\ overlay' = overlay /\ allBtn' = allBtn /\ UNCHANGED boxes
      /\ collapsed' \subseteq Functions
      /\ \A g \in Functions \ {f} : g \in collapsed' <=> g \in collapsed
  BY DEF CollapseFunction, Toggled, UiInv, UiTypeOK
<1>5. UiTypeOK'
  BY <1>3, <1>4 DEF UiInv, UiTypeOK, boxes, Way
<1>6. \A g \in Functions : Follows(g)'
  BY <1>1, <1>3, <1>4 DEF UiInv, CodeFollowsClass, Follows
<1>7. FlagsFollowBoxes'
  BY <1>4 DEF UiInv, FlagsFollowBoxes, boxes
<1> QED BY <1>5, <1>6, <1>7 DEF UiInv, CodeFollowsClass, Follows

\* All functions: the last animation of each is the one of the button.
LEMMA CollapseAllKeeps ==
  ASSUME UiInv, CollapseAll, clicks' \in 0 .. MaxClicks
  PROVE  UiInv'
<1> DEFINE way == IF allBtn' THEN "up" ELSE "down"
<1>1. way \in Way /\ (way = "up" <=> allBtn') /\ allBtn' \in BOOLEAN
  BY DEF Way, CollapseAll
<1>2. Slide(Functions, way)
  BY DEF CollapseAll
<1> HIDE DEF way
<1>3. /\ queue' \in [Functions -> Seq(Way)]
      /\ \A g \in Functions : queue'[g] # <<>> /\ queue'[g][Len(queue'[g])] = way
  BY <1>1, <1>2, SlideKeeps DEF UiInv
<1>4. /\ shown' = shown /\ overlay' = overlay /\ UNCHANGED boxes
      /\ collapsed' = IF allBtn' THEN Functions ELSE {}
  BY DEF CollapseAll
<1>5. UiTypeOK'
  BY <1>1, <1>3, <1>4 DEF UiInv, UiTypeOK, boxes, Way
<1>6. \A g \in Functions : Follows(g)'
  BY <1>1, <1>3, <1>4 DEF Follows
<1>7. FlagsFollowBoxes'
  BY <1>4 DEF UiInv, FlagsFollowBoxes, boxes
<1> QED BY <1>5, <1>6, <1>7 DEF UiInv, CodeFollowsClass, Follows

\* The end of an animation: it was the last, and what is shown now is where it
\* led, or another one still is.
LEMMA EndSlideKeeps ==
  ASSUME UiInv, NEW f \in Functions, EndSlide(f)
  PROVE  UiInv'
<1>1. queue[f] \in Seq(Way) /\ queue[f] # <<>>
  BY DEF UiInv, UiTypeOK, Way, EndSlide
<1>2. /\ Tail(queue[f]) \in Seq(Way) /\ Head(queue[f]) \in Way
      /\ Tail(queue[f]) = <<>> => Head(queue[f]) = queue[f][Len(queue[f])]
      /\ Tail(queue[f]) # <<>> => Tail(queue[f])[Len(Tail(queue[f]))] = queue[f][Len(queue[f])]
  BY <1>1, LastOfTail
<1>3. queue' \in [Functions -> Seq(Way)] /\ queue'[f] = Tail(queue[f])
      /\ \A g \in Functions \ {f} : queue'[g] = queue[g]
  BY <1>2 DEF EndSlide, UiInv, UiTypeOK, Way
<1>4. /\ shown' \subseteq Functions
      /\ f \in shown' <=> Head(queue[f]) = "down"
      /\ \A g \in Functions \ {f} : g \in shown' <=> g \in shown
  BY DEF EndSlide, UiInv, UiTypeOK
<1>5. collapsed' = collapsed /\ allBtn' = allBtn /\ overlay' = overlay /\ clicks' = clicks
      /\ UNCHANGED boxes
  BY DEF EndSlide
<1>6. UiTypeOK'
  BY <1>3, <1>4, <1>5 DEF UiInv, UiTypeOK, boxes, Way
<1>7. Follows(f)'
  <2>1. f \in collapsed <=> queue[f][Len(queue[f])] = "up"
    BY <1>1 DEF UiInv, CodeFollowsClass
  <2> QED BY <2>1, <1>2, <1>3, <1>4, <1>5 DEF Follows, Way
<1>8. \A g \in Functions \ {f} : Follows(g)'
  BY <1>3, <1>4, <1>5 DEF UiInv, CodeFollowsClass, Follows
<1>9. FlagsFollowBoxes'
  BY <1>5 DEF UiInv, FlagsFollowBoxes, boxes
<1> QED BY <1>6, <1>7, <1>8, <1>9 DEF UiInv, CodeFollowsClass, Follows

\* Every event of the user keeps the invariant.
LEMMA UserKeeps == ASSUME UiInv, User PROVE UiInv'
<1>1. clicks' \in 0 .. MaxClicks
  BY ClicksAssumption DEF User, UiInv, UiTypeOK
<1> QED
  BY <1>1, ReloadKeeps, ChangeFlagKeeps, CollapseFunctionKeeps, CollapseAllKeeps, OverlayKeeps
     DEF User

\* The invariant of the page, for any number of functions and boxes.
THEOREM UiInvariance == UiSpec => []UiInv
<1>1. UiInv /\ [UiNext]_uiVars => UiInv'
  <2> SUFFICES ASSUME UiInv, [UiNext]_uiVars PROVE UiInv'
    OBVIOUS
  <2>1. CASE User
    BY <2>1, UserKeeps
  <2>2. CASE \E f \in Functions : EndSlide(f)
    BY <2>2, EndSlideKeeps
  <2>3. CASE UNCHANGED uiVars
    BY <2>3 DEF uiVars, boxes, code, UiInv, UiTypeOK, CodeFollowsClass, FlagsFollowBoxes
  <2> QED BY <2>1, <2>2, <2>3 DEF UiNext
<1> QED BY UiInitHolds, <1>1, PTL DEF UiSpec

\* Classes, boxes and queues are what they should be.
THEOREM UiTypeCorrect == UiSpec => []UiTypeOK
<1>1. UiInv => UiTypeOK
  BY DEF UiInv
<1> QED BY <1>1, UiInvariance, PTL

\* Code and class of a function agree whenever its animations have ended.
THEOREM CodeAlwaysFollows == UiSpec => []CodeFollowsClass
<1>1. UiInv => CodeFollowsClass
  BY DEF UiInv
<1> QED BY <1>1, UiInvariance, PTL

\* A flag the user has changed is set exactly if its box is checked.
THEOREM FlagsAlwaysFollow == UiSpec => []FlagsFollowBoxes
<1>1. UiInv => FlagsFollowBoxes
  BY DEF UiInv
<1> QED BY <1>1, UiInvariance, PTL

=============================================================================
