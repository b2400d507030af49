------------------------ MODULE RequestSerializerProofs ------------------------
(***************************************************************************)
(* Proofs about RequestSerializer, for any words, URLs and parameters.     *)
(***************************************************************************)
EXTENDS RequestSerializer, LeastNumber, SequenceTheorems, TLAPS

\* What the texts are made of that a request writes.
Chars == Tokens \cup {EncodedOf[tok] : tok \in DOMAIN EncodedOf}

\* A text with another one behind it.
LEMMA Behind ==
  ASSUME NEW s \in Seq(Chars), NEW w \in Seq(Chars)
  PROVE  /\ s \o w \in Seq(Chars) /\ Len(s \o w) = Len(s) + Len(w)
         /\ \A j \in 1..Len(s) : (s \o w)[j] = s[j]
         /\ \A j \in 1..Len(w) : (s \o w)[Len(s) + j] = w[j]
BY ConcatProperties

-------------------------------------------------------------------------------
(* Searches.                                                               *)

\* n is where s first has a token of S, or the end of s.
IsFirst(s, S, n) ==
  /\ n \in 1..Len(s) + 1
  /\ \A j \in 1..n - 1 : s[j] \notin S
  /\ n \in 1..Len(s) => s[n] \in S

\* The place that FirstOf finds.
LEMMA FirstOfIsFirst ==
  ASSUME NEW s \in Seq(Chars), NEW S
  PROVE  IsFirst(s, S, FirstOf(s, S))
<1> DEFINE I == {i \in 1..Len(s) : s[i] \in S}
           least == CHOOSE x \in I : \A y \in I : x <= y
<1>1. I \in SUBSET Nat /\ Len(s) \in Nat
  OBVIOUS
<1>2. FirstOf(s, S) = IF (IF I # {} THEN least ELSE 0) = 0 THEN Len(s) + 1 ELSE least
  BY DEF FirstOf, SelectInSeq, Min
<1>3. CASE I = {}
  <2>1. FirstOf(s, S) = Len(s) + 1
    BY <1>2, <1>3
  <2>2. \A j \in 1..Len(s) : s[j] \notin S
    BY <1>3
  <2> QED  BY <1>1, <2>1, <2>2 DEF IsFirst
<1>4. CASE I # {}
  <2>1. \E x \in I : \A y \in I : x <= y
    BY <1>1, <1>4, LeastNatural
  <2>2. least \in I /\ \A y \in I : least <= y
    BY <2>1
  <2> HIDE DEF least
  <2>3. least \in 1..Len(s) /\ s[least] \in S
    BY <2>2
  <2>4. FirstOf(s, S) = least
    BY <1>2, <1>4, <2>3
  <2>5. \A j \in 1..least - 1 : s[j] \notin S
    BY <1>1, <2>2, <2>3
  <2> QED  BY <1>1, <2>3, <2>4, <2>5 DEF IsFirst
<1> QED  BY <1>3, <1>4

\* There is one first place.
LEMMA OneFirst ==
  ASSUME NEW s \in Seq(Chars), NEW S, NEW n, IsFirst(s, S, n)
  PROVE  FirstOf(s, S) = n
<1> DEFINE m == FirstOf(s, S)
<1>1. IsFirst(s, S, m)
  BY FirstOfIsFirst
<1> HIDE DEF m
<1>2. Len(s) \in Nat /\ m \in 1..Len(s) + 1 /\ n \in 1..Len(s) + 1
  BY <1>1 DEF IsFirst
<1>3. ~(m < n)
  <2>1. SUFFICES ASSUME m < n PROVE FALSE
    OBVIOUS
  <2>2. m \in 1..n - 1 /\ m \in 1..Len(s)
    BY <1>2, <2>1
  <2> QED  BY <1>1, <2>2 DEF IsFirst
<1>4. ~(n < m)
  <2>1. SUFFICES ASSUME n < m PROVE FALSE
    OBVIOUS
  <2>2. n \in 1..m - 1 /\ n \in 1..Len(s)
    BY <1>2, <2>1
  <2> QED  BY <1>1, <2>2 DEF IsFirst
<1>5. m = n
  BY <1>2, <1>3, <1>4
<1> QED  BY <1>5 DEF m

\* What s has, it has from the first place on.
LEMMA HasFirst ==
  ASSUME NEW s \in Seq(Chars), NEW S
  PROVE  Has(s, S) <=> FirstOf(s, S) <= Len(s)
<1> DEFINE n == FirstOf(s, S)
<1>1. IsFirst(s, S, n)
  BY FirstOfIsFirst
<1> HIDE DEF n
<1>2. DOMAIN s = 1..Len(s) /\ Len(s) \in Nat
  OBVIOUS
<1>3. n \in 1..Len(s) + 1
  BY <1>1 DEF IsFirst
<1>4. CASE n = Len(s) + 1
  <2>1. \A j \in 1..Len(s) : s[j] \notin S
    BY <1>1, <1>2, <1>4 DEF IsFirst
  <2> QED  BY <1>2, <1>4, <2>1 DEF Has, n
<1>5. CASE n \in 1..Len(s)
  <2>1. s[n] \in S
    BY <1>1, <1>5 DEF IsFirst
  <2> QED  BY <1>2, <1>5, <2>1 DEF Has, n
<1> QED  BY <1>2, <1>3, <1>4, <1>5

\* The first place stays, whatever is written behind it.
LEMMA FirstStays ==
  ASSUME NEW s \in Seq(Chars), NEW w \in Seq(Chars), NEW S, Has(s, S)
  PROVE  FirstOf(s \o w, S) = FirstOf(s, S)
<1> DEFINE n == FirstOf(s, S)
<1>1. IsFirst(s, S, n) /\ n <= Len(s)
  BY FirstOfIsFirst, HasFirst
<1> HIDE DEF n
<1>2. n \in 1..Len(s) /\ Len(s) \in Nat
  BY <1>1 DEF IsFirst
<1>3. PICK c \in Seq(Chars) : c = s \o w
  BY Behind
<1>4. Len(c) >= Len(s) /\ Len(c) \in Nat /\ \A j \in 1..Len(s) : c[j] = s[j]
  BY <1>3, Behind
<1>5. IsFirst(c, S, n)
  <2>1. n \in 1..Len(c) + 1
    BY <1>2, <1>4
  <2>2. \A j \in 1..n - 1 : c[j] \notin S
    BY <1>1, <1>2, <1>4 DEF IsFirst
  <2>3. c[n] \in S
    BY <1>1, <1>2, <1>4 DEF IsFirst
  <2> QED  BY <2>1, <2>2, <2>3 DEF IsFirst
<1>6. FirstOf(c, S) = n
  BY <1>5, OneFirst
<1> QED  BY <1>3, <1>6 DEF n

\* Where there was none, it is what is written that starts with one.
LEMMA FirstBehind ==
  ASSUME NEW s \in Seq(Chars), NEW w \in Seq(Chars), NEW S,
         ~Has(s, S), w # <<>>, w[1] \in S
  PROVE  FirstOf(s \o w, S) = Len(s) + 1 /\ FirstOf(s, S) = Len(s) + 1
<1>1. Len(s) \in Nat /\ Len(w) \in Nat \ {0} /\ DOMAIN s = 1..Len(s)
  OBVIOUS
<1>2. PICK n \in Nat : n = Len(s) + 1
  BY <1>1
<1>3. PICK c \in Seq(Chars) : c = s \o w
  BY Behind
<1>4. Len(c) = Len(s) + Len(w) /\ c[n] = w[1] /\ \A j \in 1..Len(s) : c[j] = s[j]
  BY <1>1, <1>2, <1>3, Behind
<1>5. \A j \in 1..n - 1 : s[j] \notin S /\ c[j] = s[j]
  <2> TAKE j \in 1..n - 1
  <2>1. j \in DOMAIN s /\ j \in 1..Len(s)
    BY <1>1, <1>2
  <2>2. s[j] \notin S
    BY <2>1, Zenon DEF Has
  <2> QED  BY <1>4, <2>1, <2>2, Zenon
<1>6. n \in 1..Len(c) + 1 /\ n \in 1..Len(s) + 1 /\ n \notin 1..Len(s)
  BY <1>1, <1>2, <1>4
<1>7. IsFirst(c, S, n) /\ IsFirst(s, S, n)
  BY <1>4, <1>5, <1>6 DEF IsFirst
<1>8. FirstOf(c, S) = n /\ FirstOf(s, S) = n
  BY <1>7, OneFirst
<1> QED  BY <1>2, <1>3, <1>8

\* The cuts of a text are the cuts of what is written behind it.
LEMMA CutBehind ==
  ASSUME NEW s \in Seq(Chars), NEW w \in Seq(Chars), NEW n \in 1..Len(s) + 1
  PROVE  /\ Before(s \o w, n) = Before(s, n)
         /\ From(s \o w, n) = From(s, n) \o w
<1>1. PICK k \in 0..Len(s) : n = k + 1
  OBVIOUS
<1> DEFINE a == SubSeq(s, 1, k)
           b == SubSeq(s, k + 1, Len(s))
<1>2. a \in Seq(Chars) /\ Len(a) = k /\ b \in Seq(Chars)
  OBVIOUS
<1>3. s = a \o b
  <2>1. a \o b = SubSeq(s, 1, Len(s))
    <3>1. 1 \in 1..Len(s) + 1 /\ k \in 1 - 1..Len(s) /\ Len(s) \in k..Len(s)
      OBVIOUS
    <3> QED  BY <3>1, ConcatAdjacentSubSeq, Zenon
  <2> QED  BY <2>1, SubSeqFull
<1> HIDE DEF a, b
<1>4. s \o w = a \o (b \o w) /\ b \o w \in Seq(Chars)
  BY <1>2, <1>3
<1>5. PICK y \in Seq(Chars) : y = b \o w /\ s \o w = a \o y
  BY <1>4
<1>6. SubSeq(a \o y, 1, Len(a)) = a
  BY <1>2
<1>7. SubSeq(a \o y, Len(a) + 1, Len(a \o y)) = y
  BY <1>2
<1>8. Before(s \o w, n) = a /\ Before(s, n) = a
  <2>1. n - 1 = k
    BY <1>1
  <2> QED  BY <1>2, <1>5, <1>6, <2>1 DEF Before, a
<1>9. From(s \o w, n) = y /\ From(s, n) = b
  BY <1>1, <1>2, <1>5, <1>7, Zenon DEF From, b
<1> QED  BY <1>5, <1>8, <1>9, Zenon

\* The two parts of a text.
LEMMA Parts ==
  ASSUME NEW s \in Seq(Chars), NEW n \in 1..Len(s) + 1
  PROVE  /\ Before(s, n) \in Seq(Chars) /\ Len(Before(s, n)) = n - 1
         /\ \A j \in 1..n - 1 : Before(s, n)[j] = s[j]
         /\ From(s, n) \in Seq(Chars) /\ Len(From(s, n)) = Len(s) + 1 - n
         /\ \A j \in 1..Len(s) + 1 - n : From(s, n)[j] = s[n - 1 + j]
<1>1. /\ SubSeq(s, 1, n - 1) \in Seq(Chars) /\ Len(SubSeq(s, 1, n - 1)) = n - 1
      /\ \A j \in 1..n - 1 : SubSeq(s, 1, n - 1)[j] = s[j]
  OBVIOUS
<1>2. /\ SubSeq(s, n, Len(s)) \in Seq(Chars) /\ Len(SubSeq(s, n, Len(s))) = Len(s) + 1 - n
      /\ \A j \in 1..Len(s) + 1 - n : SubSeq(s, n, Len(s))[j] = s[n - 1 + j]
  OBVIOUS
<1> QED  BY <1>1, <1>2, Zenon DEF Before, From

-------------------------------------------------------------------------------
(* Parsing.                                                                *)

\* A text that names a server of the scheme.
IsHttp(s) ==
  /\ Len(s) >= 4 /\ s[1] \in Http /\ s[2] = ":" /\ s[3] = "/" /\ s[4] = "/"
  /\ ~Has(s, Forbidden)

\* The tokens of the separator.
LEMMA SeparatorTokens ==
  /\ Separator \in Seq(Chars) /\ Len(Separator) = 3
  /\ Separator[1] = ":" /\ Separator[2] = "/" /\ Separator[3] = "/"
<1>1. ":" \in Chars /\ "/" \in Chars
  BY DEF Chars, Tokens, Delimiters
<1> QED  BY <1>1 DEF Separator

\* Only such a text is parsed without error.
LEMMA ParsedIsHttp ==
  ASSUME NEW s \in Seq(Chars), Parse(s).error = "none"
  PROVE  IsHttp(s)
<1> DEFINE n  == SchemeSeparator(s)
           at == {i \in 1..(Len(s) - 2) : SubSeq(s, i, i + 2) = Separator}
           least == CHOOSE i \in at : \A j \in at : i <= j
<1>1. /\ ~Has(s, Forbidden) /\ ~(n <= 1)
      /\ Before(s, n) \in {<<w>> : w \in Http}
  BY DEF Parse, Rejected
<1>2. n = IF at = {} THEN 0 ELSE least
  BY DEF SchemeSeparator
<1> HIDE DEF n
<1>3. at # {} /\ n = least
  <2>1. at # {}
    <3>1. CASE at = {}
      <4>1. n = 0
        BY <1>2, <3>1, Zenon
      <4> QED  BY <1>1, <4>1
    <3> QED  BY <3>1
  <2> QED  BY <1>2, <2>1, Zenon
<1>4. at \in SUBSET Nat
  OBVIOUS
<1>5. \E i \in at : \A j \in at : i <= j
  BY <1>3, <1>4, LeastNatural
<1>6. n \in at
  BY <1>3, <1>5
<1>7. n \in 1..(Len(s) - 2) /\ SubSeq(s, n, n + 2) = Separator
  BY <1>6
<1>8. PICK w \in Http : Before(s, n) = <<w>>
  BY <1>1
<1>9. n \in 1..Len(s) + 1 /\ Len(s) \in Nat
  BY <1>7
<1>10. Len(Before(s, n)) = n - 1 /\ \A j \in 1..n - 1 : Before(s, n)[j] = s[j]
  BY <1>9, Parts
<1>11. n = 2 /\ s[1] = w
  BY <1>7, <1>8, <1>10
<1>12. Len(s) >= 4 /\ SubSeq(s, 2, 4) = Separator
  BY <1>7, <1>9, <1>11
<1>13. /\ SubSeq(s, 2, 4)[1] = s[2] /\ SubSeq(s, 2, 4)[2] = s[3]
       /\ SubSeq(s, 2, 4)[3] = s[4]
  BY <1>9, <1>12
<1>14. s[2] = ":" /\ s[3] = "/" /\ s[4] = "/"
  BY <1>12, <1>13, SeparatorTokens
<1> QED  BY <1>1, <1>8, <1>11, <1>12, <1>14 DEF IsHttp

\* In it the separator follows the scheme.
LEMMA SeparatorIsSecond ==
  ASSUME NEW s \in Seq(Chars), IsHttp(s)
  PROVE  SchemeSeparator(s) = 2
<1> DEFINE at == {i \in 1..(Len(s) - 2) : SubSeq(s, i, i + 2) = Separator}
           least == CHOOSE i \in at : \A j \in at : i <= j
<1>1. Len(s) \in Nat /\ Len(s) >= 4
  BY DEF IsHttp
<1>2. SubSeq(s, 2, 4) = Separator
  <2>1. /\ SubSeq(s, 2, 4) \in Seq(Chars) /\ Len(SubSeq(s, 2, 4)) = 3
        /\ SubSeq(s, 2, 4)[1] = s[2] /\ SubSeq(s, 2, 4)[2] = s[3]
        /\ SubSeq(s, 2, 4)[3] = s[4]
    BY <1>1
  <2>2. PICK q \in Seq(Chars) : q = SubSeq(s, 2, 4)
    BY <2>1
  <2>3. Len(q) = 3 /\ q[1] = ":" /\ q[2] = "/" /\ q[3] = "/"
    BY <2>1, <2>2 DEF IsHttp
  <2> QED  BY <2>2, <2>3, SeparatorTokens, SeqEqual
<1>3. SubSeq(s, 1, 3) # Separator
  <2>1. SubSeq(s, 1, 3)[1] = s[1]
    BY <1>1
  <2>2. s[1] # ":"
    BY DEF IsHttp, Http
  <2> QED  BY <2>1, <2>2, SeparatorTokens
<1>4. 2 \in at /\ 1 \notin at /\ at \in SUBSET Nat
  BY <1>1, <1>2, <1>3
<1>5. \A j \in at : 2 <= j
  BY <1>4
<1>6. SchemeSeparator(s) = least
  BY <1>4 DEF SchemeSeparator
<1>7. least \in at /\ \A j \in at : least <= j
  BY <1>4, <1>5
<1> HIDE DEF least, at
<1>8. least \in Nat /\ least = 2
  BY <1>4, <1>5, <1>7
<1> QED  BY <1>6, <1>8

\* What is left of Parse once the scheme and the fragment are off.
Server == {"/", "?"}
End(text)       == FirstOf(text, Server)
Authority(text) == Before(text, End(text))
TargetOf(text)  == Target(From(text, End(text)))
PortIn(a)       == IF Remainder(a) = <<>> THEN 0 ELSE PortOf[Remainder(a)[2]]
ParseText(text) ==
  IF AuthorityError(Authority(text)) # "none" THEN Rejected(AuthorityError(Authority(text)))
  ELSE IF Has(TargetOf(text), BadEscapes) THEN Rejected("InvalidUrl")
  ELSE Accepted(UrlOf(Host(Authority(text)), Brackets(Authority(text)),
                      PortIn(Authority(text)), TargetOf(text)))

\* What Parse makes of a text with an http scheme is what it makes of the rest.
LEMMA ParseHttp ==
  ASSUME NEW s \in Seq(Chars), IsHttp(s)
  PROVE  Parse(s) = ParseText(From(NoFragment(s), 5))
<1>1. SchemeSeparator(s) = 2
  BY SeparatorIsSecond
<1>2. s # <<>> /\ ~Has(s, Forbidden)
  BY DEF IsHttp
<1>3. Before(s, 2) \in {<<w>> : w \in Http}
  <2>1. PICK n \in 1..Len(s) + 1 : n = 2
    BY DEF IsHttp
  <2>2. /\ Before(s, n) \in Seq(Chars) /\ Len(Before(s, n)) = n - 1
        /\ \A j \in 1..n - 1 : Before(s, n)[j] = s[j]
    BY Parts
  <2>3. Before(s, 2) = <<s[1]>>
    BY <2>1, <2>2
  <2> QED  BY <2>3 DEF IsHttp
<1>4. Parse(s) =
        IF s = <<>> \/ Has(s, Forbidden) \/ SchemeSeparator(s) <= 1 THEN Rejected("InvalidUrl")
        ELSE IF Before(s, SchemeSeparator(s)) \notin {<<w>> : w \in Http}
             THEN Rejected("UnsupportedScheme")
        ELSE ParseText(From(NoFragment(s), SchemeSeparator(s) + 3))
  BY Zenon DEF Parse, ParseText, Authority, TargetOf, End, Server, PortIn
<1>5. SchemeSeparator(s) + 3 = 5 /\ ~(SchemeSeparator(s) <= 1)
  BY <1>1
<1> QED  BY <1>1, <1>2, <1>3, <1>4, <1>5, Zenon

\* A text without fragment is kept.
LEMMA NothingToCut ==
  ASSUME NEW s \in Seq(Chars), ~Has(s, {"#"})
  PROVE  NoFragment(s) = s
<1> DEFINE n == FirstOf(s, {"#"})
<1>1. IsFirst(s, {"#"}, n) /\ ~(n <= Len(s))
  BY FirstOfIsFirst, HasFirst
<1> HIDE DEF n
<1>2. n - 1 = Len(s)
  BY <1>1 DEF IsFirst
<1>3. SubSeq(s, 1, Len(s)) = s
  BY SubSeqFull
<1>4. SubSeq(s, 1, n - 1) = s
  BY <1>2, <1>3, Zenon
<1> QED  BY <1>4 DEF NoFragment, Before, n

\* Cutting a fragment off leaves the scheme, and no other fragment.
LEMMA FragmentCut ==
  ASSUME NEW s \in Seq(Chars), IsHttp(s)
  PROVE  NoFragment(s) \in Seq(Chars) /\ IsHttp(NoFragment(s)) /\ ~Has(NoFragment(s), {"#"})
<1> DEFINE n == FirstOf(s, {"#"})
<1>1. IsFirst(s, {"#"}, n)
  BY FirstOfIsFirst
<1> HIDE DEF n
<1>2. n \in 1..Len(s) + 1 /\ Len(s) \in Nat
  BY <1>1 DEF IsFirst
<1>3. n > 4
  <2>1. Len(s) >= 4 /\ s[1] # "#" /\ s[2] # "#" /\ s[3] # "#" /\ s[4] # "#"
    BY DEF IsHttp, Http
  <2>2. n \in 1..Len(s) => s[n] = "#"
    BY <1>1 DEF IsFirst
  <2> QED  BY <1>2, <2>1, <2>2
<1>4. PICK c : c = NoFragment(s)
  OBVIOUS
<1>5. c \in Seq(Chars) /\ Len(c) = n - 1 /\ \A j \in 1..n - 1 : c[j] = s[j]
  BY <1>2, <1>4, Parts DEF NoFragment, n
<1>6. DOMAIN c = 1..n - 1 /\ DOMAIN s = 1..Len(s)
  BY <1>2, <1>5
<1>7. ~Has(c, {"#"})
  BY <1>1, <1>5, <1>6 DEF Has, IsFirst
<1>8. ~Has(c, Forbidden)
  <2>1. \A j \in 1..n - 1 : j \in 1..Len(s)
    BY <1>2
  <2> QED  BY <1>5, <1>6, <2>1 DEF Has, IsHttp
<1>9. c[1] = s[1] /\ c[2] = s[2] /\ c[3] = s[3] /\ c[4] = s[4] /\ Len(c) >= 4
  BY <1>2, <1>3, <1>5
<1>10. IsHttp(c)
  BY <1>8, <1>9 DEF IsHttp
<1> QED  BY <1>4, <1>5, <1>7, <1>10

\* What two texts have.
LEMMA HasJoined ==
  ASSUME NEW s \in Seq(Chars), NEW w \in Seq(Chars), NEW S
  PROVE  Has(s \o w, S) <=> Has(s, S) \/ Has(w, S)
<1>1. PICK c \in Seq(Chars) : c = s \o w
  BY Behind
<1>2. /\ Len(c) = Len(s) + Len(w) /\ Len(s) \in Nat /\ Len(w) \in Nat
      /\ DOMAIN c = 1..Len(c) /\ DOMAIN s = 1..Len(s) /\ DOMAIN w = 1..Len(w)
  BY <1>1, Behind
<1>3. /\ \A j \in 1..Len(s) : j \in 1..Len(c) /\ c[j] = s[j]
      /\ \A j \in 1..Len(w) : Len(s) + j \in 1..Len(c) /\ c[Len(s) + j] = w[j]
  BY <1>1, <1>2, Behind
<1>4. ASSUME Has(s, S) \/ Has(w, S) PROVE Has(c, S)
  BY <1>2, <1>3, <1>4 DEF Has
<1>5. ASSUME Has(c, S) PROVE Has(s, S) \/ Has(w, S)
  <2>1. PICK i \in 1..Len(c) : c[i] \in S
    BY <1>2, <1>5 DEF Has
  <2>2. CASE i \in 1..Len(s)
    BY <1>2, <1>3, <2>1, <2>2 DEF Has
  <2>3. CASE i \notin 1..Len(s)
    <3>1. PICK j \in 1..Len(w) : i = Len(s) + j
      <4>1. i - Len(s) \in 1..Len(w) /\ i = Len(s) + (i - Len(s))
        BY <1>2, <2>1, <2>3
      <4> QED  BY <4>1
    <3> QED  BY <1>2, <1>3, <2>1, <3>1 DEF Has
  <2> QED  BY <2>2, <2>3
<1> QED  BY <1>1, <1>4, <1>5

\* Where the authority ends there is a target.
LEMMA TargetType ==
  ASSUME NEW text \in Seq(Chars)
  PROVE  /\ End(text) \in 1..Len(text) + 1
         /\ From(text, End(text)) \in Seq(Chars)
         /\ TargetOf(text) \in Seq(Chars) /\ TargetOf(text) # <<>>
<1>1. IsFirst(text, Server, End(text))
  BY FirstOfIsFirst DEF End
<1>2. End(text) \in 1..Len(text) + 1
  BY <1>1 DEF IsFirst
<1>3. PICK r \in Seq(Chars) : r = From(text, End(text))
  BY <1>2, Parts
<1>4. "/" \in Chars
  BY DEF Chars, Tokens, Delimiters
<1>5. <<"/">> \o r \in Seq(Chars) /\ <<"/">> \o r # <<>>
  BY <1>4
<1> QED  BY <1>2, <1>3, <1>5 DEF TargetOf, Target

\* What follows a server that was found, or starts the target itself, leaves the
\* server as it is and goes to the target.
LEMMA TargetGoesOn ==
  ASSUME NEW text \in Seq(Chars), NEW w \in Seq(Chars),
         Has(text, Server) \/ (w # <<>> /\ w[1] = "?")
  PROVE  /\ Authority(text \o w) = Authority(text)
         /\ TargetOf(text \o w) = TargetOf(text) \o w
<1> DEFINE n == End(text)
           r == From(text, n)
<1>1. n \in 1..Len(text) + 1 /\ r \in Seq(Chars)
  BY TargetType
<1>2. End(text \o w) = n
  BY FirstStays, FirstBehind DEF End, Server
<1> HIDE DEF n
<1>3. Authority(text \o w) = Authority(text) /\ From(text \o w, n) = r \o w
  BY <1>1, <1>2, CutBehind, Zenon DEF Authority, n
<1>4. "/" \in Chars /\ "?" \in Chars
  BY DEF Chars, Tokens, Delimiters
<1>5. TargetOf(text) = Target(r) /\ TargetOf(text \o w) = Target(r \o w)
  BY <1>2, <1>3, Zenon DEF TargetOf, n
<1> HIDE DEF r
<1>6. CASE Has(text, Server)
  <2>1. r # <<>>
    <3>1. n <= Len(text)
      BY <1>6, HasFirst DEF n, End
    <3>2. Len(r) = Len(text) + 1 - n
      BY <1>1, Parts DEF r
    <3> QED  BY <1>1, <3>1, <3>2
  <2>2. /\ r \o w # <<>> /\ (r \o w)[1] = r[1]
        /\ (<<"/">> \o r) \o w = <<"/">> \o (r \o w)
    BY <1>1, <1>4, <2>1
  <2>3. Target(r \o w) = Target(r) \o w
    BY <2>1, <2>2 DEF Target
  <2> QED  BY <1>3, <1>5, <2>3
<1>7. CASE ~Has(text, Server)
  <2>1. w # <<>> /\ w[1] = "?"
    BY <1>7
  <2>2. n = Len(text) + 1
    BY <1>7, <2>1, FirstBehind DEF n, End, Server
  <2>3. r = <<>>
    <3>1. Len(r) = Len(text) + 1 - n
      BY <1>1, Parts DEF r
    <3> QED  BY <1>1, <2>2, <3>1
  <2>4. r \o w = w
    BY <2>3
  <2>5. Target(r) = <<"/">>
    BY <1>4, <2>3 DEF Target
  <2>6. Target(w) = <<"/">> \o w
    BY <2>1 DEF Target
  <2> QED  BY <1>3, <1>5, <2>4, <2>5, <2>6
<1> QED  BY <1>6, <1>7

\* So does Parse, if nothing in what follows is a bad escape.
LEMMA ParseGoesOn ==
  ASSUME NEW text \in Seq(Chars), NEW w \in Seq(Chars),
         Has(text, Server) \/ (w # <<>> /\ w[1] = "?"),
         ~Has(w, BadEscapes), ParseText(text).error = "none"
  PROVE  /\ ParseText(text).url.target = TargetOf(text)
         /\ ParseText(text \o w)
              = Accepted([ParseText(text).url EXCEPT !.target = TargetOf(text) \o w])
<1>1. PICK a : a = Authority(text)
  OBVIOUS
<1>2. PICK q : q = TargetOf(text)
  OBVIOUS
<1>3. Authority(text \o w) = a /\ TargetOf(text \o w) = q \o w /\ q \in Seq(Chars)
  BY <1>1, <1>2, TargetGoesOn, TargetType
<1>4. \A e : e # "none" => Rejected(e).error # "none"
  BY DEF Rejected
<1>5. AuthorityError(a) = "none" /\ ~Has(q, BadEscapes)
  <2>1. Rejected("InvalidUrl").error # "none"
    BY <1>4
  <2> QED  BY <1>1, <1>2, <1>4, <2>1, Zenon DEF ParseText
<1>6. ~Has(q \o w, BadEscapes)
  BY <1>3, <1>5, HasJoined
<1>7. ParseText(text) = Accepted(UrlOf(Host(a), Brackets(a), PortIn(a), q))
  BY <1>1, <1>2, <1>5, Zenon DEF ParseText
<1>8. ParseText(text \o w) = Accepted(UrlOf(Host(a), Brackets(a), PortIn(a), q \o w))
  BY <1>3, <1>5, <1>6, Zenon DEF ParseText
<1>9. PICK u, y : u = ParseText(text).url /\ y = q \o w
  OBVIOUS
<1>10. u = UrlOf(Host(a), Brackets(a), PortIn(a), q)
  BY <1>7, <1>9 DEF Accepted
<1>11. u.target = q /\ [u EXCEPT !.target = y] = UrlOf(Host(a), Brackets(a), PortIn(a), y)
  BY <1>10 DEF UrlOf
<1>12. ParseText(text \o w) = Accepted([u EXCEPT !.target = y])
  BY <1>8, <1>9, <1>11, Zenon
<1> QED  BY <1>2, <1>9, <1>11, <1>12

-------------------------------------------------------------------------------
(* The grammar.                                                            *)

\* The two parts of a text that was put together from two.
LEMMA PartsOfTwo ==
  ASSUME NEW s \in Seq(Chars), NEW w \in Seq(Chars)
  PROVE  Before(s \o w, Len(s) + 1) = s /\ From(s \o w, Len(s) + 1) = w
<1>1. PICK n : n = Len(s) + 1 /\ n - 1 = Len(s)
  OBVIOUS
<1>2. SubSeq(s \o w, 1, Len(s)) = s
  OBVIOUS
<1>3. SubSeq(s \o w, Len(s) + 1, Len(s \o w)) = w
  OBVIOUS
<1>4. SubSeq(s \o w, 1, n - 1) = s /\ SubSeq(s \o w, n, Len(s \o w)) = w
  BY <1>1, <1>2, <1>3, Zenon
<1> QED  BY <1>1, <1>4, Zenon DEF Before, From

\* Port numbers are words.
LEMMA PortWords ==
  ASSUME NEW w \in DOMAIN PortOf
  PROVE  /\ w \notin Delimiters \cup Forbidden \cup Escaped /\ w \in Chars
         /\ PortOf[w] \in Nat \ {0}
<1>1. w \in Words \ (Forbidden \cup Escaped) /\ PortOf[w] \in Ports
  BY PortAssumption, Zenon
<1>2. Words \cap Delimiters = {}
  BY WordAssumption
<1>3. Ports \subseteq Nat \ {0}
  BY DEF Ports
<1>4. PortOf[w] \in Nat \ {0}
  BY <1>1, <1>3, Zenon
<1>5. w \notin Delimiters \cup Forbidden \cup Escaped /\ w \in Chars
  BY <1>1, <1>2, Zenon DEF Chars, Tokens
<1> QED  BY <1>4, <1>5, Zenon

\* No delimiter is forbidden, or an escape.
LEMMA DelimitersPlain ==
  ASSUME NEW d \in Delimiters
  PROVE  d \in Chars /\ d \notin Forbidden \cup Escaped \cup BadEscapes
<1>1. /\ Words \cap Delimiters = {} /\ Forbidden \subseteq Words
      /\ BadEscapes \subseteq Escaped /\ Escaped \subseteq Words
  BY WordAssumption
<1> QED  BY <1>1 DEF Chars, Tokens

\* What a part that gives a port is made of.
LEMMA PortPart ==
  ASSUME NEW p \in Seq(Chars), IsPortPart(p), p # <<>>
  PROVE  /\ Len(p) = 2 /\ p[1] = ":" /\ p[2] \in DOMAIN PortOf
         /\ p[2] \notin Delimiters \cup Forbidden \cup Escaped
         /\ Tail(p) = <<p[2]>> /\ From(p, 2) = <<p[2]>>
<1>1. Len(p) = 2 /\ p[1] = ":" /\ p[2] \in DOMAIN PortOf
  BY DEF IsPortPart
<1>2. PICK n : n = 2
  OBVIOUS
<1>3. /\ SubSeq(p, n, Len(p)) \in Seq(Chars) /\ Len(SubSeq(p, n, Len(p))) = 1
      /\ SubSeq(p, n, Len(p))[1] = p[2]
  BY <1>1, <1>2
<1>4. Tail(p) \in Seq(Chars) /\ Len(Tail(p)) = 1 /\ Tail(p)[1] = p[2]
  BY <1>1, HeadTailProperties
<1>5. \A q \in Seq(Chars) : Len(q) = 1 => q = <<q[1]>>
  OBVIOUS
<1>6. Tail(p) = <<p[2]>> /\ From(p, 2) = <<p[2]>>
  BY <1>2, <1>3, <1>4, <1>5 DEF From
<1> QED  BY <1>1, <1>6, PortWords

\* What follows a host is a port, or nothing.
LEMMA PortPartHas ==
  ASSUME NEW p \in Seq(Chars), IsPortPart(p), NEW S,
         S \cap ({":"} \cup (DOMAIN PortOf)) = {}
  PROVE  ~Has(p, S)
<1>1. CASE p = <<>>
  BY <1>1 DEF Has
<1>2. CASE p # <<>>
  <2>1. Len(p) = 2 /\ p[1] = ":" /\ p[2] \in DOMAIN PortOf
    BY <1>2 DEF IsPortPart
  <2>2. DOMAIN p = {1, 2}
    BY <2>1
  <2> QED  BY <2>1, <2>2 DEF Has
<1> QED  BY <1>1, <1>2

\* An error-free authority, by its parts.
LEMMA GoodAuthority ==
  ASSUME NEW a, a # <<>>, ~Has(a, Escaped \cup {"@"}),
         Brackets(a) => ~(HostEnd(a) > Len(a)) /\ Host(a) \in Literals,
         ~Brackets(a) => ~Has(From(Remainder(a), 2), {":"}),
         Host(a) # <<>>,
         Remainder(a) # <<>> => Remainder(a)[1] = ":" /\ IsPort(Tail(Remainder(a)))
  PROVE  AuthorityError(a) = "none"
BY Zenon DEF AuthorityError

\* And what the parts of one without error are.
LEMMA AuthorityIsGood ==
  ASSUME NEW a, AuthorityError(a) = "none"
  PROVE  /\ a # <<>> /\ ~Has(a, Escaped \cup {"@"})
         /\ Brackets(a) => ~(HostEnd(a) > Len(a)) /\ Host(a) \in Literals
         /\ ~Brackets(a) => ~Has(From(Remainder(a), 2), {":"})
         /\ Host(a) # <<>>
         /\ Remainder(a) # <<>> => Remainder(a)[1] = ":" /\ IsPort(Tail(Remainder(a)))
<1>1. "InvalidUrl" # "none" /\ "InvalidPort" # "none"
  OBVIOUS
<1> QED  BY <1>1, Zenon DEF AuthorityError

-------------------------------------------------------------------------------
(* What is written behind a URL.                                           *)

\* The tokens of parameters: none of them means anything to Parse.
Clean == {EncodedOf[tok] : tok \in DOMAIN EncodedOf} \cup {"?", "=", "&"}

\* Parse stops at none of these tokens, and cuts nothing off there.
LEMMA CleanIsClean ==
  /\ Clean \subseteq Chars
  /\ Clean \cap (Forbidden \cup BadEscapes \cup {"#"}) = {}
<1>1. {"?", "=", "&"} \subseteq Delimiters /\ "#" \in Delimiters
  BY DEF Delimiters
<1>2. "#" \notin {"?", "=", "&"}
  OBVIOUS
<1>3. (Forbidden \cup BadEscapes) \cap Delimiters = {}
  <2>1. /\ Words \cap Delimiters = {} /\ Forbidden \subseteq Words
        /\ BadEscapes \subseteq Escaped /\ Escaped \subseteq Words
    BY WordAssumption
  <2> QED  BY <2>1, Zenon
<1>4. \A tok \in DOMAIN EncodedOf :
        EncodedOf[tok] \notin Delimiters \cup Forbidden \cup BadEscapes
  BY RequestAssumption
<1>5. Clean \subseteq Chars
  BY <1>1 DEF Clean, Chars, Tokens
<1>6. \A c \in Clean : c \notin Forbidden \cup BadEscapes \cup {"#"}
  BY <1>1, <1>2, <1>3, <1>4 DEF Clean
<1> QED  BY <1>5, <1>6

\* One parameter.
LEMMA WrittenType ==
  ASSUME NEW p \in Params
  PROVE  Written(p) \in Seq(Clean)
<1>1. p.name \in Seq(DOMAIN EncodedOf) /\ p.value \in Seq(DOMAIN EncodedOf)
  BY RequestAssumption
<1>2. \A t \in Seq(DOMAIN EncodedOf) : Encoded(t) \in Seq(Clean)
  <2> TAKE t \in Seq(DOMAIN EncodedOf)
  <2>1. Len(t) \in Nat /\ DOMAIN t = 1..Len(t)
    OBVIOUS
  <2>2. \A i \in 1..Len(t) : EncodedOf[t[i]] \in Clean
    BY DEF Clean
  <2>3. [i \in 1..Len(t) |-> EncodedOf[t[i]]] \in Seq(Clean)
    BY <2>1, <2>2
  <2> QED  BY <2>1, <2>3 DEF Encoded
<1>3. <<"=">> \in Seq(Clean)
  BY DEF Clean
<1>4. \A a, b, c \in Seq(Clean) : (a \o b) \o c \in Seq(Clean)
  OBVIOUS
<1> QED  BY <1>1, <1>2, <1>3, <1>4, Zenon DEF Written

\* The loop over the parameters, which writes nothing else.
IsListing(f, ps) ==
  /\ f \in [0..Len(ps) -> Seq(Clean)] /\ f[0] = <<>> /\ List(ps) = f[Len(ps)]
  /\ \A i \in 1..Len(ps) :
        f[i] = (IF i = 1 THEN <<>> ELSE Append(f[i - 1], "&")) \o Written(ps[i])

\* The list is what that loop ends with.
LEMMA ListIs ==
  ASSUME NEW ps \in Seq(Params)
  PROVE  \E f : IsListing(f, ps)
<1> DEFINE Eq(f) == f = [i \in 0..Len(ps) |->
                           IF i = 0 THEN <<>>
                           ELSE (IF i = 1 THEN <<>> ELSE Append(f[i - 1], "&"))
                                  \o Written(ps[i])]
           run == CHOOSE f : Eq(f)
<1>1. List(ps) = run[Len(ps)]
  BY DEF List
<1> HIDE DEF run
<1>2. PICK n \in Nat : n = Len(ps)
  OBVIOUS
<1>3. PICK write \in [1..n -> Seq(Clean)] : \A i \in 1..n : write[i] = Written(ps[i])
  <2>1. \A i \in 1..n : Written(ps[i]) \in Seq(Clean)
    <3> TAKE i \in 1..n
    <3>1. ps[i] \in Params
      BY <1>2
    <3> QED  BY <3>1, WrittenType
  <2>2. [i \in 1..n |-> Written(ps[i])] \in [1..n -> Seq(Clean)]
    BY <2>1
  <2> QED  BY <2>2
<1> DEFINE After(i, text) == (IF i = 1 THEN <<>> ELSE Append(text, "&")) \o write[i]
<1>4. \A i \in 1..n, text \in Seq(Clean) : After(i, text) \in Seq(Clean)
  <2> TAKE i \in 1..n, text \in Seq(Clean)
  <2>1. PICK c \in Seq(Clean) : c = write[i]
    OBVIOUS
  <2>2. PICK d \in Seq(Clean) : d = IF i = 1 THEN <<>> ELSE Append(text, "&")
    <3>1. "&" \in Clean
      BY DEF Clean
    <3>2. Append(text, "&") \in Seq(Clean)
      BY <3>1
    <3>3. <<>> \in Seq(Clean)
      OBVIOUS
    <3> QED  BY <3>2, <3>3, Zenon
  <2>3. d \o c \in Seq(Clean)
    OBVIOUS
  <2> QED  BY <2>1, <2>2, <2>3, Zenon
<1>5. \A f : (\A i \in 0..n : f[i] = IF i = 0 THEN <<>> ELSE After(i, f[i - 1]))
             /\ f \in [0..n -> Seq(Clean)] => Eq(f)
  <2> TAKE f
  <2> HAVE (\A i \in 0..n : f[i] = IF i = 0 THEN <<>> ELSE After(i, f[i - 1]))
            /\ f \in [0..n -> Seq(Clean)]
  <2> DEFINE g == [i \in 0..n |-> IF i = 0 THEN <<>>
                                  ELSE (IF i = 1 THEN <<>> ELSE Append(f[i - 1], "&"))
                                         \o Written(ps[i])]
  <2>1. \A i \in 0..n : f[i] = g[i]
    <3> TAKE i \in 0..n
    <3>1. CASE i = 0
      BY <3>1
    <3>2. CASE i # 0
      <4>1. i \in 1..n
        BY <3>2
      <4>2. write[i] = Written(ps[i])
        BY <1>3, <4>1
      <4>3. f[i] = After(i, f[i - 1])
        BY <3>2
      <4>4. g[i] = (IF i = 1 THEN <<>> ELSE Append(f[i - 1], "&")) \o Written(ps[i])
        BY <3>2
      <4> QED  BY <4>2, <4>3, <4>4, Zenon
    <3> QED  BY <3>1, <3>2
  <2>2. f = g
    BY <2>1
  <2> QED  BY <1>2, <2>2, Zenon
<1>6. \A f : Eq(f) => \A i \in 0..n : f[i] = IF i = 0 THEN <<>> ELSE After(i, f[i - 1])
  <2> TAKE f
  <2> HAVE Eq(f)
  <2> TAKE i \in 0..n
  <2>1. i \in 0..Len(ps)
    BY <1>2
  <2>2. f[i] = IF i = 0 THEN <<>>
               ELSE (IF i = 1 THEN <<>> ELSE Append(f[i - 1], "&")) \o Written(ps[i])
    BY <2>1
  <2>3. i = 0 \/ (i # 0 /\ write[i] = Written(ps[i]))
    BY <1>3
  <2> QED  BY <2>2, <2>3, Zenon
<1> HIDE DEF After, Eq
<1>7. \E f : Eq(f)
  <2> DEFINE step == [x \in (1..n) \X Seq(Clean) |-> After(x[1], x[2])]
  <2>1. step \in [(1..n) \X Seq(Clean) -> Seq(Clean)]
    <3>1. \A x \in (1..n) \X Seq(Clean) : x[1] \in 1..n /\ x[2] \in Seq(Clean)
      OBVIOUS
    <3> QED  BY <1>4, <3>1
  <2>2. \A i \in 1..n, text \in Seq(Clean) : step[<<i, text>>] = After(i, text)
    OBVIOUS
  <2> HIDE DEF step
  <2>3. PICK f : IsTrack(f, n, Seq(Clean), <<>>, step)
    <3>1. <<>> \in Seq(Clean)
      OBVIOUS
    <3> QED  BY <2>1, <3>1, TrackExists
  <2>4. /\ f \in [0..n -> Seq(Clean)] /\ f[0] = <<>>
        /\ \A i \in 1..n : f[i] = step[<<i, f[i - 1]>>]
    BY <2>3 DEF IsTrack
  <2>5. \A i \in 0..n : f[i] = IF i = 0 THEN <<>> ELSE After(i, f[i - 1])
    <3> TAKE i \in 0..n
    <3>1. CASE i = 0
      BY <2>4, <3>1
    <3>2. CASE i # 0
      <4>1. i \in 1..n /\ i - 1 \in 0..n
        BY <3>2
      <4>2. f[i - 1] \in Seq(Clean)
        BY <2>4, <4>1
      <4> QED  BY <2>2, <2>4, <3>2, <4>1, <4>2
    <3> QED  BY <3>1, <3>2
  <2> QED  BY <1>5, <2>4, <2>5
<1>8. Eq(run)
  BY <1>7 DEF run
<1>9. \A i \in 0..n : run[i] = IF i = 0 THEN <<>> ELSE After(i, run[i - 1])
  BY <1>6, <1>8
<1>10. \A i \in 0..n : run[i] \in Seq(Clean)
  <2> DEFINE T == {i \in 0..n : run[i] \in Seq(Clean)}
  <2>1. 0 \in T
    <3>1. 0 \in 0..n /\ <<>> \in Seq(Clean)
      OBVIOUS
    <3> QED  BY <1>9, <3>1
  <2>2. ASSUME NEW i \in 0..n - 1, i \in T PROVE i + 1 \in T
    <3>1. PICK k \in 1..n : k = i + 1 /\ k - 1 = i /\ k \in 0..n /\ k # 0
      OBVIOUS
    <3>2. run[k] = After(k, run[i])
      BY <1>9, <3>1
    <3> QED  BY <1>4, <2>2, <3>1, <3>2
  <2> HIDE DEF T
  <2>3. \A i \in 0..n : i \in T
    BY <2>1, <2>2, UpTo
  <2> QED  BY <2>3 DEF T
<1>11. run \in [0..n -> Seq(Clean)] /\ run[0] = <<>>
  <2>1. run = [i \in 0..n |-> run[i]]
    BY <1>2, <1>8 DEF Eq
  <2>2. 0 \in 0..n
    OBVIOUS
  <2> QED  BY <1>9, <1>10, <2>1, <2>2
<1>12. ASSUME NEW i \in 1..n
       PROVE  run[i] = (IF i = 1 THEN <<>> ELSE Append(run[i - 1], "&")) \o Written(ps[i])
  <2>1. i \in 0..n /\ i # 0
    OBVIOUS
  <2>2. run[i] = After(i, run[i - 1]) /\ write[i] = Written(ps[i])
    BY <1>3, <1>9, <2>1
  <2> QED  BY <2>2 DEF After
<1>13. IsListing(run, ps)
  BY <1>1, <1>2, <1>11, <1>12 DEF IsListing
<1> QED  BY <1>13

\* So the list has only tokens of parameters.
LEMMA ListType ==
  ASSUME NEW ps \in Seq(Params)
  PROVE  List(ps) \in Seq(Clean)
<1>1. PICK f : IsListing(f, ps)
  BY ListIs
<1>2. Len(ps) \in 0..Len(ps)
  OBVIOUS
<1> QED  BY <1>1, <1>2 DEF IsListing

\* A text has a question mark exactly if its target has one, and then they end in
\* the same token: append_query_params puts the same character in front of its list.
LEMMA SameGlue ==
  ASSUME NEW s \in Seq(Chars), IsHttp(s)
  PROVE  /\ Has(s, {"?"}) => Has(From(s, 5), Server)
         /\ Glue(s) = Glue(TargetOf(From(s, 5)))
<1>1. PICK text \in Seq(Chars) :
        /\ text = From(s, 5) /\ Len(text) = Len(s) - 4
        /\ \A j \in 1..Len(s) - 4 : text[j] = s[4 + j]
  <2>1. PICK n \in 1..Len(s) + 1 : n = 5
    BY DEF IsHttp
  <2>2. /\ From(s, n) \in Seq(Chars) /\ Len(From(s, n)) = Len(s) + 1 - n
        /\ \A j \in 1..Len(s) + 1 - n : From(s, n)[j] = s[n - 1 + j]
    BY Parts
  <2>3. Len(s) + 1 - n = Len(s) - 4 /\ \A j \in Int : n - 1 + j = 4 + j
    BY <2>1
  <2> QED  BY <2>1, <2>2, <2>3
<1>2. /\ Len(s) \in Nat /\ Len(s) >= 4 /\ DOMAIN s = 1..Len(s)
      /\ DOMAIN text = 1..Len(s) - 4
  BY <1>1 DEF IsHttp
<1>3. Has(s, {"?"}) <=> Has(text, {"?"})
  <2>1. s[1] # "?" /\ s[2] # "?" /\ s[3] # "?" /\ s[4] # "?"
    BY DEF IsHttp, Http
  <2>2. ASSUME NEW i \in 1..Len(s), s[i] = "?" PROVE \E j \in 1..Len(s) - 4 : text[j] = "?"
    <3>1. i > 4
      BY <2>1, <2>2
    <3>2. i - 4 \in 1..Len(s) - 4 /\ 4 + (i - 4) = i
      BY <1>2, <3>1
    <3> QED  BY <1>1, <2>2, <3>2
  <2>3. ASSUME NEW j \in 1..Len(s) - 4, text[j] = "?" PROVE \E i \in 1..Len(s) : s[i] = "?"
    <3>1. 4 + j \in 1..Len(s)
      BY <1>2
    <3> QED  BY <1>1, <2>3, <3>1
  <2> QED  BY <1>2, <2>2, <2>3 DEF Has
<1> DEFINE n == End(text)
           r == From(text, n)
<1>4. /\ n \in 1..Len(text) + 1 /\ IsFirst(text, Server, n)
      /\ r \in Seq(Chars) /\ TargetOf(text) = Target(r)
  BY TargetType, FirstOfIsFirst, Zenon DEF End, TargetOf
<1>5. /\ Len(r) = Len(text) + 1 - n
      /\ \A j \in 1..Len(text) + 1 - n : r[j] = text[n - 1 + j]
  BY <1>4, Parts
<1> HIDE DEF n, r
<1>6. Len(text) \in Nat /\ DOMAIN text = 1..Len(text) /\ DOMAIN r = 1..Len(r)
  BY <1>4
<1>7. Has(text, {"?"}) <=> Has(r, {"?"})
  <2>1. ASSUME NEW i \in 1..Len(text), text[i] = "?" PROVE \E j \in 1..Len(r) : r[j] = "?"
    <3>1. ~(i \in 1..n - 1)
      BY <1>4, <2>1 DEF IsFirst, Server
    <3>2. PICK j \in 1..Len(r) : n - 1 + j = i
      <4>1. i - n + 1 \in 1..Len(r) /\ n - 1 + (i - n + 1) = i
        BY <1>4, <1>5, <1>6, <3>1
      <4> QED  BY <4>1
    <3> QED  BY <1>5, <2>1, <3>2
  <2>2. ASSUME NEW j \in 1..Len(r), r[j] = "?" PROVE \E i \in 1..Len(text) : text[i] = "?"
    <3>1. n - 1 + j \in 1..Len(text)
      BY <1>4, <1>5, <1>6
    <3> QED  BY <1>5, <2>2, <3>1
  <2> QED  BY <1>6, <2>1, <2>2 DEF Has
<1>8. PICK q \in Seq(Chars) : q = TargetOf(text)
  BY TargetType
<1>9. /\ q = r \/ q = <<"/">> \o r
      /\ <<"/">> \in Seq(Chars) /\ Len(<<"/">>) = 1
  <2>1. "/" \in Chars
    BY DEF Chars, Tokens, Delimiters
  <2> QED  BY <1>4, <1>8, <2>1 DEF Target
<1>10. Has(r, {"?"}) <=> Has(q, {"?"})
  <2>1. ~Has(<<"/">>, {"?"})
    BY DEF Has
  <2>2. Has(<<"/">> \o r, {"?"}) <=> Has(<<"/">>, {"?"}) \/ Has(r, {"?"})
    BY <1>4, <1>9, HasJoined
  <2> QED  BY <1>9, <2>1, <2>2
<1>11. ASSUME Has(s, {"?"})
       PROVE  Last(s) = Last(q)
  <2>1. Len(r) \in 1..Len(text)
    <3>1. Has(r, {"?"})
      BY <1>3, <1>7, <1>11
    <3>2. Len(r) # 0
      BY <1>6, <3>1 DEF Has
    <3> QED  BY <1>4, <1>5, <1>6, <3>2
  <2>2. r[Len(r)] = text[Len(text)]
    <3>1. Len(r) \in 1..Len(text) + 1 - n /\ n - 1 + Len(r) = Len(text)
      BY <1>4, <1>5, <1>6, <2>1
    <3> QED  BY <1>5, <3>1
  <2>3. text[Len(text)] = s[Len(s)]
    <3>1. Len(text) \in 1..Len(s) - 4 /\ 4 + Len(text) = Len(s)
      BY <1>1, <1>2, <2>1
    <3> QED  BY <1>1, <3>1
  <2>4. q[Len(q)] = r[Len(r)]
    <3>1. CASE q = r
      BY <3>1
    <3>2. CASE q = <<"/">> \o r
      <4>1. /\ Len(<<"/">> \o r) = 1 + Len(r)
            /\ \A j \in 1..Len(r) : (<<"/">> \o r)[1 + j] = r[j]
        BY <1>4, <1>9, Behind
      <4>2. Len(r) \in 1..Len(r)
        BY <2>1
      <4> QED  BY <3>2, <4>1, <4>2
    <3> QED  BY <1>9, <3>1, <3>2
  <2> QED  BY <2>2, <2>3, <2>4 DEF Last
<1>12. Has(s, {"?"}) <=> Has(q, {"?"})
  BY <1>3, <1>7, <1>10
<1>13. Glue(s) = Glue(q)
  BY <1>11, <1>12, Zenon DEF Glue
<1>14. Has(text, {"?"}) => Has(text, Server)
  BY DEF Has, Server
<1> QED  BY <1>1, <1>3, <1>8, <1>13, <1>14, Zenon

\* A URL that was parsed has the target of its text.
LEMMA ParsedTarget ==
  ASSUME NEW text \in Seq(Chars), ParseText(text).error = "none"
  PROVE  /\ ParseText(text).url.target = TargetOf(text)
         /\ ParseText(text) = Accepted([ParseText(text).url EXCEPT !.target = TargetOf(text)])
<1>1. PICK a, q : a = Authority(text) /\ q = TargetOf(text)
  OBVIOUS
<1>2. \A e : e # "none" => Rejected(e).error # "none"
  BY DEF Rejected
<1>3. ParseText(text) = Accepted(UrlOf(Host(a), Brackets(a), PortIn(a), q))
  <2>1. Rejected("InvalidUrl").error # "none"
    BY <1>2
  <2> QED  BY <1>1, <1>2, <2>1, Zenon DEF ParseText
<1>4. PICK u : u = ParseText(text).url
  OBVIOUS
<1>5. u = UrlOf(Host(a), Brackets(a), PortIn(a), q)
  BY <1>3, <1>4 DEF Accepted
<1>6. u.target = q /\ [u EXCEPT !.target = q] = u
  BY <1>5 DEF UrlOf
<1>7. ParseText(text) = Accepted([u EXCEPT !.target = q])
  BY <1>3, <1>5, <1>6, Zenon
<1> QED  BY <1>1, <1>4, <1>6, <1>7

\* What is written behind a URL for its parameters: tokens that no parser stops at,
\* and a question mark in front of them where the URL has none.
LEMMA Appendix ==
  ASSUME NEW s \in Seq(Chars), NEW ps \in Seq(Params)
  PROVE  \E w \in Seq(Chars) :
           /\ w = Glue(s) \o List(ps)
           /\ ~Has(w, Forbidden) /\ ~Has(w, BadEscapes) /\ ~Has(w, {"#"})
           /\ ~Has(s, {"?"}) => w # <<>> /\ w[1] = "?"
           /\ s \o w = s \o Glue(s) \o List(ps)
<1>1. PICK g : g = Glue(s)
  OBVIOUS
<1>2. g \in {<<>>, <<"?">>, <<"&">>} /\ (~Has(s, {"?"}) => g = <<"?">>)
  BY <1>1, Zenon DEF Glue
<1>3. PICK l \in Seq(Clean) : l = List(ps)
  BY ListType
<1>4. "?" \in Clean /\ "&" \in Clean
  BY DEF Clean
<1>5. g \in Seq(Clean)
  <2>1. <<>> \in Seq(Clean) /\ <<"?">> \in Seq(Clean) /\ <<"&">> \in Seq(Clean)
    BY <1>4
  <2> QED  BY <1>2, <2>1
<1>6. PICK w \in Seq(Clean) : w = g \o l
  <2>1. \A a, b \in Seq(Clean) : a \o b \in Seq(Clean)
    OBVIOUS
  <2>2. g \o l \in Seq(Clean)
    BY <1>3, <1>5, <2>1, Zenon
  <2> QED  BY <2>2, Zenon
<1>7. w \in Seq(Chars) /\ g \in Seq(Chars) /\ l \in Seq(Chars)
  <2>1. Seq(Clean) \subseteq Seq(Chars)
    BY CleanIsClean
  <2> QED  BY <1>5, <2>1
<1>8. \A S : (Clean \cap S = {}) => ~Has(w, S)
  <2>1. \A i \in DOMAIN w : w[i] \in Clean
    BY <1>6
  <2> QED  BY <2>1 DEF Has
<1>9. ~Has(w, Forbidden) /\ ~Has(w, BadEscapes) /\ ~Has(w, {"#"})
  <2>1. Clean \cap Forbidden = {} /\ Clean \cap BadEscapes = {} /\ Clean \cap {"#"} = {}
    BY CleanIsClean
  <2> QED  BY <1>8, <2>1
<1>10. ASSUME g = <<"?">> PROVE w # <<>> /\ w[1] = "?"
  <2>1. Len(g) = 1 /\ g[1] = "?" /\ 1 \in 1..Len(g)
    BY <1>10
  <2>2. Len(w) = Len(g) + Len(l) /\ \A j \in 1..Len(g) : w[j] = g[j]
    <3>1. Len(g \o l) = Len(g) + Len(l) /\ \A j \in 1..Len(g) : (g \o l)[j] = g[j]
      BY <1>7, Behind, Zenon
    <3> QED  BY <1>6, <3>1, Zenon
  <2>3. Len(l) \in Nat
    BY <1>7
  <2> QED  BY <2>1, <2>2, <2>3
<1>11. s \o w = (s \o g) \o l
  <2>1. s \o (g \o l) = (s \o g) \o l
    BY ONLY s \in Seq(Chars), <1>7
  <2> QED  BY <1>6, <2>1
<1> QED  BY <1>1, <1>2, <1>3, <1>6, <1>7, <1>9, <1>10, <1>11

-------------------------------------------------------------------------------
(* Requests.                                                               *)

\* What Headers::set leaves are fields again: its loop goes through them with what it
\* kept.
LEMMA ReplacedType ==
  ASSUME fields \in Seq(Fields), NEW f \in Fields
  PROVE  Replaced(f) \in Seq(Fields)
<1> DEFINE n == Len(fields)
           S == Seq(Fields)
           same == Places(fields, Folded[f.name])
           E(i, x) == IF i \notin same THEN Append(x, fields[i])
                      ELSE IF \A j \in same : i <= j THEN Append(x, f) ELSE x
           Eq(g) == g = [i \in 0..n |-> IF i = 0 THEN <<>> ELSE E(i, g[i - 1])]
           run == CHOOSE g : Eq(g)
<1>1. Replaced(f) = IF same = {} THEN Append(fields, f) ELSE run[n]
  BY DEF Replaced
<1>2. n \in Nat /\ <<>> \in S /\ Append(fields, f) \in S
  OBVIOUS
<1>3. \A i \in 1..n, x \in S : E(i, x) \in S
  OBVIOUS
<1> HIDE DEF n, S, same, E, run
<1>4. PICK step \in [(1..n) \X S -> S] : \A i \in 1..n, x \in S : step[<<i, x>>] = E(i, x)
  <2> DEFINE g == [p \in (1..n) \X S |-> E(p[1], p[2])]
  <2>1. \A p \in (1..n) \X S : p[1] \in 1..n /\ p[2] \in S
    OBVIOUS
  <2>2. g \in [(1..n) \X S -> S]
    BY <1>3, <2>1
  <2>3. \A i \in 1..n, x \in S : g[<<i, x>>] = E(i, x)
    OBVIOUS
  <2> QED  BY <2>2, <2>3
<1>5. PICK g : IsTrack(g, n, S, <<>>, step)
  BY <1>2, TrackExists
<1>6. \A i \in 0..n : i = 0 \/ (i \in 1..n /\ i - 1 \in 0..n)
  BY <1>2
<1>7. \A i \in 0..n : g[i] = IF i = 0 THEN <<>> ELSE E(i, g[i - 1])
  BY <1>4, <1>5, <1>6 DEF IsTrack
<1>8. Eq(g)
  <2>1. g = [i \in 0..n |-> g[i]]
    BY <1>5 DEF IsTrack
  <2> QED  BY <1>7, <2>1
<1> HIDE DEF Eq
<1>9. Eq(run)
  BY <1>8 DEF run
<1>10. /\ run = [i \in 0..n |-> run[i]] /\ run[0] = <<>>
       /\ \A i \in 1..n : run[i] = E(i, run[i - 1])
  <2>1. run = [i \in 0..n |-> IF i = 0 THEN <<>> ELSE E(i, run[i - 1])]
    BY <1>9 DEF Eq
  <2>2. \A i \in 0..n : run[i] = IF i = 0 THEN <<>> ELSE E(i, run[i - 1])
    BY <2>1
  <2>3. 0 \in 0..n /\ \A i \in 1..n : i \in 0..n /\ i # 0
    BY <1>2
  <2>4. run = [i \in 0..n |-> run[i]]
    BY <2>1
  <2> QED  BY <2>2, <2>3, <2>4
<1>11. IsTrack(run, n, S, <<>>, step)
  <2>1. \A i \in 1..n : run[i - 1] \in S => run[i] = step[<<i, run[i - 1]>>]
    BY <1>4, <1>10
  <2> QED  BY <1>2, <1>10, <2>1, TrackStays
<1>12. run[n] \in S
  BY <1>2, <1>11 DEF IsTrack
<1> QED  BY <1>1, <1>2, <1>12 DEF S

\* What a request is built of, and where its Location leads.
Built ==
  /\ url \in Urls /\ content \in BOOLEAN /\ body \in Sizes
  /\ params \in Seq(Params) /\ fields \in Seq(Fields)
  /\ \/ location = <<>> /\ resolved = Unresolved
     \/ /\ location \in Locations /\ Parse(url).error = "none"
        /\ resolved = Resolve(Parse(EffectiveUrl).url, location)

\* A Location that was followed leads somewhere, or nowhere with an error.
LEMMA ResolveResolves ==
  ASSUME NEW base, NEW loc
  PROVE  Resolve(base, loc) # Unresolved
<1>1. \A e : e # "none" => Failed(e) # Unresolved
  BY DEF Failed, Unresolved
<1>2. ASSUME NEW candidate PROVE Validate(candidate) # Unresolved
  <2> DEFINE text == NoFragment(candidate)
             error == Parse(text).error
  <2>1. error = "none" => text # <<>>
    BY DEF Parse, Rejected
  <2> HIDE DEF text, error
  <2>2. error = "none" => [error |-> "none", text |-> text] # Unresolved
    BY <2>1 DEF Unresolved
  <2>3. Validate(candidate) = CASE error = "none" -> [error |-> "none", text |-> text]
          [] error = "UnsupportedScheme" -> Failed("UnsupportedRedirectScheme")
          [] OTHER -> Failed(error)
    BY Zenon DEF Validate, text, error
  <2> QED  BY <1>1, <2>2, <2>3
<1>3. Failed("MissingRedirectLocation") # Unresolved /\ Failed("UnsupportedRedirectScheme") # Unresolved
  BY <1>1
<1> HIDE <1>1
<1> QED  BY <1>2, <1>3, Zenon DEF Resolve

\* Every state has a request that was built so, by induction over the calls on it.
LEMMA StaysBuilt == Spec => []Built
<1>1. Init => Built
  <2>1. 0 \in Sizes
    BY RequestAssumption
  <2> QED  BY <2>1 DEF Init, Built
<1>2. Built /\ [Next]_vars => Built'
  <2> SUFFICES ASSUME Built, [Next]_vars PROVE Built'
    OBVIOUS
  <2>1. CASE UNCHANGED vars
    BY <2>1 DEF vars, request, Built, EffectiveUrl
  <2>2. CASE resolved = Unresolved /\ Call
    <3> DEFINE Request == /\ url \in Urls /\ content \in BOOLEAN /\ body \in Sizes
                          /\ params \in Seq(Params) /\ fields \in Seq(Fields)
    <3>1. Request'
      <4> USE DEF Built
      <4>1. ASSUME NEW size \in Sizes, SetBody(size) PROVE Request'
        BY <4>1 DEF SetBody
      <4>2. ASSUME NEW p \in Params, AddQueryParam(p) PROVE Request'
        BY <4>2 DEF AddQueryParam
      <4>3. ASSUME NEW f \in Fields, AddField(f) PROVE Request'
        BY <4>3 DEF AddField
      <4>4. ASSUME NEW f \in Fields, SetField(f) PROVE Request'
        BY <4>4, ReplacedType DEF SetField
      <4> QED  BY <2>2, <4>1, <4>2, <4>3, <4>4 DEF Call
    <3>2. UNCHANGED <<location, resolved>>
      BY <2>2 DEF Call
    <3>3. location = <<>>
      BY <2>2, ResolveResolves DEF Built
    <3> QED  BY <2>2, <3>1, <3>2, <3>3 DEF Built
  <2>3. ASSUME NEW loc \in Locations, Redirect(loc) PROVE Built'
    <3>1. Parse(url).error = "none"
      BY <2>3 DEF Redirect, Sent, Error
    <3>2. /\ location' = loc /\ resolved' = Resolve(Parse(EffectiveUrl).url, loc)
          /\ UNCHANGED <<url, content, body, params, fields>>
      BY <2>3 DEF Redirect, request
    <3> QED  BY <3>1, <3>2 DEF Built, EffectiveUrl
  <2> QED  BY <2>1, <2>2, <2>3 DEF Next
<1> QED  BY <1>1, <1>2, PTL DEF Spec

\* The two texts that effective_request_url and serialize_request write agree.
LEMMA EffectiveUrlParses ==
  ASSUME Built, Parse(url).error = "none"
  PROVE  Parse(EffectiveUrl) = Accepted([Parse(url).url EXCEPT !.target = RequestTarget])
<1>1. PICK t \in Seq(Chars) : t = url
  <2>1. url \in Seq(Tokens) /\ Tokens \subseteq Chars
    BY RequestAssumption DEF Built, Texts, Chars
  <2>2. url \in Seq(Chars)
    BY <2>1
  <2> QED  BY <2>2
<1>2. Parse(t).error = "none"
  BY <1>1
<1>3. IsHttp(t)
  BY <1>2, ParsedIsHttp
<1>4. PICK s \in Seq(Chars) : s = NoFragment(t) /\ IsHttp(s) /\ ~Has(s, {"#"})
  BY <1>3, FragmentCut
<1>5. PICK text : text = From(s, 5)
  OBVIOUS
<1>6. PICK five \in 1..Len(s) + 1 : five = 5
  BY <1>4 DEF IsHttp
<1>7. text \in Seq(Chars)
  BY <1>5, <1>6, Parts
<1>8. Parse(t) = ParseText(text) /\ ParseText(text).error = "none"
  BY <1>2, <1>3, <1>4, <1>5, ParseHttp
<1>9. PICK u, q : u = ParseText(text).url /\ q = TargetOf(text)
  OBVIOUS
<1>10. u.target = q /\ ParseText(text) = Accepted([u EXCEPT !.target = q])
  BY <1>7, <1>8, <1>9, ParsedTarget
<1>11. Parse(url).url = u /\ RequestTarget = AppendQueryParams(q, params)
  BY <1>1, <1>8, <1>9, <1>10 DEF RequestTarget
<1>12. EffectiveUrl = AppendQueryParams(s, params)
  BY <1>1, <1>4 DEF EffectiveUrl
<1>13. CASE params = <<>>
  <2>1. EffectiveUrl = s /\ RequestTarget = q
    BY <1>11, <1>12, <1>13 DEF AppendQueryParams
  <2>2. Parse(s) = ParseText(text)
    BY <1>4, <1>5, ParseHttp, NothingToCut
  <2> QED  BY <1>10, <1>11, <2>1, <2>2, Zenon
<1>14. CASE params # <<>>
  <2>1. Glue(s) = Glue(q) /\ (Has(s, {"?"}) => Has(text, Server))
    BY <1>4, <1>5, <1>9, SameGlue
  <2>2. PICK w \in Seq(Chars) :
          /\ w = Glue(s) \o List(params)
          /\ ~Has(w, Forbidden) /\ ~Has(w, BadEscapes) /\ ~Has(w, {"#"})
          /\ ~Has(s, {"?"}) => w # <<>> /\ w[1] = "?"
          /\ s \o w = s \o Glue(s) \o List(params)
    BY Appendix DEF Built
  <2>3. PICK c \in Seq(Chars) : c = s \o w
    BY Behind
  <2>4. EffectiveUrl = c
    BY <1>12, <1>14, <2>2, <2>3 DEF AppendQueryParams
  <2>5. RequestTarget = q \o w
    <3>1. q \in Seq(Chars)
      BY <1>7, <1>9, TargetType
    <3>2. PICK v \in Seq(Chars) :
            /\ v = Glue(q) \o List(params)
            /\ q \o v = q \o Glue(q) \o List(params)
      BY <3>1, Appendix DEF Built
    <3>3. v = w
      BY <2>1, <2>2, <3>2
    <3> QED  BY <1>11, <1>14, <3>2, <3>3 DEF AppendQueryParams
  <2>6. IsHttp(c) /\ ~Has(c, {"#"})
    <3>1. ~Has(c, {"#"}) /\ ~Has(c, Forbidden)
      <4>1. \A S : Has(c, S) <=> Has(s, S) \/ Has(w, S)
        BY <2>3, HasJoined
      <4>2. ~Has(s, Forbidden)
        BY <1>4 DEF IsHttp
      <4> QED  BY <1>4, <2>2, <4>1, <4>2, Zenon
    <3>2. Len(c) >= 4 /\ c[1] = s[1] /\ c[2] = s[2] /\ c[3] = s[3] /\ c[4] = s[4]
      BY <1>4, <2>3, Behind DEF IsHttp
    <3> QED  BY <1>4, <3>1, <3>2 DEF IsHttp
  <2>7. From(c, 5) = text \o w
    BY <1>5, <1>6, <2>3, CutBehind
  <2>8. Parse(c) = ParseText(text \o w)
    BY <2>6, <2>7, ParseHttp, NothingToCut
  <2>9. Has(text, Server) \/ (w # <<>> /\ w[1] = "?")
    BY <2>1, <2>2
  <2>10. ParseText(text \o w) = Accepted([u EXCEPT !.target = q \o w])
    BY <1>7, <1>8, <1>9, <2>2, <2>9, ParseGoesOn
  <2> QED  BY <1>11, <2>4, <2>5, <2>8, <2>10, Zenon
<1> QED  BY <1>13, <1>14

-------------------------------------------------------------------------------
(* Parse takes what the grammar reads.                                     *)

\* A host as the grammar reads it, and what of it Parse calls the host.
HostText(h) == IF IsLiteral(h) THEN SubSeq(h, 2, Len(h) - 1) ELSE h
IsHost(h)   == IsLiteral(h) \/ IsName(h)

\* An address in brackets.
LEMMA LiteralHost ==
  ASSUME NEW h, NEW l \in Literals, h = <<"[">> \o l \o <<"]">>
  PROVE  /\ h \in Seq(Chars) /\ l \in Seq(Chars) /\ l # <<>> /\ Len(h) = Len(l) + 2
         /\ h[1] = "[" /\ \A j \in 1..Len(l) : h[j + 1] = l[j]
         /\ Has(h, {"]"}) /\ FirstOf(h, {"]"}) = Len(h)
         /\ ~Has(h, {"/", "?", "#", "@"} \cup Escaped)
<1>1. /\ "[" \in Chars /\ "]" \in Chars /\ "[" \notin Escaped /\ "]" \notin Escaped
  BY DelimitersPlain DEF Delimiters
<1>2. l \in Seq(Chars) /\ l # <<>>
  <2>1. l \in Seq(Tokens) /\ Tokens \subseteq Chars /\ l # <<>>
    BY LiteralAssumption DEF Texts, Chars
  <2> QED  BY <2>1
<1>3. ~Has(l, {"[", "]", "/", "?", "#", "@"} \cup Escaped)
  BY LiteralAssumption
<1>4. PICK left, right \in Seq(Chars) :
        /\ left = <<"[">> /\ Len(left) = 1 /\ left[1] = "["
        /\ right = <<"]">> /\ Len(right) = 1 /\ right[1] = "]"
  <2>1. <<"[">> \in Seq(Chars) /\ Len(<<"[">>) = 1 /\ <<"[">>[1] = "["
    BY <1>1
  <2>2. <<"]">> \in Seq(Chars) /\ Len(<<"]">>) = 1 /\ <<"]">>[1] = "]"
    BY <1>1
  <2> QED  BY <2>1, <2>2
<1>5. PICK b \in Seq(Chars) : b = left \o l
  BY <1>2, Behind
<1>6. h = b \o right
  BY <1>4, <1>5
<1>7. /\ Len(b) = Len(l) + 1 /\ b[1] = "[" /\ \A j \in 1..Len(l) : b[1 + j] = l[j]
  <2>1. 1 \in 1..Len(left)
    BY <1>4
  <2> QED  BY <1>2, <1>4, <1>5, <2>1, Behind
<1>8. /\ h \in Seq(Chars) /\ Len(h) = Len(b) + 1 /\ \A j \in 1..Len(b) : h[j] = b[j]
  <2>1. /\ b \o right \in Seq(Chars) /\ Len(b \o right) = Len(b) + Len(right)
        /\ \A j \in 1..Len(b) : (b \o right)[j] = b[j]
    BY Behind
  <2> QED  BY <1>4, <1>6, <2>1
<1>9. \A S : Has(h, S) <=> Has(left, S) \/ Has(l, S) \/ Has(right, S)
  <2>1. \A S : Has(b, S) <=> Has(left, S) \/ Has(l, S)
    BY <1>2, <1>5, HasJoined
  <2>2. \A S : Has(b \o right, S) <=> Has(b, S) \/ Has(right, S)
    BY HasJoined
  <2> QED  BY <1>6, <2>1, <2>2
<1>10. \A S : (Has(left, S) <=> "[" \in S) /\ (Has(right, S) <=> "]" \in S)
  BY <1>4 DEF Has
<1>11. \A S, T : Has(l, S) => Has(l, S \cup T)
  BY DEF Has
<1>12. ~Has(b, {"]"}) /\ Has(h, {"]"})
  <2>1. Has(b, {"]"}) <=> Has(left, {"]"}) \/ Has(l, {"]"})
    BY <1>2, <1>4, <1>5, HasJoined
  <2>2. ~Has(l, {"]"})
    BY <1>3 DEF Has
  <2> QED  BY <1>9, <1>10, <2>1, <2>2
<1>13. FirstOf(h, {"]"}) = Len(h)
  <2>1. right # <<>> /\ right[1] \in {"]"}
    BY <1>4
  <2>2. FirstOf(b \o right, {"]"}) = Len(b) + 1
    BY <1>12, <2>1, FirstBehind
  <2> QED  BY <1>6, <1>8, <2>2
<1>14. ~Has(h, {"/", "?", "#", "@"} \cup Escaped)
  <2>1. ~Has(l, {"/", "?", "#", "@"} \cup Escaped)
    BY <1>3 DEF Has
  <2> QED  BY <1>1, <1>9, <1>10, <2>1
<1>15. \A j \in 1..Len(l) : h[j + 1] = l[j]
  <2> TAKE j \in 1..Len(l)
  <2>1. 1 + j \in 1..Len(b) /\ 1 + j = j + 1
    BY <1>2, <1>7
  <2> QED  BY <1>7, <1>8, <2>1
<1>16. h[1] = "["
  BY <1>2, <1>7, <1>8
<1> QED  BY <1>2, <1>7, <1>8, <1>12, <1>13, <1>14, <1>15, <1>16

\* Parse takes an authority that is put together from a host and a port apart again.
LEMMA AuthorityOfLiteral ==
  ASSUME NEW h \in Seq(Chars), NEW p \in Seq(Chars), IsLiteral(h), IsPortPart(p)
  PROVE  /\ AuthorityError(h \o p) = "none" /\ Brackets(h \o p)
         /\ Host(h \o p) = SubSeq(h, 2, Len(h) - 1) /\ Remainder(h \o p) = p
         /\ h = <<"[">> \o SubSeq(h, 2, Len(h) - 1) \o <<"]">>
<1>1. PICK l \in Literals : h = <<"[">> \o l \o <<"]">>
  BY DEF IsLiteral
<1>2. /\ l \in Seq(Chars) /\ l # <<>> /\ Len(h) = Len(l) + 2
      /\ h[1] = "[" /\ \A j \in 1..Len(l) : h[j + 1] = l[j]
      /\ Has(h, {"]"}) /\ FirstOf(h, {"]"}) = Len(h)
      /\ ~Has(h, {"/", "?", "#", "@"} \cup Escaped)
  BY <1>1, LiteralHost
<1>3. PICK a \in Seq(Chars) : a = h \o p
  BY Behind
<1>4. Len(a) = Len(h) + Len(p) /\ \A j \in 1..Len(h) : a[j] = h[j]
  BY <1>3, Behind
<1>5. Len(l) \in Nat \ {0} /\ Len(p) \in Nat
  BY <1>2
<1>6. Brackets(a) /\ a # <<>>
  BY <1>2, <1>4, <1>5 DEF Brackets
<1>7. HostEnd(a) = Len(h)
  BY <1>2, <1>3, <1>6, FirstStays DEF HostEnd
<1>8. \A q \in Seq(Chars) : /\ Len(q) >= Len(h) /\ \A j \in 1..Len(h) : q[j] = h[j]
                            => SubSeq(q, 2, Len(h) - 1) = l
  <2> TAKE q \in Seq(Chars)
  <2> HAVE Len(q) >= Len(h) /\ \A j \in 1..Len(h) : q[j] = h[j]
  <2>1. PICK n : n = Len(h) - 1
    OBVIOUS
  <2>2. n \in 1..Len(q) /\ n = Len(l) + 1
    BY <1>2, <1>5, <2>1
  <2>3. /\ SubSeq(q, 2, n) \in Seq(Chars) /\ Len(SubSeq(q, 2, n)) = Len(l)
        /\ \A j \in 1..Len(l) : SubSeq(q, 2, n)[j] = q[j + 1]
    BY <1>5, <2>2
  <2>4. \A j \in 1..Len(l) : SubSeq(q, 2, n)[j] = l[j]
    <3> TAKE j \in 1..Len(l)
    <3>1. j + 1 \in 1..Len(h)
      BY <1>2, <1>5
    <3> QED  BY <1>2, <2>3, <3>1
  <2>5. SubSeq(q, 2, n) = l
    BY <1>2, <2>3, <2>4, SeqEqual
  <2> QED  BY <2>1, <2>5
<1>9. Host(a) = l /\ SubSeq(h, 2, Len(h) - 1) = l
  BY <1>4, <1>5, <1>6, <1>7, <1>8 DEF Host
<1>10. Remainder(a) = p
  BY <1>3, <1>6, <1>7, PartsOfTwo DEF Remainder
<1>11. ~Has(a, Escaped \cup {"@"})
  <2>1. ~Has(h, Escaped \cup {"@"})
    BY <1>2 DEF Has
  <2>2. ~Has(p, Escaped \cup {"@"})
    <3>1. \A w \in {":"} \cup DOMAIN PortOf : w \notin Escaped \cup {"@"}
      BY PortWords, DelimitersPlain DEF Delimiters
    <3> QED  BY <3>1, PortPartHas
  <2> QED  BY <1>3, <2>1, <2>2, HasJoined
<1>12. p # <<>> => p[1] = ":" /\ IsPort(Tail(p))
  BY PortPart DEF IsPort
<1>13. ~(HostEnd(a) > Len(a))
  BY <1>4, <1>5, <1>7
<1>14. AuthorityError(a) = "none"
  BY <1>2, <1>6, <1>9, <1>10, <1>11, <1>12, <1>13, GoodAuthority
<1> QED  BY <1>1, <1>3, <1>6, <1>9, <1>10, <1>14

\* A host by its name.
LEMMA AuthorityOfName ==
  ASSUME NEW h \in Seq(Chars), NEW p \in Seq(Chars), IsName(h), IsPortPart(p)
  PROVE  /\ AuthorityError(h \o p) = "none" /\ ~Brackets(h \o p)
         /\ Host(h \o p) = h /\ Remainder(h \o p) = p
<1>1. h # <<>> /\ h[1] # "[" /\ ~Has(h, {":", "/", "?", "#", "@"} \cup Escaped)
  BY DEF IsName
<1>2. Len(h) \in Nat \ {0} /\ Len(p) \in Nat
  BY <1>1
<1>3. PICK a \in Seq(Chars) : a = h \o p
  BY Behind
<1>4. Len(a) = Len(h) + Len(p) /\ \A j \in 1..Len(h) : a[j] = h[j]
  BY <1>3, Behind
<1>5. ~Brackets(a) /\ a # <<>>
  BY <1>1, <1>2, <1>4 DEF Brackets
<1>6. ~Has(h, {":"}) /\ ~Has(h, Escaped \cup {"@"})
  BY <1>1 DEF Has
<1>7. HostEnd(a) = Len(h) + 1
  <2>1. CASE p = <<>>
    <3>1. a = h
      BY <1>3, <2>1
    <3>2. FirstOf(h, {":"}) \in 1..Len(h) + 1 /\ ~(FirstOf(h, {":"}) <= Len(h))
      BY <1>6, FirstOfIsFirst, HasFirst DEF IsFirst
    <3>3. FirstOf(h, {":"}) = Len(h) + 1
      BY <1>2, <3>2
    <3> QED  BY <1>5, <3>1, <3>3 DEF HostEnd
  <2>2. CASE p # <<>>
    <3>1. FirstOf(a, {":"}) = Len(h) + 1
      BY <1>3, <1>6, <2>2, PortPart, FirstBehind
    <3> QED  BY <1>5, <3>1 DEF HostEnd
  <2> QED  BY <2>1, <2>2
<1>8. Host(a) = h
  BY <1>3, <1>5, <1>7, PartsOfTwo DEF Host
<1>9. Remainder(a) = p
  <2>1. Len(h) + 1 + 0 = Len(h) + 1
    BY <1>2
  <2>2. Remainder(a) = From(a, Len(h) + 1)
    BY <1>5, <1>7, <2>1 DEF Remainder
  <2> QED  BY <1>3, <2>2, PartsOfTwo
<1>10. ~Has(a, Escaped \cup {"@"})
  <2>1. ~Has(p, Escaped \cup {"@"})
    <3>1. \A w \in {":"} \cup DOMAIN PortOf : w \notin Escaped \cup {"@"}
      BY PortWords, DelimitersPlain DEF Delimiters
    <3> QED  BY <3>1, PortPartHas
  <2> QED  BY <1>3, <1>6, <2>1, HasJoined
<1>11. ~Has(From(p, 2), {":"})
  <2>1. CASE p = <<>>
    <3>1. From(p, 2) = <<>>
      BY <2>1 DEF From
    <3> QED  BY <3>1 DEF Has
  <2>2. CASE p # <<>>
    <3>1. From(p, 2) = <<p[2]>> /\ p[2] \notin Delimiters
      BY <2>2, PortPart
    <3>2. p[2] # ":"
      BY <3>1 DEF Delimiters
    <3> QED  BY <3>1, <3>2 DEF Has
  <2> QED  BY <2>1, <2>2
<1>12. p # <<>> => p[1] = ":" /\ IsPort(Tail(p))
  BY PortPart DEF IsPort
<1>13. AuthorityError(a) = "none"
  BY <1>1, <1>5, <1>8, <1>9, <1>10, <1>11, <1>12, GoodAuthority
<1> QED  BY <1>3, <1>5, <1>8, <1>9, <1>13

\* A text that the grammar takes for host and port, and the server that Parse finds there.
LEMMA AuthorityOf ==
  ASSUME NEW h \in Seq(Chars), NEW p \in Seq(Chars), IsHost(h), IsPortPart(p)
  PROVE  /\ AuthorityError(h \o p) = "none" /\ Brackets(h \o p) = IsLiteral(h)
         /\ Host(h \o p) = HostText(h) /\ PortIn(h \o p) = PortOfText(p)
         /\ ~Has(h \o p, {"/", "?", "#"})
<1>1. Remainder(h \o p) = p => PortIn(h \o p) = PortOfText(p)
  BY DEF PortIn, PortOfText
<1>2. Brackets(h \o p) \in BOOLEAN /\ IsLiteral(h) \in BOOLEAN
  BY DEF Brackets, IsLiteral
<1>3. ~Has(p, {"/", "?", "#"})
  <2>1. \A w \in {":"} \cup DOMAIN PortOf : w \notin {"/", "?", "#"}
    BY PortWords DEF Delimiters
  <2> QED  BY <2>1, PortPartHas
<1>4. CASE IsLiteral(h)
  <2>1. PICK l \in Literals : h = <<"[">> \o l \o <<"]">>
    BY <1>4 DEF IsLiteral
  <2>2. ~Has(h, {"/", "?", "#", "@"} \cup Escaped)
    BY <2>1, LiteralHost
  <2>3. ~Has(h, {"/", "?", "#"})
    BY <2>2 DEF Has
  <2> QED  BY <1>1, <1>2, <1>3, <1>4, <2>3, AuthorityOfLiteral, HasJoined DEF HostText
<1>5. CASE ~IsLiteral(h)
  <2>1. IsName(h)
    BY <1>5 DEF IsHost
  <2>2. ~Has(h, {"/", "?", "#"})
    BY <2>1 DEF IsName, Has
  <2> QED  BY <1>1, <1>2, <1>3, <1>5, <2>1, <2>2, AuthorityOfName, HasJoined DEF HostText
<1> QED  BY <1>4, <1>5

\* A host has a token, and none that ends it.
LEMMA HostIsText ==
  ASSUME NEW h \in Seq(Chars), IsHost(h)
  PROVE  h # <<>> /\ HostText(h) # <<>> /\ HostText(h) \in Seq(Chars)
<1>1. <<>> \in Seq(Chars) /\ IsPortPart(<<>>) /\ h \o <<>> = h
  BY DEF IsPortPart
<1>2. AuthorityError(h) = "none" /\ Host(h) = HostText(h)
  BY <1>1, AuthorityOf
<1>3. HostText(h) # <<>> /\ h # <<>>
  BY <1>2, AuthorityIsGood
<1>4. HostText(h) \in Seq(Chars)
  <2>1. \A n \in Nat : n <= Len(h) => SubSeq(h, 2, n) \in Seq(Chars)
    OBVIOUS
  <2>2. Len(h) - 1 \in Nat /\ Len(h) - 1 <= Len(h)
    BY <1>3
  <2> QED  BY <2>1, <2>2 DEF HostText
<1> QED  BY <1>3, <1>4

\* And the other way round: an authority without error is a host and a port.
LEMMA AuthoritySplits ==
  ASSUME NEW a \in Seq(Chars), AuthorityError(a) = "none", ~Has(a, {"/", "?", "#"})
  PROVE  \E h, p \in Seq(Chars) : a = h \o p /\ IsHost(h) /\ IsPortPart(p)
<1>1. /\ a # <<>> /\ ~Has(a, Escaped \cup {"@"})
      /\ Brackets(a) => ~(HostEnd(a) > Len(a)) /\ Host(a) \in Literals
      /\ ~Brackets(a) => ~Has(From(Remainder(a), 2), {":"})
      /\ Host(a) # <<>>
      /\ Remainder(a) # <<>> => Remainder(a)[1] = ":" /\ IsPort(Tail(Remainder(a)))
  BY AuthorityIsGood
<1>2. PICK n \in 1..Len(a) + 1 :
        /\ n = HostEnd(a) + (IF Brackets(a) THEN 1 ELSE 0)
        /\ Brackets(a) => HostEnd(a) \in 1..Len(a)
        /\ IsFirst(a, IF Brackets(a) THEN {"]"} ELSE {":"}, HostEnd(a))
  <2>1. IsFirst(a, IF Brackets(a) THEN {"]"} ELSE {":"}, HostEnd(a))
    BY FirstOfIsFirst DEF HostEnd
  <2>2. HostEnd(a) \in 1..Len(a) + 1
    BY <2>1 DEF IsFirst
  <2>3. Brackets(a) => HostEnd(a) \in 1..Len(a)
    BY <1>1, <2>2
  <2>4. HostEnd(a) + (IF Brackets(a) THEN 1 ELSE 0) \in 1..Len(a) + 1
    BY <2>2, <2>3
  <2> QED  BY <2>1, <2>3, <2>4
<1>3. PICK h, p \in Seq(Chars) : h = Before(a, n) /\ p = From(a, n)
  BY Parts
<1>4. /\ Len(h) = n - 1 /\ \A j \in 1..n - 1 : h[j] = a[j]
      /\ Len(p) = Len(a) + 1 - n /\ \A j \in 1..Len(a) + 1 - n : p[j] = a[n - 1 + j]
  BY <1>3, Parts
<1>5. a = h \o p
  <2>1. PICK k \in 0..Len(a) : n = k + 1 /\ n - 1 = k
    OBVIOUS
  <2>2. 1 \in 1..Len(a) + 1 /\ k \in 1 - 1..Len(a) /\ Len(a) \in k..Len(a)
    BY <2>1
  <2>3. SubSeq(a, 1, k) \o SubSeq(a, k + 1, Len(a)) = SubSeq(a, 1, Len(a))
    BY <2>2, ConcatAdjacentSubSeq, Zenon
  <2>4. SubSeq(a, 1, Len(a)) = a
    BY SubSeqFull
  <2> QED  BY <1>3, <2>1, <2>3, <2>4, Zenon DEF Before, From
<1>6. p = Remainder(a)
  BY <1>2, <1>3 DEF Remainder
<1>7. IsPortPart(p)
  <2>1. CASE p = <<>>
    BY <2>1 DEF IsPortPart
  <2>2. CASE p # <<>>
    <3>1. p[1] = ":" /\ Len(Tail(p)) = 1 /\ Tail(p)[1] \in DOMAIN PortOf
      BY <1>1, <1>6, <2>2 DEF IsPort
    <3>2. Len(p) = 2 /\ p[2] = Tail(p)[1]
      <4>1. Len(Tail(p)) = Len(p) - 1 /\ Len(p) \in Nat
        BY <2>2, HeadTailProperties
      <4>2. Len(p) = 2
        BY <3>1, <4>1
      <4>3. \A i \in 1..Len(Tail(p)) : Tail(p)[i] = p[i + 1]
        BY <2>2, HeadTailProperties
      <4>4. 1 + 1 = 2 /\ \A n2 : n2 = 1 => 1 \in 1..n2
        OBVIOUS
      <4>5. Tail(p)[1] = p[1 + 1]
        BY <3>1, <4>3, <4>4, Zenon
      <4> QED  BY <4>2, <4>4, <4>5
    <3> QED  BY <3>1, <3>2 DEF IsPortPart
  <2> QED  BY <2>1, <2>2
<1>8. IsHost(h)
  <2>1. CASE Brackets(a)
    <3>1. PICK m \in 1..Len(a) : m = HostEnd(a) /\ n = m + 1 /\ a[m] = "]"
      BY <1>2, <2>1 DEF IsFirst
    <3>2. PICK l \in Literals : l = SubSeq(a, 2, m - 1)
      BY <1>1, <2>1, <3>1 DEF Host
    <3>3. l # <<>>
      BY <3>2, LiteralAssumption
    <3>4. m > 2
      <4>1. \A k \in Int : k < 2 => SubSeq(a, 2, k) = <<>>
        OBVIOUS
      <4>2. ~(m - 1 < 2)
        BY <3>2, <3>3, <4>1
      <4> QED  BY <4>2
    <3>5. PICK g : g = <<"[">> \o l \o <<"]">>
      OBVIOUS
    <3>6. /\ g \in Seq(Chars) /\ l \in Seq(Chars) /\ Len(g) = Len(l) + 2
          /\ g[1] = "[" /\ (\A j \in 1..Len(l) : g[j + 1] = l[j]) /\ g[Len(g)] = "]"
      <4>1. FirstOf(g, {"]"}) = Len(g) /\ g \in Seq(Chars) /\ Has(g, {"]"})
        BY <3>5, LiteralHost
      <4>2. IsFirst(g, {"]"}, Len(g)) /\ Len(g) \in Nat /\ Len(g) # 0
        <5>1. IsFirst(g, {"]"}, Len(g))
          BY <4>1, FirstOfIsFirst
        <5>2. Len(g) \in Nat
          BY <4>1
        <5>3. Len(g) # 0
          BY <5>1 DEF IsFirst
        <5> QED  BY <5>1, <5>2, <5>3
      <4>3. g[Len(g)] = "]"
        BY <4>2 DEF IsFirst
      <4> QED  BY <3>5, <4>3, LiteralHost
    <3>7. Len(l) = m - 2 /\ \A j \in 1..m - 2 : l[j] = a[j + 1]
      <4>1. PICK k \in 2..Len(a) : k = m - 1
        BY <3>4
      <4>2. Len(SubSeq(a, 2, k)) = k - 1 /\ \A j \in 1..k - 1 : SubSeq(a, 2, k)[j] = a[j + 1]
        BY <4>1
      <4> QED  BY <3>2, <4>1, <4>2
    <3>8. h = g
      <4>1. Len(h) = m /\ Len(g) = m
        <5>1. Len(g) = (m - 2) + 2
          BY <3>6, <3>7
        <5>2. Len(h) = n - 1 /\ n = m + 1
          BY <1>4, <3>1
        <5> QED  BY <5>1, <5>2
      <4>2. ASSUME NEW j \in 1..m PROVE h[j] = g[j]
        <5>1. h[j] = a[j] /\ a[1] = "["
          <6>1. a[1] = "["
            BY <2>1 DEF Brackets
          <6>2. j \in 1..n - 1
            BY <3>1, <4>2
          <6> QED  BY <1>4, <6>1, <6>2
        <5>2. CASE j = 1 \/ j = m
          BY <3>1, <3>6, <4>1, <5>1, <5>2
        <5>3. CASE j # 1 /\ j # m
          <6>1. PICK i \in 1..m - 2 : i + 1 = j
            <7>1. j - 1 \in 1..m - 2 /\ (j - 1) + 1 = j
              BY <5>3
            <7> QED  BY <7>1
          <6> QED  BY <3>6, <3>7, <5>1, <6>1
        <5> QED  BY <5>2, <5>3
      <4> QED  BY <3>6, <4>1, <4>2, SeqEqual
    <3> QED  BY <3>5, <3>8 DEF IsHost, IsLiteral
  <2>2. CASE ~Brackets(a)
    <3>1. IsFirst(a, {":"}, n) /\ h = Host(a)
      <4>1. HostEnd(a) \in Int /\ n = HostEnd(a) + 0
        BY <1>2, <2>2 DEF IsFirst
      <4>2. n = HostEnd(a)
        BY <4>1
      <4> QED  BY <1>2, <1>3, <2>2, <4>2 DEF Host
    <3>2. h # <<>> /\ h[1] # "["
      <4>1. 1 \in 1..n - 1
        BY <1>1, <1>4, <3>1
      <4> QED  BY <1>1, <1>4, <2>2, <3>1, <4>1 DEF Brackets
    <3>3. ~Has(h, {":", "/", "?", "#", "@"} \cup Escaped)
      <4>1. ASSUME NEW i \in DOMAIN h PROVE h[i] \notin {":", "/", "?", "#", "@"} \cup Escaped
        <5>1. i \in 1..n - 1 /\ i \in 1..Len(a)
          BY <1>4
        <5>2. h[i] = a[i] /\ i \in DOMAIN a
          BY <1>4, <5>1
        <5>3. a[i] # ":"
          BY <3>1, <5>1 DEF IsFirst
        <5> QED  BY <1>1, <5>2, <5>3 DEF Has
      <4> QED  BY <4>1 DEF Has
    <3> QED  BY <3>2, <3>3 DEF IsHost, IsName
  <2> QED  BY <2>1, <2>2
<1> QED  BY <1>3, <1>5, <1>7, <1>8

\* What a part of a text is.
LEMMA PartIs ==
  ASSUME NEW t \in Seq(Chars), NEW i \in 0..Len(t), NEW j \in i..Len(t)
  PROVE  /\ Part(t, i, j) \in Seq(Chars) /\ Len(Part(t, i, j)) = j - i
         /\ \A x \in 1..j - i : Part(t, i, j)[x] = t[i + x]
BY DEF Part

\* Two parts next to each other are one part.
LEMMA PartsJoin ==
  ASSUME NEW t \in Seq(Chars), NEW i \in 0..Len(t), NEW j \in i..Len(t), NEW k \in j..Len(t)
  PROVE  Part(t, i, j) \o Part(t, j, k) = Part(t, i, k)
<1>1. PICK m \in 1..Len(t) + 1 : m = i + 1
  OBVIOUS
<1>2. j \in m - 1..Len(t) /\ k \in j..Len(t)
  BY <1>1
<1>3. SubSeq(t, m, j) \o SubSeq(t, j + 1, k) = SubSeq(t, m, k)
  BY <1>2, ConcatAdjacentSubSeq, Zenon
<1> QED  BY <1>1, <1>3, Zenon DEF Part

\* A part of a part.
LEMMA PartOfPart ==
  ASSUME NEW t \in Seq(Chars), NEW i \in 0..Len(t), NEW j \in i..Len(t),
         NEW x \in 0..j - i, NEW y \in x..j - i
  PROVE  Part(Part(t, i, j), x, y) = Part(t, i + x, i + y)
<1>1. PICK q \in Seq(Chars) : /\ q = Part(t, i, j) /\ Len(q) = j - i
                              /\ \A n \in 1..j - i : q[n] = t[i + n]
  BY PartIs
<1>2. PICK l \in Seq(Chars) : /\ l = Part(q, x, y) /\ Len(l) = y - x
                              /\ \A n \in 1..y - x : l[n] = q[x + n]
  <2>1. x \in 0..Len(q) /\ y \in x..Len(q)
    BY <1>1
  <2> QED  BY <2>1, PartIs
<1>3. PICK u \in 0..Len(t) : u = i + x
  OBVIOUS
<1>4. PICK v \in u..Len(t) : v = i + y
  BY <1>3
<1>5. PICK r \in Seq(Chars) : /\ r = Part(t, u, v) /\ Len(r) = v - u
                              /\ \A n \in 1..v - u : r[n] = t[u + n]
  BY PartIs
<1>6. Len(l) = Len(r)
  BY <1>2, <1>3, <1>4, <1>5
<1>7. ASSUME NEW n \in 1..Len(l) PROVE l[n] = r[n]
  <2>1. n \in 1..y - x /\ x + n \in 1..j - i /\ n \in 1..v - u /\ i + (x + n) = u + n
    BY <1>2, <1>3, <1>4
  <2> QED  BY <1>1, <1>2, <1>5, <2>1
<1>8. l = r
  BY <1>6, <1>7, SeqEqual
<1> QED  BY <1>1, <1>2, <1>3, <1>4, <1>5, <1>8, Zenon

\* A path is put in where there is none.
LEMMA PathIsTarget ==
  ASSUME NEW r \in Seq(Chars)
  PROVE  WithPath(r) = Target(r) /\ (IsPrefix(<<"/">>, r) <=> r # <<>> /\ r[1] = "/")
<1>1. IsPrefix(<<"/">>, r) <=> r # <<>> /\ r[1] = "/"
  <2>1. Len(<<"/">>) = 1 /\ SubSeq(<<"/">>, 1, 1) = <<"/">>
    <3>1. <<"/">> \in Seq({"/"}) /\ Len(<<"/">>) = 1
      OBVIOUS
    <3>2. SubSeq(<<"/">>, 1, Len(<<"/">>)) = <<"/">>
      BY <3>1, SubSeqFull, Zenon
    <3> QED  BY <3>1, <3>2, Zenon
  <2>2. CASE r = <<>>
    BY <2>1, <2>2 DEF IsPrefix
  <2>3. CASE r # <<>>
    <3>1. 1 <= Len(r) /\ SubSeq(r, 1, 1) = <<r[1]>>
      <4>1. PICK n \in 1..Len(r) : n = 1
        BY <2>3
      <4>2. /\ SubSeq(r, 1, n) \in Seq(Chars) /\ Len(SubSeq(r, 1, n)) = 1
            /\ SubSeq(r, 1, n)[1] = r[1]
        BY <4>1
      <4>3. \A q \in Seq(Chars) : Len(q) = 1 => q = <<q[1]>>
        OBVIOUS
      <4>4. SubSeq(r, 1, n) = <<r[1]>>
        BY <4>2, <4>3
      <4>5. 1 <= Len(r)
        BY <4>1
      <4> QED  BY <4>1, <4>4, <4>5, Zenon
    <3>2. <<"/">> = <<r[1]>> <=> r[1] = "/"
      OBVIOUS
    <3> QED  BY <2>1, <2>3, <3>1, <3>2 DEF IsPrefix
  <2> QED  BY <2>2, <2>3
<1> QED  BY <1>1 DEF WithPath, Target

\* The target that stands behind an authority is where Parse looks for one.
LEMMA TargetBehind ==
  ASSUME NEW a \in Seq(Chars), NEW r \in Seq(Chars), ~Has(a, {"/", "?", "#"}),
         r = <<>> \/ r[1] \in Server
  PROVE  Authority(a \o r) = a /\ TargetOf(a \o r) = WithPath(r)
<1>1. ~Has(a, Server)
  BY DEF Has, Server
<1>2. PICK text \in Seq(Chars) : text = a \o r
  BY Behind
<1>3. End(text) = Len(a) + 1
  <2>1. CASE r = <<>>
    <3>1. text = a
      BY <1>2, <2>1
    <3>2. FirstOf(a, Server) \in 1..Len(a) + 1 /\ ~(FirstOf(a, Server) <= Len(a))
      BY <1>1, FirstOfIsFirst, HasFirst DEF IsFirst
    <3> QED  BY <3>1, <3>2 DEF End
  <2>2. CASE r # <<>>
    <3>1. r[1] \in Server
      BY <2>2
    <3> QED  BY <1>1, <1>2, <2>2, <3>1, FirstBehind DEF End
  <2> QED  BY <2>1, <2>2
<1>4. Authority(text) = a /\ TargetOf(text) = Target(r)
  BY <1>2, <1>3, PartsOfTwo, Zenon DEF Authority, TargetOf
<1> QED  BY <1>2, <1>4, PathIsTarget

\* Where the grammar ends the host and the port, Parse does.
LEMMA ParseJoined ==
  ASSUME NEW h \in Seq(Chars), NEW p \in Seq(Chars), NEW r \in Seq(Chars),
         IsHost(h), IsPortPart(p), IsTarget(r)
  PROVE  ParseText((h \o p) \o r)
           = Accepted(UrlOf(HostText(h), IsLiteral(h), PortOfText(p), WithPath(r)))
<1>1. PICK a \in Seq(Chars) : a = h \o p
  BY Behind
<1>2. /\ AuthorityError(a) = "none" /\ Brackets(a) = IsLiteral(h) /\ Host(a) = HostText(h)
      /\ PortIn(a) = PortOfText(p) /\ ~Has(a, {"/", "?", "#"})
  BY <1>1, AuthorityOf
<1>3. r = <<>> \/ r[1] \in Server
  BY DEF IsTarget, Server
<1>4. PICK text \in Seq(Chars) : text = a \o r
  BY Behind
<1>5. Authority(text) = a /\ TargetOf(text) = WithPath(r)
  BY <1>2, <1>3, <1>4, TargetBehind
<1>6. ~Has(WithPath(r), BadEscapes)
  <2>1. ~Has(r, BadEscapes)
    BY DEF IsTarget, Has
  <2>2. "/" \in Chars /\ "/" \notin BadEscapes
    BY DelimitersPlain DEF Delimiters
  <2>3. ~Has(<<"/">>, BadEscapes)
    BY <2>2 DEF Has
  <2>4. <<"/">> \in Seq(Chars)
    BY <2>2
  <2>5. ~Has(<<"/">> \o r, BadEscapes)
    BY <2>1, <2>3, <2>4, HasJoined
  <2> QED  BY <2>1, <2>5 DEF WithPath
<1>7. ParseText(text) = Accepted(UrlOf(Host(a), Brackets(a), PortIn(a), WithPath(r)))
  BY <1>2, <1>5, <1>6, Zenon DEF ParseText
<1> QED  BY <1>1, <1>2, <1>4, <1>7, Zenon

\* A text that starts as the grammar starts it.
StartsHttp(t) == Len(t) >= 4 /\ t[1] \in Http /\ Part(t, 1, 4) = Separator /\ ~Has(t, Forbidden)

\* The texts that the grammar reads start as those that Parse takes.
LEMMA StartIsHttp ==
  ASSUME NEW t \in Seq(Chars)
  PROVE  StartsHttp(t) <=> IsHttp(t)
<1>1. SUFFICES ASSUME Len(t) >= 4
               PROVE  Part(t, 1, 4) = Separator <=> t[2] = ":" /\ t[3] = "/" /\ t[4] = "/"
  BY DEF StartsHttp, IsHttp
<1>2. PICK q \in Seq(Chars) : /\ q = Part(t, 1, 4) /\ Len(q) = 3
                              /\ q[1] = t[2] /\ q[2] = t[3] /\ q[3] = t[4]
  <2>1. PICK i \in 0..Len(t) : i = 1
    BY <1>1
  <2>2. PICK j \in i..Len(t) : j = 4
    BY <1>1, <2>1
  <2>3. /\ Part(t, i, j) \in Seq(Chars) /\ Len(Part(t, i, j)) = j - i
        /\ \A x \in 1..j - i : Part(t, i, j)[x] = t[i + x]
    BY PartIs
  <2> QED  BY <2>1, <2>2, <2>3
<1>3. q = Separator <=> q[1] = ":" /\ q[2] = "/" /\ q[3] = "/"
  <2>1. q[1] = ":" /\ q[2] = "/" /\ q[3] = "/" => q = Separator
    BY <1>2, SeparatorTokens, SeqEqual
  <2> QED  BY <2>1, SeparatorTokens
<1> QED  BY <1>2, <1>3

\* Every way to read a text is the one that Parse finds.
LEMMA CutParses ==
  ASSUME NEW t \in Seq(Chars), StartsHttp(t),
         NEW i \in 4..Len(t), NEW j \in 4..Len(t), NEW k \in 4..Len(t), Cut(t, i, j, k)
  PROVE  /\ Parse(t) = Accepted(Reading(t, i, j, k))
         /\ Parse(t) = Accepted(UrlOf(HostText(Part(t, 4, i)), IsLiteral(Part(t, 4, i)),
                                      PortOfText(Part(t, i, j)), WithPath(Part(t, j, k))))
<1>1. IsHttp(t) /\ Len(t) \in Nat
  BY StartIsHttp
<1>2. j \in i..Len(t) /\ k \in j..Len(t) /\ k \in i..Len(t) /\ i <= j /\ j <= k
  BY DEF Cut
<1>3. PICK h \in Seq(Chars) : /\ h = Part(t, 4, i) /\ Len(h) = i - 4
                              /\ \A x \in 1..i - 4 : h[x] = t[4 + x]
  <2>1. 4 \in 0..Len(t)
    BY <1>1
  <2> QED  BY <2>1, PartIs
<1>4. PICK p \in Seq(Chars) : /\ p = Part(t, i, j) /\ Len(p) = j - i
                              /\ \A x \in 1..j - i : p[x] = t[i + x]
  <2>1. i \in 0..Len(t) /\ j \in i..Len(t)
    BY <1>1, <1>2
  <2>2. /\ Part(t, i, j) \in Seq(Chars) /\ Len(Part(t, i, j)) = j - i
        /\ \A x \in 1..j - i : Part(t, i, j)[x] = t[i + x]
    BY <2>1, PartIs
  <2> QED  BY <2>2
<1>5. PICK r \in Seq(Chars) : /\ r = Part(t, j, k) /\ Len(r) = k - j
                              /\ \A x \in 1..k - j : r[x] = t[j + x]
  <2>1. j \in 0..Len(t) /\ k \in j..Len(t)
    BY <1>1, <1>2
  <2>2. /\ Part(t, j, k) \in Seq(Chars) /\ Len(Part(t, j, k)) = k - j
        /\ \A x \in 1..k - j : Part(t, j, k)[x] = t[j + x]
    BY <2>1, PartIs
  <2> QED  BY <2>2
<1>6. PICK f \in Seq(Chars) : /\ f = Part(t, k, Len(t)) /\ Len(f) = Len(t) - k
                              /\ \A x \in 1..Len(t) - k : f[x] = t[k + x]
  <2>1. k \in 0..Len(t) /\ Len(t) \in k..Len(t)
    BY <1>1
  <2> QED  BY <2>1, PartIs
<1>7. IsHost(h) /\ IsPortPart(p) /\ IsTarget(r) /\ IsFragment(f)
  BY <1>3, <1>4, <1>5, <1>6 DEF Cut, IsHost
<1>8. ~Has(h, {"#"}) /\ ~Has(p, {"#"}) /\ ~Has(r, {"#"})
  <2>1. ~Has(h \o p, {"/", "?", "#"})
    BY <1>7, AuthorityOf
  <2>2. ~Has(h \o p, {"#"})
    BY <2>1 DEF Has
  <2>3. ~Has(r, {"#"})
    BY <1>7 DEF IsTarget, Has
  <2> QED  BY <2>2, <2>3, HasJoined
<1>9. IsFirst(t, {"#"}, k + 1)
  <2>1. k + 1 \in 1..Len(t) + 1 /\ k + 1 - 1 = k
    BY <1>1, <1>2
  <2>2. ASSUME NEW x \in 1..k PROVE t[x] # "#"
    <3>1. CASE x \in 1..4
      BY <1>1, <3>1 DEF IsHttp, Http
    <3>2. CASE x \in 5..i
      <4>1. x - 4 \in 1..i - 4 /\ 4 + (x - 4) = x /\ x - 4 \in DOMAIN h
        BY <1>3, <3>2
      <4> QED  BY <1>3, <1>8, <4>1 DEF Has
    <3>3. CASE x \in i + 1..j
      <4>1. x - i \in 1..j - i /\ i + (x - i) = x /\ x - i \in DOMAIN p
        BY <1>4, <3>3
      <4> QED  BY <1>4, <1>8, <4>1 DEF Has
    <3>4. CASE x \in j + 1..k
      <4>1. x - j \in 1..k - j /\ j + (x - j) = x /\ x - j \in DOMAIN r
        BY <1>5, <3>4
      <4> QED  BY <1>5, <1>8, <4>1 DEF Has
    <3> QED  BY <3>1, <3>2, <3>3, <3>4
  <2>3. ASSUME k + 1 \in 1..Len(t) PROVE t[k + 1] = "#"
    <3>1. 1 \in 1..Len(t) - k /\ f # <<>>
      BY <1>6, <2>3
    <3> QED  BY <1>6, <1>7, <3>1 DEF IsFragment
  <2> QED  BY <2>1, <2>2, <2>3 DEF IsFirst
<1>10. NoFragment(t) = Part(t, 0, k)
  <2>1. FirstOf(t, {"#"}) - 1 = k /\ 0 + 1 = 1
    BY <1>1, <1>9, OneFirst
  <2> QED  BY <2>1, Zenon DEF NoFragment, Before, Part
<1>11. From(NoFragment(t), 5) = Part(t, 4, k)
  <2>1. Len(Part(t, 0, k)) = k
    <3>1. 0 \in 0..Len(t) /\ k \in 0..Len(t) /\ k - 0 = k
      BY <1>1
    <3> QED  BY <3>1, PartIs
  <2>2. Part(Part(t, 0, k), 4, k) = Part(t, 0 + 4, 0 + k)
    <3>1. 0 \in 0..Len(t) /\ k \in 0..Len(t) /\ 4 \in 0..k - 0 /\ k \in 4..k - 0
      BY <1>1
    <3> QED  BY <3>1, PartOfPart
  <2>3. 0 + 4 = 4 /\ 0 + k = k /\ 4 + 1 = 5
    OBVIOUS
  <2> QED  BY <1>10, <2>1, <2>2, <2>3, Zenon DEF From, Part
<1>12. Part(t, 4, k) = (h \o p) \o r
  <2>1. 4 \in 0..Len(t) /\ i \in 4..Len(t) /\ j \in 4..Len(t)
    BY <1>1
  <2>2. h \o p = Part(t, 4, j)
    BY <1>2, <1>3, <1>4, <2>1, PartsJoin
  <2>3. Part(t, 4, j) \o r = Part(t, 4, k)
    BY <1>2, <1>5, <2>1, PartsJoin
  <2> QED  BY <2>2, <2>3
<1>13. Parse(t) = Accepted(UrlOf(HostText(h), IsLiteral(h), PortOfText(p), WithPath(r)))
  <2>1. Parse(t) = ParseText((h \o p) \o r)
    BY <1>1, <1>11, <1>12, ParseHttp
  <2> QED  BY <1>7, <2>1, ParseJoined
<1>14. IsLiteral(h) => HostText(h) = Part(t, 5, i - 1)
  <2>1. SUFFICES ASSUME IsLiteral(h) PROVE HostText(h) = Part(t, 5, i - 1)
    OBVIOUS
  <2>2. Len(h) >= 2
    <3>1. PICK l \in Literals : h = <<"[">> \o l \o <<"]">>
      BY <2>1 DEF IsLiteral
    <3>2. Len(h) = Len(l) + 2 /\ l \in Seq(Chars)
      BY <3>1, LiteralHost
    <3> QED  BY <3>2
  <2>3. Part(h, 1, i - 5) = Part(t, 4 + 1, 4 + (i - 5))
    <3>1. 4 \in 0..Len(t) /\ i \in 4..Len(t) /\ 1 \in 0..i - 4 /\ i - 5 \in 1..i - 4
      BY <1>1, <1>3, <2>2
    <3> QED  BY <1>3, <3>1, PartOfPart
  <2>4. 1 + 1 = 2 /\ i - 5 = Len(h) - 1 /\ 4 + 1 = 5 /\ 4 + (i - 5) = i - 1
    BY <1>3
  <2> QED  BY <2>1, <2>3, <2>4, Zenon DEF HostText, Part
<1>15. Reading(t, i, j, k)
         = UrlOf(IF IsLiteral(h) THEN Part(t, 5, i - 1) ELSE h, IsLiteral(h),
                 PortOfText(p), WithPath(r))
  BY <1>3, <1>4, <1>5, Zenon DEF Reading
<1>16. HostText(h) = IF IsLiteral(h) THEN Part(t, 5, i - 1) ELSE h
  BY <1>14 DEF HostText
<1> QED  BY <1>3, <1>4, <1>5, <1>13, <1>15, <1>16, Zenon

\* What Parse takes can be read.
LEMMA ParsedHasCut ==
  ASSUME NEW t \in Seq(Chars), Parse(t).error = "none"
  PROVE  StartsHttp(t) /\ \E i, j, k \in 4..Len(t) : Cut(t, i, j, k)
<1>1. IsHttp(t) /\ StartsHttp(t)
  BY ParsedIsHttp, StartIsHttp
<1>2. PICK n \in 1..Len(t) + 1 :
        n = FirstOf(t, {"#"}) /\ IsFirst(t, {"#"}, n)
  BY FirstOfIsFirst DEF IsFirst
<1>3. PICK k \in 4..Len(t) : n = k + 1 /\ k = n - 1
  <2>1. Len(t) >= 4 /\ t[1] # "#" /\ t[2] # "#" /\ t[3] # "#" /\ t[4] # "#"
    BY <1>1 DEF IsHttp, Http
  <2>2. n \in 1..Len(t) => t[n] = "#"
    BY <1>2 DEF IsFirst
  <2>3. n > 4
    BY <2>1, <2>2
  <2> QED  BY <2>3
<1>4. NoFragment(t) = Part(t, 0, k)
  BY <1>2, <1>3 DEF NoFragment, Before, Part
<1>5. PICK text \in Seq(Chars) : /\ text = From(NoFragment(t), 5) /\ text = Part(t, 4, k)
                                 /\ Len(text) = k - 4
                                 /\ \A x \in 1..k - 4 : text[x] = t[4 + x]
  <2>1. 0 \in 0..Len(t) /\ k \in 0..Len(t) /\ k - 0 = k /\ 4 \in 0..Len(t)
        /\ 4 \in 0..k - 0 /\ k \in 4..k - 0
    OBVIOUS
  <2>2. Len(Part(t, 0, k)) = k /\ Part(Part(t, 0, k), 4, k) = Part(t, 0 + 4, 0 + k)
    BY <2>1, PartIs, PartOfPart
  <2>3. 0 + 4 = 4 /\ 0 + k = k /\ 4 + 1 = 5
    OBVIOUS
  <2>4. From(NoFragment(t), 5) = Part(t, 4, k)
    BY <1>4, <2>2, <2>3, Zenon DEF From, Part
  <2> QED  BY <2>1, <2>4, PartIs
<1>6. ParseText(text).error = "none"
  BY <1>1, <1>5, ParseHttp
<1>7. AuthorityError(Authority(text)) = "none" /\ ~Has(TargetOf(text), BadEscapes)
  <2>1. \A e : e # "none" => Rejected(e).error # "none"
    BY DEF Rejected
  <2>2. Rejected("InvalidUrl").error # "none"
    BY <2>1
  <2> QED  BY <1>6, <2>1, <2>2, Zenon DEF ParseText
<1>8. PICK e \in 1..Len(text) + 1 : e = End(text) /\ IsFirst(text, Server, e)
  BY FirstOfIsFirst DEF IsFirst, End
<1>9. PICK a \in Seq(Chars) : /\ a = Authority(text) /\ Len(a) = e - 1
                              /\ \A x \in 1..e - 1 : a[x] = text[x]
  BY <1>8, Parts DEF Authority
<1>10. \A x \in 1..k - 4 : text[x] # "#"
  <2> TAKE x \in 1..k - 4
  <2>1. 4 + x \in 1..n - 1
    BY <1>3
  <2> QED  BY <1>2, <1>5, <2>1 DEF IsFirst
<1>11. ~Has(a, {"/", "?", "#"})
  <2>1. ASSUME NEW x \in DOMAIN a PROVE a[x] \notin {"/", "?", "#"}
    <3>1. x \in 1..e - 1 /\ x \in 1..k - 4
      <4>1. x \in 1..e - 1
        BY <1>9
      <4>2. e - 1 <= k - 4
        BY <1>5, <1>8
      <4> QED  BY <4>1, <4>2
    <3> QED  BY <1>8, <1>9, <1>10, <3>1 DEF IsFirst, Server
  <2> QED  BY <2>1 DEF Has
<1>12. PICK h, p \in Seq(Chars) : a = h \o p /\ IsHost(h) /\ IsPortPart(p)
  BY <1>7, <1>9, <1>11, AuthoritySplits
<1>13. /\ Len(a) = Len(h) + Len(p) /\ Len(h) \in Nat /\ Len(p) \in Nat
       /\ \A x \in 1..Len(h) : a[x] = h[x]
       /\ \A x \in 1..Len(p) : a[Len(h) + x] = p[x]
  BY <1>12, Behind
<1>14. PICK i \in 4..k : i = 4 + Len(h)
  BY <1>5, <1>8, <1>9, <1>13
<1>15. PICK j \in i..k : j = 4 + Len(a) /\ j = i + Len(p)
  <2>1. Len(h) + Len(p) <= k - 4 /\ Len(h) \in Nat /\ Len(p) \in Nat
    <3>1. e - 1 <= k - 4
      BY <1>5, <1>8
    <3> QED  BY <1>9, <1>13, <3>1
  <2>2. 4 + Len(a) = i + Len(p)
    BY <1>13, <1>14
  <2>3. i + Len(p) \in i..k
    BY <1>14, <2>1
  <2> QED  BY <2>2, <2>3
<1>16. Part(t, 4, i) = h
  <2>1. 4 \in 0..Len(t) /\ i \in 4..Len(t)
    OBVIOUS
  <2>2. PICK q \in Seq(Chars) : /\ q = Part(t, 4, i) /\ Len(q) = i - 4
                                /\ \A x \in 1..i - 4 : q[x] = t[4 + x]
    BY <2>1, PartIs
  <2>3. ASSUME NEW x \in 1..Len(q) PROVE q[x] = h[x]
    <3>1. x \in 1..Len(h) /\ x \in 1..e - 1 /\ x \in 1..k - 4
      <4>1. Len(q) = i - 4 /\ i - 4 = Len(h)
        BY <1>13, <1>14, <2>2
      <4>2. Len(h) <= e - 1
        BY <1>9, <1>13
      <4>3. e - 1 <= k - 4
        BY <1>5, <1>8
      <4>4. x \in 1..Len(h)
        BY <4>1
      <4> QED  BY <1>13, <4>2, <4>3, <4>4
    <3> QED  BY <1>5, <1>9, <1>13, <2>2, <3>1
  <2>4. Len(q) = Len(h)
    BY <1>14, <2>2
  <2>5. q = h
    BY <2>3, <2>4, SeqEqual
  <2> QED  BY <2>2, <2>5
<1>17. Part(t, i, j) = p
  <2>1. i \in 0..Len(t) /\ j \in i..Len(t)
    OBVIOUS
  <2>2. PICK q \in Seq(Chars) : /\ q = Part(t, i, j) /\ Len(q) = j - i
                                /\ \A x \in 1..j - i : q[x] = t[i + x]
    BY <2>1, PartIs
  <2>3. ASSUME NEW x \in 1..Len(q) PROVE q[x] = p[x]
    <3>1. x \in 1..Len(p) /\ x \in 1..j - i
      BY <1>15, <2>2
    <3>2. PICK y \in 1..e - 1 : y = Len(h) + x
      BY <1>9, <1>13, <3>1
    <3>3. y \in 1..k - 4 /\ 4 + y = i + x
      <4>1. e - 1 <= k - 4
        BY <1>5, <1>8
      <4>2. 4 + (Len(h) + x) = (4 + Len(h)) + x
        BY <1>13, <3>1
      <4>3. y \in 1..k - 4
        BY <3>2, <4>1
      <4> QED  BY <1>14, <3>2, <4>2, <4>3
    <3> QED  BY <1>5, <1>9, <1>13, <2>2, <3>1, <3>2, <3>3
  <2>4. Len(q) = Len(p)
    BY <1>15, <2>2
  <2>5. q = p
    BY <2>3, <2>4, SeqEqual
  <2> QED  BY <2>2, <2>5
<1>18. PICK r \in Seq(Chars) : /\ r = Part(t, j, k) /\ Len(r) = k - j
                               /\ \A x \in 1..k - j : r[x] = t[j + x]
  <2>1. j \in 0..Len(t) /\ k \in j..Len(t)
    OBVIOUS
  <2> QED  BY <2>1, PartIs
<1>19. r = From(text, e)
  <2>1. PICK q \in Seq(Chars) : /\ q = From(text, e) /\ Len(q) = Len(text) + 1 - e
                                /\ \A x \in 1..Len(text) + 1 - e : q[x] = text[e - 1 + x]
    BY <1>8, Parts
  <2>2. Len(q) = Len(r)
    <3>1. j = 4 + (e - 1) /\ Len(text) = k - 4
      BY <1>5, <1>9, <1>15
    <3>2. e \in Int /\ j \in Int /\ k \in Int
      BY <1>8
    <3>3. k - j = (k - 4) + 1 - e
      BY <3>1, <3>2
    <3> QED  BY <1>18, <2>1, <3>1, <3>3
  <2>3. ASSUME NEW x \in 1..Len(r) PROVE r[x] = q[x]
    <3>1. x \in 1..k - j /\ x \in 1..Len(text) + 1 - e
      BY <1>18, <2>1, <2>2
    <3>2. PICK y \in 1..k - 4 : y = e - 1 + x /\ 4 + y = j + x
      <4>1. e - 1 + x \in 1..k - 4 /\ 4 + (e - 1 + x) = j + x
        BY <1>5, <1>9, <1>15, <3>1
      <4> QED  BY <4>1
    <3> QED  BY <1>5, <1>18, <2>1, <3>1, <3>2
  <2>4. r = q
    BY <2>2, <2>3, SeqEqual
  <2> QED  BY <2>1, <2>4
<1>20. IsTarget(r)
  <2>1. ASSUME r # <<>> PROVE r[1] \in {"/", "?"}
    <3>1. 1 \in 1..k - j /\ e \in 1..Len(text) /\ e \in 1..k - 4 /\ 4 + e = j + 1
      <4>1. k - j \in Nat \ {0}
        BY <1>18, <2>1
      <4>2. j = 4 + (e - 1) /\ Len(text) = k - 4
        BY <1>5, <1>9, <1>15
      <4>3. e \in Int /\ j \in Int /\ k \in Int /\ e >= 1
        BY <1>8
      <4>4. 4 + e = j + 1 /\ e <= k - 4 /\ 1 <= k - j
        BY <4>1, <4>2, <4>3
      <4> QED  BY <4>2, <4>3, <4>4
    <3>2. text[e] \in Server
      BY <1>8, <3>1 DEF IsFirst
    <3> QED  BY <1>5, <1>18, <3>1, <3>2 DEF Server
  <2>2. ~Has(r, BadEscapes)
    <3>1. TargetOf(text) = Target(r)
      BY <1>8, <1>19 DEF TargetOf
    <3>2. "/" \in Chars
      BY DelimitersPlain DEF Delimiters
    <3>3. <<"/">> \in Seq(Chars)
      BY <3>2
    <3>4. Has(r, BadEscapes) => Has(<<"/">> \o r, BadEscapes)
      BY <3>3, HasJoined
    <3> QED  BY <1>7, <3>1, <3>4 DEF Target
  <2>3. ~Has(r, {"#"} \cup BadEscapes)
    <3>1. ASSUME NEW x \in DOMAIN r PROVE r[x] # "#"
      <4>1. x \in 1..k - j
        BY <1>18
      <4>2. j + x \in 1..k /\ k = n - 1
        BY <1>3, <4>1
      <4> QED  BY <1>2, <1>18, <4>1, <4>2 DEF IsFirst
    <3> QED  BY <2>2, <3>1 DEF Has
  <2> QED  BY <2>1, <2>3 DEF IsTarget
<1>21. IsFragment(Part(t, k, Len(t)))
  <2>1. k \in 0..Len(t) /\ Len(t) \in k..Len(t)
    OBVIOUS
  <2>2. PICK f \in Seq(Chars) : /\ f = Part(t, k, Len(t)) /\ Len(f) = Len(t) - k
                                /\ \A x \in 1..Len(t) - k : f[x] = t[k + x]
    BY <2>1, PartIs
  <2>3. ASSUME f # <<>> PROVE f[1] = "#"
    <3>1. 1 \in 1..Len(t) - k /\ n \in 1..Len(t)
      BY <1>3, <2>2, <2>3
    <3> QED  BY <1>2, <1>3, <2>2, <3>1 DEF IsFirst
  <2> QED  BY <2>2, <2>3 DEF IsFragment
<1>22. Cut(t, i, j, k)
  <2>1. IsLiteral(h) \/ IsName(h)
    BY <1>12 DEF IsHost
  <2>2. i <= j /\ j <= k
    OBVIOUS
  <2> QED  BY <1>12, <1>16, <1>17, <1>18, <1>20, <1>21, <2>1, <2>2, Zenon DEF Cut
<1>23. i \in 4..Len(t) /\ j \in 4..Len(t)
  OBVIOUS
<1> QED  BY <1>1, <1>22, <1>23

\* Parse and the grammar agree on every text.
LEMMA ParseIsGrammar ==
  ASSUME NEW t \in Seq(Chars)
  PROVE  Readings(t) = IF Parse(t).error = "none" THEN {Parse(t).url} ELSE {}
<1> DEFINE places == 4..Len(t)
           cuts   == {c \in places \X places \X places : Cut(t, c[1], c[2], c[3])}
<1>1. Readings(t) = IF ~StartsHttp(t) THEN {} ELSE {Reading(t, c[1], c[2], c[3]) : c \in cuts}
  <2>1. Len(t) < 4 <=> ~(Len(t) >= 4)
    OBVIOUS
  <2> QED  BY <2>1, Zenon DEF Readings, StartsHttp
<1>2. \A c \in cuts : /\ c[1] \in places /\ c[2] \in places /\ c[3] \in places
                      /\ Cut(t, c[1], c[2], c[3])
  OBVIOUS
<1>3. \A c \in cuts : StartsHttp(t) => Parse(t) = Accepted(Reading(t, c[1], c[2], c[3]))
  BY <1>2, CutParses
<1>4. ASSUME NEW u PROVE Accepted(u).error = "none" /\ Accepted(u).url = u
  BY DEF Accepted
<1>5. CASE Parse(t).error = "none"
  <2>1. StartsHttp(t) /\ \E i, j, k \in places : Cut(t, i, j, k)
    BY <1>5, ParsedHasCut
  <2>2. PICK i, j, k \in places : Cut(t, i, j, k)
    BY <2>1
  <2>3. <<i, j, k>> \in cuts
    BY <2>2
  <2> HIDE DEF cuts
  <2>4. \A c \in cuts : Reading(t, c[1], c[2], c[3]) = Parse(t).url
    BY <1>3, <1>4, <2>1
  <2> QED  BY <1>1, <1>5, <2>1, <2>3, <2>4
<1>6. CASE Parse(t).error # "none"
  <2> HIDE DEF cuts
  <2>1. ~StartsHttp(t) \/ cuts = {}
    BY <1>3, <1>4, <1>6
  <2> QED  BY <1>1, <1>6, <2>1
<1> QED  BY <1>5, <1>6

-------------------------------------------------------------------------------
(* Paths, and the two ways to remove their dot segments.                   *)

\* The last slash of a text.
LEMMA LastSlashIs ==
  ASSUME NEW t \in Seq(Chars), NEW n \in 1..Len(t), t[n] = "/",
         \A j \in n + 1..Len(t) : t[j] # "/"
  PROVE  LastSlash(t) = n
<1> DEFINE I == {i \in 1..Len(t) : t[i] = "/"}
           greatest == CHOOSE x \in I : \A y \in I : x >= y
<1>1. LastSlash(t) = IF I # {} THEN greatest ELSE 0
  BY Zenon DEF LastSlash, SelectLastInSeq, Max
<1>2. n \in I /\ \A y \in I : n >= y
  OBVIOUS
<1>3. greatest \in I /\ \A y \in I : greatest >= y
  BY <1>2
<1>4. I \subseteq Nat
  OBVIOUS
<1> HIDE DEF greatest, I
<1>5. greatest = n
  BY <1>2, <1>3, <1>4
<1> QED  BY <1>1, <1>2, <1>5

\* A text without a slash.
LEMMA NoLastSlash ==
  ASSUME NEW t, ~Has(t, {"/"}), DOMAIN t = 1..Len(t)
  PROVE  LastSlash(t) = 0
<1> DEFINE I == {i \in 1..Len(t) : t[i] = "/"}
<1>1. I = {}
  BY DEF Has
<1> QED  BY <1>1 DEF LastSlash, SelectLastInSeq

\* A text with a slash has a last one.
LEMMA HasLastSlash ==
  ASSUME NEW t \in Seq(Chars), NEW i \in 1..Len(t), t[i] = "/"
  PROVE  LastSlash(t) \in 1..Len(t)
<1> DEFINE T == {x \in 0..Len(t) : Len(t) - x \in 1..Len(t) /\ t[Len(t) - x] = "/"}
<1>1. Len(t) - i \in T /\ T \in SUBSET Nat
  <2>1. Len(t) - (Len(t) - i) = i /\ Len(t) - i \in 0..Len(t)
    OBVIOUS
  <2> QED  BY <2>1
<1>2. PICK x \in T : \A y \in T : x <= y
  BY <1>1, LeastNatural
<1>3. PICK n \in 1..Len(t) : n = Len(t) - x /\ t[n] = "/"
  BY <1>2
<1>4. ASSUME NEW j \in n + 1..Len(t) PROVE t[j] # "/"
  <2>1. Len(t) - (Len(t) - j) = j /\ Len(t) - j \in 0..Len(t) /\ Len(t) - j < x /\ j \in 1..Len(t)
    BY <1>3
  <2> QED  BY <1>2, <2>1
<1> QED  BY <1>3, <1>4, LastSlashIs

\* The last slash of a text is the one in front of what has none.
LEMMA SlashInFront ==
  ASSUME NEW s \in Seq(Chars), NEW w \in Seq(Chars), ~Has(w, {"/"})
  PROVE  /\ LastSlash((s \o <<"/">>) \o w) = Len(s) + 1
         /\ Before((s \o <<"/">>) \o w, Len(s) + 1) = s
         /\ From((s \o <<"/">>) \o w, (Len(s) + 1) + 1) = w
<1>1. "/" \in Chars
  BY DelimitersPlain DEF Delimiters
<1>2. PICK m \in Seq(Chars) : m = <<"/">> /\ Len(m) = 1 /\ m[1] = "/"
  <2>1. <<"/">> \in Seq(Chars) /\ Len(<<"/">>) = 1 /\ <<"/">>[1] = "/"
    BY <1>1
  <2> QED  BY <2>1
<1>3. PICK b \in Seq(Chars) : b = s \o m
  BY Behind
<1>4. Len(b) = Len(s) + 1 /\ b[Len(s) + 1] = "/"
  <2>1. Len(s \o m) = Len(s) + Len(m) /\ \A j \in 1..Len(m) : (s \o m)[Len(s) + j] = m[j]
    BY Behind
  <2>2. 1 \in 1..Len(m)
    BY <1>2
  <2> QED  BY <1>2, <1>3, <2>1, <2>2
<1>5. PICK c \in Seq(Chars) : c = b \o w
  BY Behind
<1>6. /\ Len(c) = Len(b) + Len(w) /\ \A j \in 1..Len(b) : c[j] = b[j]
      /\ \A j \in 1..Len(w) : c[Len(b) + j] = w[j]
  BY <1>5, Behind
<1>7. PICK n \in Nat : n = Len(s) + 1
  OBVIOUS
<1>8. n \in 1..Len(c) /\ c[n] = "/"
  <2>1. n \in 1..Len(b) /\ Len(b) <= Len(c)
    BY <1>4, <1>6, <1>7
  <2> QED  BY <1>4, <1>6, <1>7, <2>1
<1>9. \A j \in n + 1..Len(c) : c[j] # "/"
  <2> TAKE j \in n + 1..Len(c)
  <2>1. PICK x \in 1..Len(w) : j = Len(b) + x
    <3>1. j - Len(b) \in 1..Len(w) /\ j = Len(b) + (j - Len(b))
      BY <1>4, <1>6, <1>7
    <3> QED  BY <3>1
  <2>2. x \in DOMAIN w
    OBVIOUS
  <2> QED  BY <1>6, <2>1, <2>2 DEF Has
<1>10. LastSlash(c) = n
  BY <1>8, <1>9, LastSlashIs
<1>11. c = s \o (m \o w) /\ m \o w \in Seq(Chars)
  BY <1>3, <1>5
<1>12. Before(c, n) = s
  BY <1>7, <1>11, PartsOfTwo
<1>13. From(c, n + 1) = w
  BY <1>4, <1>5, <1>7, PartsOfTwo
<1> QED  BY <1>2, <1>3, <1>5, <1>7, <1>10, <1>12, <1>13

\* The segments of paths.
Segments(C) == {s \in Seq(C) : ~Has(s, {"/"})}

\* The first segment of a path, and what follows it.
LEMMA SegmentIs ==
  ASSUME NEW C \in SUBSET Chars, NEW t \in Seq(C), t # <<>>
  PROVE  /\ Segment(t) \in Segments(C) /\ Rest(t) \in Seq(C)
         /\ Len(t) = 1 + Len(Segment(t)) + Len(Rest(t))
         /\ \A x \in 1..Len(Segment(t)) : Segment(t)[x] = t[1 + x]
         /\ \A x \in 1..Len(Rest(t)) : Rest(t)[x] = t[1 + Len(Segment(t)) + x]
         /\ Rest(t) = <<>> \/ Rest(t)[1] = "/"
<1>1. /\ Tail(t) \in Seq(C) /\ Len(Tail(t)) = Len(t) - 1
      /\ \A i \in 1..Len(Tail(t)) : Tail(t)[i] = t[i + 1]
  BY HeadTailProperties
<1>2. PICK q \in Seq(C) : q = Tail(t)
  BY <1>1
<1>3. q \in Seq(Chars) /\ Len(t) \in Nat \ {0}
  OBVIOUS
<1>4. PICK f \in 1..Len(q) + 1 : f = FirstOf(q, {"/"}) /\ IsFirst(q, {"/"}, f)
  BY <1>3, FirstOfIsFirst DEF IsFirst
<1>5. PICK s : s = Segment(t) /\ s = Before(q, f)
  BY <1>2, <1>4 DEF Segment
<1>6. PICK r : r = Rest(t) /\ r = From(q, f)
  BY <1>2, <1>4 DEF Rest
<1>7. s \in Seq(C) /\ Len(s) = f - 1 /\ \A x \in 1..f - 1 : s[x] = q[x]
  <2>1. /\ SubSeq(q, 1, f - 1) \in Seq(C) /\ Len(SubSeq(q, 1, f - 1)) = f - 1
        /\ \A x \in 1..f - 1 : SubSeq(q, 1, f - 1)[x] = q[x]
    OBVIOUS
  <2> QED  BY <1>5, <2>1, Zenon DEF Before
<1>8. r \in Seq(C) /\ Len(r) = Len(q) + 1 - f /\ \A x \in 1..Len(q) + 1 - f : r[x] = q[f - 1 + x]
  <2>1. /\ SubSeq(q, f, Len(q)) \in Seq(C) /\ Len(SubSeq(q, f, Len(q))) = Len(q) + 1 - f
        /\ \A x \in 1..Len(q) + 1 - f : SubSeq(q, f, Len(q))[x] = q[f - 1 + x]
    OBVIOUS
  <2> QED  BY <1>6, <2>1, Zenon DEF From
<1>9. ~Has(s, {"/"})
  <2>1. DOMAIN s = 1..f - 1
    BY <1>7
  <2> QED  BY <1>4, <1>7, <2>1 DEF Has, IsFirst
<1>10. Len(t) = 1 + Len(s) + Len(r)
  BY <1>1, <1>2, <1>3, <1>7, <1>8
<1>11. \A x \in 1..Len(s) : s[x] = t[1 + x]
  <2> TAKE x \in 1..Len(s)
  <2>1. x \in 1..f - 1 /\ x \in 1..Len(q) /\ x + 1 = 1 + x
    BY <1>7
  <2> QED  BY <1>1, <1>2, <1>7, <2>1
<1>12. \A x \in 1..Len(r) : r[x] = t[1 + Len(s) + x]
  <2> TAKE x \in 1..Len(r)
  <2>1. PICK y \in 1..Len(q) : y = f - 1 + x
    BY <1>8
  <2>2. r[x] = q[y] /\ q[y] = t[y + 1] /\ y + 1 = 1 + Len(s) + x
    BY <1>1, <1>2, <1>7, <1>8, <2>1
  <2> QED  BY <2>2
<1>13. r = <<>> \/ r[1] = "/"
  <2>1. SUFFICES ASSUME r # <<>> PROVE r[1] = "/"
    OBVIOUS
  <2>2. Len(r) \in Nat \ {0}
    BY <1>8, <2>1
  <2>3. f \in 1..Len(q) /\ r[1] = q[f]
    BY <1>8, <2>2
  <2> QED  BY <1>4, <2>3 DEF IsFirst
<1> QED  BY <1>5, <1>6, <1>7, <1>8, <1>9, <1>10, <1>11, <1>12, <1>13 DEF Segments

\* The loop that joins segments.
IsJoining(f, k, C) ==
  /\ f \in [0..Len(k) -> Seq(C)] /\ f[0] = <<>>
  /\ \A i \in 1..Len(k) : f[i] = f[i - 1] \o <<"/">> \o k[i]
  /\ Joined(k) = f[Len(k)]

\* The joined segments are what that loop ends with.
LEMMA JoinedIs ==
  ASSUME NEW C, "/" \in C, NEW k \in Seq(Seq(C))
  PROVE  \E f : IsJoining(f, k, C)
<1> DEFINE n == Len(k)
           S == Seq(C)
           E(i, x) == x \o <<"/">> \o k[i]
           Eq(g) == g = [i \in 0..n |-> IF i = 0 THEN <<>> ELSE E(i, g[i - 1])]
           run == CHOOSE g : Eq(g)
<1>1. Joined(k) = run[n]
  BY DEF Joined
<1>2. n \in Nat /\ <<>> \in S
  OBVIOUS
<1>3. \A i \in 1..n, x \in S : E(i, x) \in S
  <2> TAKE i \in 1..n, x \in S
  <2>1. k[i] \in S /\ <<"/">> \in S
    OBVIOUS
  <2>2. \A a, b, c \in S : a \o b \o c \in S
    OBVIOUS
  <2> QED  BY <2>1, <2>2, Zenon
<1> HIDE DEF n, S, E, run
<1>4. PICK step \in [(1..n) \X S -> S] : \A i \in 1..n, x \in S : step[<<i, x>>] = E(i, x)
  <2> DEFINE g == [p \in (1..n) \X S |-> E(p[1], p[2])]
  <2>1. \A p \in (1..n) \X S : p[1] \in 1..n /\ p[2] \in S
    OBVIOUS
  <2>2. g \in [(1..n) \X S -> S]
    BY <1>3, <2>1
  <2>3. \A i \in 1..n, x \in S : g[<<i, x>>] = E(i, x)
    OBVIOUS
  <2> QED  BY <2>2, <2>3
<1>5. PICK g : IsTrack(g, n, S, <<>>, step)
  BY <1>2, TrackExists
<1>6. \A i \in 0..n : i = 0 \/ (i \in 1..n /\ i - 1 \in 0..n)
  BY <1>2
<1>7. \A i \in 0..n : g[i] = IF i = 0 THEN <<>> ELSE E(i, g[i - 1])
  BY <1>4, <1>5, <1>6 DEF IsTrack
<1>8. Eq(g)
  <2>1. g = [i \in 0..n |-> g[i]]
    BY <1>5 DEF IsTrack
  <2> QED  BY <1>7, <2>1
<1> HIDE DEF Eq
<1>9. Eq(run)
  BY <1>8 DEF run
<1>10. /\ run = [i \in 0..n |-> run[i]] /\ run[0] = <<>>
       /\ \A i \in 1..n : run[i] = E(i, run[i - 1])
  <2>1. run = [i \in 0..n |-> IF i = 0 THEN <<>> ELSE E(i, run[i - 1])]
    BY <1>9 DEF Eq
  <2>2. \A i \in 0..n : run[i] = IF i = 0 THEN <<>> ELSE E(i, run[i - 1])
    BY <2>1
  <2>3. 0 \in 0..n /\ \A i \in 1..n : i \in 0..n /\ i # 0
    BY <1>2
  <2>4. run = [i \in 0..n |-> run[i]]
    BY <2>1
  <2> QED  BY <2>2, <2>3, <2>4
<1>11. IsTrack(run, n, S, <<>>, step)
  <2>1. \A i \in 1..n : run[i - 1] \in S => run[i] = step[<<i, run[i - 1]>>]
    BY <1>4, <1>10
  <2> QED  BY <1>2, <1>10, <2>1, TrackStays
<1>12. run \in [0..n -> S]
  BY <1>11 DEF IsTrack
<1>13. IsJoining(run, k, C)
  BY <1>1, <1>10, <1>12 DEF IsJoining, n, S, E
<1> QED  BY <1>13

\* The path of segments, one segment longer.
LEMMA JoinedAppend ==
  ASSUME NEW C \in SUBSET Chars, "/" \in C, NEW k \in Seq(Seq(C)), NEW s \in Seq(C)
  PROVE  /\ Joined(k) \in Seq(C) /\ Joined(<<>>) = <<>>
         /\ Joined(Append(k, s)) = (Joined(k) \o <<"/">>) \o s
<1>1. PICK f : IsJoining(f, k, C)
  BY JoinedIs
<1>2. PICK w \in Seq(Seq(C)) : /\ w = Append(k, s) /\ Len(w) = Len(k) + 1 /\ w[Len(k) + 1] = s
                               /\ \A i \in 1..Len(k) : w[i] = k[i]
  <2>1. PICK Q : Q = Seq(C)
    OBVIOUS
  <2>2. \A q \in Seq(Q), x \in Q :
          /\ Append(q, x) \in Seq(Q) /\ Len(Append(q, x)) = Len(q) + 1
          /\ Append(q, x)[Len(q) + 1] = x /\ \A i \in 1..Len(q) : Append(q, x)[i] = q[i]
    OBVIOUS
  <2>3. /\ Append(k, s) \in Seq(Seq(C)) /\ Len(Append(k, s)) = Len(k) + 1
        /\ Append(k, s)[Len(k) + 1] = s /\ \A i \in 1..Len(k) : Append(k, s)[i] = k[i]
    BY <2>1, <2>2
  <2> QED  BY <2>3
<1>3. PICK g : IsJoining(g, w, C)
  BY JoinedIs
<1>4. PICK n \in Nat : n = Len(k)
  OBVIOUS
<1>5. /\ f \in [0..n -> Seq(C)] /\ f[0] = <<>> /\ Joined(k) = f[n]
      /\ \A i \in 1..n : f[i] = f[i - 1] \o <<"/">> \o k[i]
  BY <1>1, <1>4 DEF IsJoining
<1>6. PICK m \in Nat : m = n + 1 /\ m - 1 = n /\ m = Len(w) /\ m \in 1..m
  BY <1>2, <1>4
<1>7. /\ g[0] = <<>> /\ Joined(w) = g[m]
      /\ \A i \in 1..m : g[i] = g[i - 1] \o <<"/">> \o w[i]
  BY <1>3, <1>6 DEF IsJoining
<1> DEFINE T == {i \in 0..n : f[i] = g[i]}
<1>8. 0 \in T
  BY <1>5, <1>7
<1>9. ASSUME NEW i \in 0..n - 1, i \in T PROVE i + 1 \in T
  <2>1. PICK x \in 1..n : x = i + 1 /\ x - 1 = i /\ x \in 0..n /\ x \in 1..m
    BY <1>6
  <2>2. w[x] = k[x]
    BY <1>2, <1>4, <2>1
  <2>3. f[x] = f[i] \o <<"/">> \o k[x] /\ g[x] = g[i] \o <<"/">> \o w[x]
    BY <1>5, <1>7, <2>1
  <2> QED  BY <1>9, <2>1, <2>2, <2>3
<1> HIDE DEF T
<1>10. \A i \in 0..n : i \in T
  BY <1>8, <1>9, UpTo
<1>11. f[n] = g[n]
  <2>1. n \in 0..n
    OBVIOUS
  <2> QED  BY <1>10, <2>1 DEF T
<1>12. w[m] = s
  BY <1>2, <1>4, <1>6
<1>13. Joined(w) = (Joined(k) \o <<"/">>) \o s
  BY <1>5, <1>6, <1>7, <1>11, <1>12, Zenon
<1>14. Joined(k) \in Seq(C)
  <2>1. n \in 0..n
    OBVIOUS
  <2> QED  BY <1>5, <2>1
<1>15. Joined(<<>>) = <<>>
  <2>1. <<>> \in Seq(Seq(C)) /\ Len(<<>>) = 0
    OBVIOUS
  <2>2. PICK e : IsJoining(e, <<>>, C)
    BY <2>1, JoinedIs
  <2> QED  BY <2>1, <2>2 DEF IsJoining
<1> QED  BY <1>2, <1>13, <1>14, <1>15

\* A path of kept segments: taking the last one off cuts at the last slash.
LEMMA JoinedFront ==
  ASSUME NEW C \in SUBSET Chars, "/" \in C, NEW k \in Seq(Segments(C)), k # <<>>
  PROVE  /\ Front(k) \in Seq(Segments(C)) /\ Last(k) \in Segments(C)
         /\ Joined(k) = (Joined(Front(k)) \o <<"/">>) \o Last(k)
         /\ Before(Joined(k), LastSlash(Joined(k))) = Joined(Front(k))
<1>1. PICK n \in 0..Len(k) : n = Len(k) - 1 /\ n + 1 = Len(k)
  <2>1. Len(k) \in Nat \ {0}
    OBVIOUS
  <2>2. Len(k) - 1 \in 0..Len(k) /\ (Len(k) - 1) + 1 = Len(k)
    BY <2>1
  <2> QED  BY <2>2
<1>2. PICK v \in Seq(Segments(C)) : /\ v = SubSeq(k, 1, n) /\ Len(v) = n
                                    /\ \A i \in 1..n : v[i] = k[i]
  <2>1. /\ SubSeq(k, 1, n) \in Seq(Segments(C)) /\ Len(SubSeq(k, 1, n)) = n
        /\ \A i \in 1..n : SubSeq(k, 1, n)[i] = k[i]
    OBVIOUS
  <2> QED  BY <2>1
<1>3. v = Front(k)
  BY <1>1, <1>2 DEF Front
<1>4. PICK s \in Segments(C) : s = Last(k) /\ s = k[n + 1]
  BY <1>1 DEF Last
<1>5. k = Append(v, s)
  <2>1. Append(v, s) \in Seq(Segments(C)) /\ Len(Append(v, s)) = n + 1
    BY <1>2
  <2>2. \A i \in 1..n + 1 : Append(v, s)[i] = k[i]
    BY <1>2, <1>4
  <2> QED  BY <1>1, <2>1, <2>2, SeqEqual
<1>6. v \in Seq(Seq(C)) /\ s \in Seq(C) /\ ~Has(s, {"/"})
  <2>1. Segments(C) \subseteq Seq(C)
    BY DEF Segments
  <2> QED  BY <2>1 DEF Segments
<1>7. Joined(k) = (Joined(v) \o <<"/">>) \o s /\ Joined(v) \in Seq(C)
  BY <1>5, <1>6, JoinedAppend
<1>8. Joined(v) \in Seq(Chars) /\ s \in Seq(Chars)
  BY <1>6, <1>7
<1>9. LastSlash(Joined(k)) = Len(Joined(v)) + 1 /\ Before(Joined(k), Len(Joined(v)) + 1) = Joined(v)
  BY <1>6, <1>7, <1>8, SlashInFront
<1> QED  BY <1>3, <1>4, <1>7, <1>9

\* The loop of remove_dot_segments over what is left of a path.
Keepings(C) == [rest : Seq(C), kept : Seq(Segments(C))]
KeepStep(x) ==
  IF x.rest = <<>> THEN x
  ELSE [rest |-> Rest(x.rest), kept |-> Push(x.kept, Segment(x.rest))]
IsKeeping(f, m, C) ==
  /\ f \in [0..Len(m) -> Keepings(C)] /\ f[0] = [rest |-> m, kept |-> <<>>]
  /\ \A i \in 1..Len(m) : f[i] = KeepStep(f[i - 1])
  /\ Kept(m) = f[Len(m)].kept

\* What remove_dot_segments keeps are segments.
LEMMA PushType ==
  ASSUME NEW C \in SUBSET Chars, NEW k \in Seq(Segments(C)), NEW s \in Segments(C)
  PROVE  Push(k, s) \in Seq(Segments(C))
<1>1. k # <<>> => Front(k) \in Seq(Segments(C))
  <2>1. k # <<>> => Len(k) - 1 \in 0..Len(k)
    OBVIOUS
  <2>2. \A n \in 0..Len(k) : SubSeq(k, 1, n) \in Seq(Segments(C))
    OBVIOUS
  <2> QED  BY <2>1, <2>2 DEF Front
<1>2. Append(k, s) \in Seq(Segments(C))
  OBVIOUS
<1> QED  BY <1>1, <1>2, Zenon DEF Push

\* The kept segments are what that loop ends with.
LEMMA KeptIs ==
  ASSUME NEW C \in SUBSET Chars, NEW m \in Seq(C)
  PROVE  \E f : IsKeeping(f, m, C)
<1> DEFINE n == Len(m)
           S == Keepings(C)
           a == [rest |-> m, kept |-> <<>>]
           Eq(g) == g = [i \in 0..n |-> IF i = 0 THEN a ELSE KeepStep(g[i - 1])]
           run == CHOOSE g : Eq(g)
<1>1. Kept(m) = run[n].kept
  BY Zenon DEF Kept, KeepStep
<1>2. n \in Nat /\ a \in S
  BY DEF Keepings
<1>3. \A x \in S : KeepStep(x) \in S
  <2> TAKE x \in S
  <2>1. x.rest \in Seq(C) /\ x.kept \in Seq(Segments(C))
    BY DEF Keepings
  <2>2. x.rest # <<>> => Rest(x.rest) \in Seq(C) /\ Segment(x.rest) \in Segments(C)
    BY <2>1, SegmentIs
  <2>3. x.rest # <<>> => Push(x.kept, Segment(x.rest)) \in Seq(Segments(C))
    BY <2>1, <2>2, PushType
  <2> QED  BY <2>1, <2>2, <2>3 DEF KeepStep, Keepings
<1> HIDE DEF n, S, a, run
<1>4. PICK step \in [(1..n) \X S -> S] : \A i \in 1..n, x \in S : step[<<i, x>>] = KeepStep(x)
  <2> DEFINE g == [p \in (1..n) \X S |-> KeepStep(p[2])]
  <2>1. \A p \in (1..n) \X S : p[1] \in 1..n /\ p[2] \in S
    OBVIOUS
  <2>2. g \in [(1..n) \X S -> S]
    BY <1>3, <2>1
  <2>3. \A i \in 1..n, x \in S : g[<<i, x>>] = KeepStep(x)
    OBVIOUS
  <2> QED  BY <2>2, <2>3
<1>5. PICK g : IsTrack(g, n, S, a, step)
  BY <1>2, TrackExists
<1>6. \A i \in 0..n : i = 0 \/ (i \in 1..n /\ i - 1 \in 0..n)
  BY <1>2
<1>7. \A i \in 0..n : g[i] = IF i = 0 THEN a ELSE KeepStep(g[i - 1])
  <2>1. g[0] = a /\ (\A i \in 1..n : g[i] = step[<<i, g[i - 1]>>]) /\ \A i \in 0..n : g[i] \in S
    BY <1>5 DEF IsTrack
  <2> TAKE i \in 0..n
  <2>2. CASE i = 0
    BY <2>1, <2>2
  <2>3. CASE i # 0
    <3>1. i \in 1..n /\ g[i - 1] \in S
      BY <1>6, <2>1, <2>3
    <3> QED  BY <1>4, <2>1, <2>3, <3>1
  <2> QED  BY <2>2, <2>3
<1>8. Eq(g)
  <2>1. g = [i \in 0..n |-> g[i]]
    BY <1>5 DEF IsTrack
  <2> QED  BY <1>7, <2>1
<1> HIDE DEF Eq
<1>9. Eq(run)
  BY <1>8 DEF run
<1>10. /\ run = [i \in 0..n |-> run[i]] /\ run[0] = a
       /\ \A i \in 1..n : run[i] = KeepStep(run[i - 1])
  <2>1. run = [i \in 0..n |-> IF i = 0 THEN a ELSE KeepStep(run[i - 1])]
    BY <1>9 DEF Eq
  <2>2. \A i \in 0..n : run[i] = IF i = 0 THEN a ELSE KeepStep(run[i - 1])
    BY <2>1
  <2>3. 0 \in 0..n /\ \A i \in 1..n : i \in 0..n /\ i # 0
    BY <1>2
  <2>4. run = [i \in 0..n |-> run[i]]
    BY <2>1
  <2> QED  BY <2>2, <2>3, <2>4
<1>11. IsTrack(run, n, S, a, step)
  <2>1. \A i \in 1..n : run[i - 1] \in S => run[i] = step[<<i, run[i - 1]>>]
    BY <1>4, <1>10
  <2> QED  BY <1>2, <1>10, <2>1, TrackStays
<1>12. run \in [0..n -> S]
  BY <1>11 DEF IsTrack
<1>13. IsKeeping(run, m, C)
  BY <1>1, <1>10, <1>12 DEF IsKeeping, n, S, a
<1> QED  BY <1>13

\* The same for the algorithm of RFC 3986.
Removals(C) == [in : Seq(C), out : Seq(C)]
IsRemoving(f, m, C) ==
  /\ f \in [0..Len(m) + 1 -> Removals(C)] /\ f[0] = [in |-> m, out |-> <<>>]
  /\ \A i \in 1..Len(m) + 1 : f[i] = RfcStep(f[i - 1])
  /\ RfcPath(m) = f[Len(m) + 1].out

\* A step of RFC 3986 moves tokens of a path, and takes no others.
LEMMA RfcStepType ==
  ASSUME NEW C \in SUBSET Chars, "/" \in C, NEW r \in Removals(C)
  PROVE  RfcStep(r) \in Removals(C)
<1>1. r.in \in Seq(C) /\ r.out \in Seq(C)
  BY DEF Removals
<1>2. CASE r.in = <<>>
  BY <1>2 DEF RfcStep
<1>3. CASE r.in # <<>>
  <2>1. PICK s, t \in Seq(C) : s = Segment(r.in) /\ t = Rest(r.in)
    BY <1>1, <1>3, SegmentIs DEF Segments
  <2>2. PICK o \in Seq(C) : o = IF t = <<>> THEN <<"/">> ELSE t
    <3>1. <<"/">> \in Seq(C)
      OBVIOUS
    <3> QED  BY <3>1
  <2>3. PICK b \in Seq(C) : b = Before(r.out, LastSlash(r.out))
    <3>1. LastSlash(r.out) \in 0..Len(r.out)
      <4>1. r.out \in Seq(Chars) /\ DOMAIN r.out = 1..Len(r.out)
        BY <1>1
      <4>2. CASE Has(r.out, {"/"})
        <5>1. PICK i \in 1..Len(r.out) : r.out[i] = "/"
          BY <4>1, <4>2 DEF Has
        <5> QED  BY <4>1, <5>1, HasLastSlash
      <4>3. CASE ~Has(r.out, {"/"})
        BY <4>1, <4>3, NoLastSlash
      <4> QED  BY <4>2, <4>3
    <3>2. PICK n \in Int : n = LastSlash(r.out) - 1 /\ n <= Len(r.out)
      BY <1>1, <3>1
    <3>3. SubSeq(r.out, 1, n) \in Seq(C)
      BY <1>1, <3>2
    <3> QED  BY <3>2, <3>3 DEF Before
  <2>4. PICK a \in Seq(C) : a = r.out \o <<"/">> \o s
    <3>1. <<"/">> \in Seq(C)
      OBVIOUS
    <3>2. \A x, y, z \in Seq(C) : x \o y \o z \in Seq(C)
      OBVIOUS
    <3> QED  BY <1>1, <3>1, <3>2, Zenon
  <2>5. RfcStep(r) = CASE s = <<".">>  -> [in |-> o, out |-> r.out]
                       [] s = <<"..">> -> [in |-> o, out |-> b]
                       [] OTHER        -> [in |-> t, out |-> a]
    BY <1>3, <2>1, <2>2, <2>3, <2>4, Zenon DEF RfcStep
  <2> QED  BY <1>1, <2>5 DEF Removals
<1> QED  BY <1>2, <1>3

\* The path of RFC 3986 is what its loop ends with.
LEMMA RfcPathIs ==
  ASSUME NEW C \in SUBSET Chars, "/" \in C, NEW m \in Seq(C)
  PROVE  \E f : IsRemoving(f, m, C)
<1> DEFINE n == Len(m) + 1
           S == Removals(C)
           a == [in |-> m, out |-> <<>>]
           Eq(g) == g = [i \in 0..n |-> IF i = 0 THEN a ELSE RfcStep(g[i - 1])]
           run == CHOOSE g : Eq(g)
<1>1. RfcPath(m) = run[n].out
  BY Zenon DEF RfcPath
<1>2. n \in Nat /\ a \in S
  BY DEF Removals
<1>3. \A x \in S : RfcStep(x) \in S
  BY RfcStepType
<1> HIDE DEF n, S, a, run
<1>4. PICK step \in [(1..n) \X S -> S] : \A i \in 1..n, x \in S : step[<<i, x>>] = RfcStep(x)
  <2> DEFINE g == [p \in (1..n) \X S |-> RfcStep(p[2])]
  <2>1. \A p \in (1..n) \X S : p[1] \in 1..n /\ p[2] \in S
    OBVIOUS
  <2>2. g \in [(1..n) \X S -> S]
    BY <1>3, <2>1
  <2>3. \A i \in 1..n, x \in S : g[<<i, x>>] = RfcStep(x)
    OBVIOUS
  <2> QED  BY <2>2, <2>3
<1>5. PICK g : IsTrack(g, n, S, a, step)
  BY <1>2, TrackExists
<1>6. \A i \in 0..n : i = 0 \/ (i \in 1..n /\ i - 1 \in 0..n)
  BY <1>2
<1>7. \A i \in 0..n : g[i] = IF i = 0 THEN a ELSE RfcStep(g[i - 1])
  <2>1. g[0] = a /\ (\A i \in 1..n : g[i] = step[<<i, g[i - 1]>>]) /\ \A i \in 0..n : g[i] \in S
    BY <1>5 DEF IsTrack
  <2> TAKE i \in 0..n
  <2>2. CASE i = 0
    BY <2>1, <2>2
  <2>3. CASE i # 0
    <3>1. i \in 1..n /\ g[i - 1] \in S
      BY <1>6, <2>1, <2>3
    <3> QED  BY <1>4, <2>1, <2>3, <3>1
  <2> QED  BY <2>2, <2>3
<1>8. Eq(g)
  <2>1. g = [i \in 0..n |-> g[i]]
    BY <1>5 DEF IsTrack
  <2> QED  BY <1>7, <2>1
<1> HIDE DEF Eq
<1>9. Eq(run)
  BY <1>8 DEF run
<1>10. /\ run = [i \in 0..n |-> run[i]] /\ run[0] = a
       /\ \A i \in 1..n : run[i] = RfcStep(run[i - 1])
  <2>1. run = [i \in 0..n |-> IF i = 0 THEN a ELSE RfcStep(run[i - 1])]
    BY <1>9 DEF Eq
  <2>2. \A i \in 0..n : run[i] = IF i = 0 THEN a ELSE RfcStep(run[i - 1])
    BY <2>1
  <2>3. 0 \in 0..n /\ \A i \in 1..n : i \in 0..n /\ i # 0
    BY <1>2
  <2>4. run = [i \in 0..n |-> run[i]]
    BY <2>1
  <2> QED  BY <2>2, <2>3, <2>4
<1>11. IsTrack(run, n, S, a, step)
  <2>1. \A i \in 1..n : run[i - 1] \in S => run[i] = step[<<i, run[i - 1]>>]
    BY <1>4, <1>10
  <2> QED  BY <1>2, <1>10, <2>1, TrackStays
<1>12. run \in [0..n -> S]
  BY <1>11 DEF IsTrack
<1>13. IsRemoving(run, m, C)
  BY <1>1, <1>10, <1>12 DEF IsRemoving, n, S, a
<1> QED  BY <1>13

Dots == {<<".">>, <<"..">>}

\* Where the loop of remove_dot_segments is after n rounds through the path m: what is
\* left is an end of m, and it gets shorter.
Goes(m, n, x) ==
  /\ Len(x.rest) <= Len(m) - n /\ (x.rest = <<>> \/ x.rest[1] = "/")
  /\ \A y \in 1..Len(x.rest) : x.rest[y] = m[(Len(m) - Len(x.rest)) + y]

\* The buffers of RFC 3986 that belong to it; where the last segment was a dot segment,
\* one slash is left to go to the output.
Follows(m, x, r) ==
  IF x.rest # <<>> THEN r = [in |-> x.rest, out |-> Joined(x.kept)]
  ELSE IF LastSegment(m) \in Dots
  THEN \/ r = [in |-> <<"/">>, out |-> Joined(x.kept)]
       \/ r = [in |-> <<>>, out |-> Joined(x.kept) \o <<"/">>]
  ELSE r = [in |-> <<>>, out |-> Joined(x.kept)] /\ x.kept # <<>> /\ Last(x.kept) = LastSegment(m)

\* When nothing is left behind a segment, it is the last one of the path.
LEMMA LastSegmentIs ==
  ASSUME NEW C \in SUBSET Chars, NEW m \in Seq(C), NEW x \in Keepings(C), NEW n \in Nat,
         Goes(m, n, x), x.rest # <<>>, Rest(x.rest) = <<>>
  PROVE  LastSegment(m) = Segment(x.rest)
<1>1. PICK t \in Seq(C) : t = x.rest /\ t # <<>> /\ t[1] = "/"
  BY DEF Keepings, Goes
<1>2. PICK s \in Seq(C) : s = Segment(t) /\ ~Has(s, {"/"}) /\ Len(t) = 1 + Len(s)
                          /\ \A y \in 1..Len(s) : s[y] = t[1 + y]
  <2>1. /\ Segment(t) \in Segments(C) /\ Len(t) = 1 + Len(Segment(t)) + Len(Rest(t))
        /\ \A y \in 1..Len(Segment(t)) : Segment(t)[y] = t[1 + y]
    BY <1>1, SegmentIs
  <2>2. Len(Rest(t)) = 0
    BY <1>1
  <2>3. Segment(t) \in Seq(C) /\ ~Has(Segment(t), {"/"})
    BY <2>1 DEF Segments
  <2> QED  BY <2>1, <2>2, <2>3
<1>3. Len(t) \in 1..Len(m) /\ \A y \in 1..Len(t) : t[y] = m[(Len(m) - Len(t)) + y]
  <2>1. Len(t) <= Len(m) - n /\ \A y \in 1..Len(t) : t[y] = m[(Len(m) - Len(t)) + y]
    BY <1>1 DEF Goes
  <2>2. Len(t) \in Nat \ {0} /\ Len(m) \in Nat
    BY <1>1
  <2> QED  BY <2>1, <2>2
<1>4. PICK l \in 1..Len(m) : l = (Len(m) - Len(t)) + 1
  <2>1. (Len(m) - Len(t)) + 1 \in 1..Len(m)
    BY <1>3
  <2> QED  BY <2>1
<1>5. m \in Seq(Chars) /\ s \in Seq(Chars)
  OBVIOUS
<1>6. m[l] = "/"
  <2>1. 1 \in 1..Len(t)
    BY <1>3
  <2> QED  BY <1>1, <1>3, <1>4, <2>1
<1>7. \A y \in 1..Len(s) : l + y \in 1..Len(m) /\ s[y] = m[l + y]
  <2> TAKE y \in 1..Len(s)
  <2>1. 1 + y \in 1..Len(t) /\ (Len(m) - Len(t)) + (1 + y) = l + y
    <3>1. Len(s) \in Nat /\ Len(t) = 1 + Len(s) /\ Len(m) \in Nat
      BY <1>2
    <3>2. 1 + y \in 1..Len(t)
      BY <3>1
    <3>3. l = (Len(m) - Len(t)) + 1 /\ Len(t) \in Nat
      BY <1>4, <3>1
    <3> QED  BY <3>1, <3>2, <3>3
  <2>2. s[y] = t[1 + y] /\ t[1 + y] = m[(Len(m) - Len(t)) + (1 + y)]
    BY <1>2, <1>3, <2>1
  <2>3. l + y \in 1..Len(m)
    BY <1>2, <1>3, <1>4
  <2> QED  BY <2>1, <2>2, <2>3
<1>8. Len(m) = l + Len(s)
  BY <1>2, <1>4
<1>9. \A j \in l + 1..Len(m) : m[j] # "/"
  <2> TAKE j \in l + 1..Len(m)
  <2>1. PICK y \in 1..Len(s) : j = l + y
    <3>1. j - l \in 1..Len(s) /\ j = l + (j - l)
      BY <1>8
    <3> QED  BY <3>1
  <2>2. y \in DOMAIN s
    OBVIOUS
  <2> QED  BY <1>2, <1>7, <2>1, <2>2 DEF Has
<1>10. LastSlash(m) = l
  BY <1>5, <1>6, <1>9, LastSlashIs
<1>11. PICK k \in 1..Len(m) + 1 : k = l + 1
  OBVIOUS
<1>12. PICK q \in Seq(Chars) : /\ q = From(m, k) /\ Len(q) = Len(m) + 1 - k
                               /\ \A y \in 1..Len(m) + 1 - k : q[y] = m[k - 1 + y]
  BY <1>5, Parts
<1>13. q = s
  <2>1. Len(q) = Len(s)
    BY <1>8, <1>11, <1>12
  <2>2. ASSUME NEW y \in 1..Len(q) PROVE q[y] = s[y]
    <3>1. y \in 1..Len(s) /\ y \in 1..Len(m) + 1 - k /\ k - 1 + y = l + y
      BY <1>11, <1>12, <2>1
    <3> QED  BY <1>7, <1>12, <3>1
  <2> QED  BY <1>5, <2>1, <2>2, SeqEqual
<1> QED  BY <1>1, <1>2, <1>10, <1>11, <1>12, <1>13 DEF LastSegment

\* The next round goes on with the next segment.
LEMMA GoesOn ==
  ASSUME NEW C \in SUBSET Chars, NEW m \in Seq(C), NEW x \in Keepings(C), NEW n \in 0..Len(m) - 1,
         Goes(m, n, x)
  PROVE  Goes(m, n + 1, KeepStep(x))
<1>1. x.rest \in Seq(C) /\ Len(m) \in Nat
  BY DEF Keepings
<1>2. CASE x.rest = <<>>
  <2>1. KeepStep(x) = x /\ Len(x.rest) = 0
    BY <1>2 DEF KeepStep
  <2>2. 0 <= Len(m) - (n + 1)
    BY <1>1
  <2> QED  BY <1>2, <2>1, <2>2 DEF Goes
<1>3. CASE x.rest # <<>>
  <2>1. PICK t, r \in Seq(C) : t = x.rest /\ r = Rest(t)
    BY <1>1, <1>3, SegmentIs
  <2>2. PICK s \in Seq(C) : /\ s = Segment(t) /\ Len(t) = 1 + Len(s) + Len(r)
                            /\ (\A y \in 1..Len(r) : r[y] = t[1 + Len(s) + y])
                            /\ (r = <<>> \/ r[1] = "/")
    <3>1. Segment(t) \in Seq(C)
      BY <1>3, <2>1, SegmentIs DEF Segments
    <3>2. PICK v, w \in Seq(C) : v = Segment(t) /\ w = Rest(t)
      BY <2>1, <3>1
    <3>3. /\ Len(t) = 1 + Len(v) + Len(w)
          /\ \A y \in 1..Len(w) : w[y] = t[1 + Len(v) + y]
          /\ w = <<>> \/ w[1] = "/"
      BY <1>3, <2>1, <3>2, SegmentIs
    <3> QED  BY <2>1, <3>2, <3>3
  <2>3. Len(t) <= Len(m) - n /\ \A y \in 1..Len(t) : t[y] = m[(Len(m) - Len(t)) + y]
    BY <2>1 DEF Goes
  <2>4. Len(r) <= Len(m) - (n + 1)
    BY <2>2, <2>3
  <2>5. ASSUME NEW y \in 1..Len(r) PROVE r[y] = m[(Len(m) - Len(r)) + y]
    <3>1. 1 + Len(s) + y \in 1..Len(t)
          /\ (Len(m) - Len(t)) + (1 + Len(s) + y) = (Len(m) - Len(r)) + y
      BY <2>2
    <3> QED  BY <2>2, <2>3, <3>1
  <2>6. KeepStep(x).rest = r
    BY <1>3, <2>1 DEF KeepStep
  <2> QED  BY <2>2, <2>4, <2>5, <2>6 DEF Goes
<1> QED  BY <1>2, <1>3

\* RFC 3986 moves the last slash to the output.
LEMMA LastRfcStep ==
  ASSUME NEW C \in SUBSET Chars, "/" \in C, NEW j \in Seq(C)
  PROVE  /\ RfcStep([in |-> <<"/">>, out |-> j]) = [in |-> <<>>, out |-> j \o <<"/">>]
         /\ \A o : RfcStep([in |-> <<>>, out |-> o]) = [in |-> <<>>, out |-> o]
<1>1. <<"/">> \in Seq(C) /\ Len(<<"/">>) = 1 /\ <<"/">> # <<>>
  OBVIOUS
<1>2. PICK s, t \in Seq(C) : s = Segment(<<"/">>) /\ t = Rest(<<"/">>) /\ 1 = 1 + Len(s) + Len(t)
  BY <1>1, SegmentIs DEF Segments
<1>3. s = <<>> /\ t = <<>> /\ s # <<".">> /\ s # <<"..">>
  BY <1>2
<1>4. RfcStep([in |-> <<"/">>, out |-> j]) = [in |-> <<>>, out |-> j \o <<"/">> \o <<>>]
  BY <1>1, <1>2, <1>3 DEF RfcStep
<1>5. \A a, b \in Seq(C) : a \o b \o <<>> = a \o b
  OBVIOUS
<1>6. \A o : RfcStep([in |-> <<>>, out |-> o]) = [in |-> <<>>, out |-> o]
  BY DEF RfcStep
<1> QED  BY <1>1, <1>4, <1>5, <1>6

\* And the next step of RFC 3986 follows the next round.
LEMMA FollowsOn ==
  ASSUME NEW C \in SUBSET Chars, "/" \in C, NEW m \in Seq(C), NEW x \in Keepings(C), NEW n \in Nat,
         Goes(m, n, x), NEW r, Follows(m, x, r)
  PROVE  Follows(m, KeepStep(x), RfcStep(r))
<1>1. x.rest \in Seq(C) /\ x.kept \in Seq(Segments(C))
  BY DEF Keepings
<1>2. PICK k \in Seq(Segments(C)) : k = x.kept
  BY <1>1
<1>3. k \in Seq(Seq(C)) /\ Joined(k) \in Seq(C) /\ Joined(<<>>) = <<>>
  <2>1. Segments(C) \subseteq Seq(C)
    BY DEF Segments
  <2>2. k \in Seq(Seq(C))
    BY <2>1
  <2>3. <<>> \in Seq(C)
    OBVIOUS
  <2> QED  BY <2>2, <2>3, JoinedAppend
<1>4. CASE x.rest = <<>>
  <2>1. KeepStep(x) = x
    BY <1>4 DEF KeepStep
  <2>2. RfcStep([in |-> <<"/">>, out |-> Joined(k)]) = [in |-> <<>>, out |-> Joined(k) \o <<"/">>]
    BY <1>3, LastRfcStep
  <2>3. \A o : RfcStep([in |-> <<>>, out |-> o]) = [in |-> <<>>, out |-> o]
    BY <1>3, LastRfcStep
  <2> QED  BY <1>2, <1>4, <2>1, <2>2, <2>3 DEF Follows
<1>5. CASE x.rest # <<>>
  <2>1. PICK t, w \in Seq(C) : t = x.rest /\ w = Rest(t)
    BY <1>1, <1>5, SegmentIs
  <2>2. PICK s \in Segments(C) : s = Segment(t)
    BY <1>5, <2>1, SegmentIs
  <2>3. r = [in |-> t, out |-> Joined(k)] /\ t # <<>>
    BY <1>2, <1>5, <2>1 DEF Follows
  <2>4. PICK o : o = IF w = <<>> THEN <<"/">> ELSE w
    OBVIOUS
  <2>5. KeepStep(x) = [rest |-> w, kept |-> Push(k, s)]
    BY <1>2, <1>5, <2>1, <2>2 DEF KeepStep
  <2>6. w = <<>> => LastSegment(m) = s
    BY <1>5, <2>1, <2>2, LastSegmentIs
  <2>7. CASE s \in Dots
    <3>1. RfcStep(r) = [in |-> o, out |-> Joined(Push(k, s))]
      <4>1. CASE s = <<".">>
        <5>1. s # <<"..">>
          BY <4>1
        <5>2. Push(k, s) = k
          BY <4>1, <5>1 DEF Push
        <5>3. RfcStep(r) = [in |-> o, out |-> Joined(k)]
          BY <2>1, <2>2, <2>3, <2>4, <4>1, <5>1 DEF RfcStep
        <5> QED  BY <5>2, <5>3
      <4>2. CASE s = <<"..">>
        <5>1. s # <<".">>
          BY <4>2
        <5>2. RfcStep(r) = [in |-> o, out |-> Before(Joined(k), LastSlash(Joined(k)))]
          BY <2>1, <2>2, <2>3, <2>4, <4>2, <5>1 DEF RfcStep
        <5>3. Push(k, s) = IF k = <<>> THEN k ELSE Front(k)
          BY <4>2 DEF Push
        <5>4. CASE k # <<>>
          BY <5>2, <5>3, <5>4, JoinedFront
        <5>5. CASE k = <<>>
          <6>1. Joined(k) = <<>>
            BY <1>3, <5>5
          <6>2. LastSlash(<<>>) = 0
            <7>1. ~Has(<<>>, {"/"}) /\ DOMAIN <<>> = 1..Len(<<>>)
              BY DEF Has
            <7> QED  BY <7>1, NoLastSlash
          <6>3. Before(<<>>, 0) = <<>>
            BY DEF Before
          <6> QED  BY <5>2, <5>3, <5>5, <6>1, <6>2, <6>3
        <5> QED  BY <5>4, <5>5
      <4> QED  BY <2>7, <4>1, <4>2 DEF Dots
    <3>2. CASE w # <<>>
      BY <2>4, <2>5, <3>1, <3>2 DEF Follows
    <3>3. CASE w = <<>>
      BY <2>4, <2>5, <2>6, <2>7, <3>1, <3>3 DEF Follows
    <3> QED  BY <3>2, <3>3
  <2>8. CASE s \notin Dots
    <3>1. s # <<".">> /\ s # <<"..">>
      BY <2>8 DEF Dots
    <3>2. Push(k, s) = Append(k, s)
      BY <3>1 DEF Push
    <3>3. RfcStep(r) = [in |-> w, out |-> Joined(k) \o <<"/">> \o s]
      BY <2>1, <2>2, <2>3, <3>1 DEF RfcStep
    <3>4. RfcStep(r) = [in |-> w, out |-> Joined(Append(k, s))]
      <4>1. s \in Seq(C)
        BY DEF Segments
      <4> QED  BY <1>3, <3>3, <4>1, JoinedAppend
    <3>5. Append(k, s) # <<>> /\ Last(Append(k, s)) = s
      BY DEF Last
    <3>6. CASE w # <<>>
      BY <2>5, <3>2, <3>4, <3>6 DEF Follows
    <3>7. CASE w = <<>>
      BY <2>5, <2>6, <2>8, <3>2, <3>4, <3>5, <3>7 DEF Follows
    <3> QED  BY <3>6, <3>7
  <2> QED  BY <2>7, <2>8
<1> QED  BY <1>4, <1>5

\* What is left of a path when the loops are through with it.
LEMMA LoopsEnd ==
  ASSUME NEW C \in SUBSET Chars, "/" \in C, NEW m \in Seq(C), m # <<>>, m[1] = "/"
  PROVE  /\ Kept(m) \in Seq(Segments(C))
         /\ IF LastSegment(m) \in Dots THEN RfcPath(m) = Joined(Kept(m)) \o <<"/">>
            ELSE /\ RfcPath(m) = Joined(Kept(m)) /\ Kept(m) # <<>>
                 /\ Last(Kept(m)) = LastSegment(m)
<1>1. PICK f : IsKeeping(f, m, C)
  BY KeptIs
<1>2. PICK g : IsRemoving(g, m, C)
  BY RfcPathIs
<1>3. PICK n \in Nat : n = Len(m)
  OBVIOUS
<1>4. /\ f \in [0..n -> Keepings(C)] /\ f[0] = [rest |-> m, kept |-> <<>>]
      /\ \A i \in 1..n : f[i] = KeepStep(f[i - 1])
      /\ Kept(m) = f[n].kept
  BY <1>1, <1>3 DEF IsKeeping
<1>5. /\ g[0] = [in |-> m, out |-> <<>>]
      /\ \A i \in 1..n + 1 : g[i] = RfcStep(g[i - 1])
      /\ RfcPath(m) = g[n + 1].out
  BY <1>2, <1>3 DEF IsRemoving
<1> DEFINE T == {i \in 0..n : Goes(m, i, f[i]) /\ Follows(m, f[i], g[i])}
<1>6. 0 \in T
  <2>1. Goes(m, 0, f[0])
    <3>1. Len(m) <= Len(m) - 0 /\ \A y \in 1..Len(m) : (Len(m) - Len(m)) + y = y
      OBVIOUS
    <3> QED  BY <1>4, <3>1 DEF Goes
  <2>2. Follows(m, f[0], g[0])
    <3>1. Joined(<<>>) = <<>>
      <4>1. <<>> \in Seq(Seq(C)) /\ <<>> \in Seq(C)
        OBVIOUS
      <4> QED  BY <4>1, JoinedAppend
    <3> QED  BY <1>4, <1>5, <3>1 DEF Follows
  <2> QED  BY <2>1, <2>2
<1>7. ASSUME NEW i \in 0..n - 1, i \in T PROVE i + 1 \in T
  <2>1. PICK x \in 1..n : x = i + 1 /\ x - 1 = i /\ x \in 0..n /\ x \in 1..n + 1
    OBVIOUS
  <2>2. Goes(m, i, f[i]) /\ Follows(m, f[i], g[i]) /\ f[i] \in Keepings(C)
    BY <1>4, <1>7
  <2>3. f[x] = KeepStep(f[i]) /\ g[x] = RfcStep(g[i])
    BY <1>4, <1>5, <2>1
  <2>4. i \in 0..Len(m) - 1 /\ i \in Nat
    BY <1>3
  <2>5. Goes(m, i + 1, KeepStep(f[i])) /\ Follows(m, KeepStep(f[i]), RfcStep(g[i]))
    BY <2>2, <2>4, GoesOn, FollowsOn
  <2> QED  BY <2>1, <2>3, <2>5
<1> HIDE DEF T
<1>8. Goes(m, n, f[n]) /\ Follows(m, f[n], g[n])
  <2>1. \A i \in 0..n : i \in T
    BY <1>6, <1>7, UpTo
  <2>2. n \in 0..n
    OBVIOUS
  <2> QED  BY <2>1, <2>2 DEF T
<1>9. PICK k \in Seq(Segments(C)) : k = Kept(m) /\ k = f[n].kept
  <2>1. n \in 0..n
    OBVIOUS
  <2> QED  BY <1>4, <2>1 DEF Keepings
<1>10. f[n].rest = <<>>
  <2>1. n \in 0..n
    OBVIOUS
  <2>2. f[n].rest \in Seq(C)
    BY <1>4, <2>1 DEF Keepings
  <2>3. Len(f[n].rest) <= 0
    BY <1>3, <1>8 DEF Goes
  <2> QED  BY <2>2, <2>3
<1>11. g[n + 1] = RfcStep(g[n])
  <2>1. n + 1 \in 1..n + 1 /\ (n + 1) - 1 = n
    OBVIOUS
  <2> QED  BY <1>5, <2>1
<1>12. Joined(k) \in Seq(C)
  <2>1. Segments(C) \subseteq Seq(C)
    BY DEF Segments
  <2>2. k \in Seq(Seq(C)) /\ <<>> \in Seq(C)
    BY <2>1
  <2> QED  BY <2>2, JoinedAppend
<1>13. CASE LastSegment(m) \in Dots
  <2>1. \/ g[n] = [in |-> <<"/">>, out |-> Joined(k)]
        \/ g[n] = [in |-> <<>>, out |-> Joined(k) \o <<"/">>]
    BY <1>8, <1>9, <1>10, <1>13 DEF Follows
  <2>2. g[n + 1] = [in |-> <<>>, out |-> Joined(k) \o <<"/">>]
    BY <1>11, <1>12, <2>1, LastRfcStep
  <2>3. RfcPath(m) = Joined(k) \o <<"/">>
    BY <1>5, <2>2
  <2> QED  BY <1>9, <1>13, <2>3
<1>14. CASE LastSegment(m) \notin Dots
  <2>1. g[n] = [in |-> <<>>, out |-> Joined(k)] /\ k # <<>> /\ Last(k) = LastSegment(m)
    BY <1>8, <1>9, <1>10, <1>14 DEF Follows
  <2>2. g[n + 1] = [in |-> <<>>, out |-> Joined(k)]
    BY <1>11, <1>12, <2>1, LastRfcStep
  <2>3. RfcPath(m) = Joined(k)
    BY <1>5, <2>2
  <2> QED  BY <1>9, <1>14, <2>1, <2>3
<1> QED  BY <1>13, <1>14

\* A path of segments begins with a slash, and ends in its last segment.
LEMMA JoinedEnds ==
  ASSUME NEW C \in SUBSET Chars, "/" \in C, NEW k \in Seq(Segments(C)), k # <<>>
  PROVE  /\ Joined(k) \in Seq(C) /\ Joined(k) # <<>> /\ Joined(k)[1] = "/"
         /\ Last(Joined(k)) = "/" <=> Last(k) = <<>>
<1>1. k \in Seq(Seq(C))
  <2>1. Segments(C) \subseteq Seq(C)
    BY DEF Segments
  <2> QED  BY <2>1
<1>2. PICK f : IsJoining(f, k, C)
  BY <1>1, JoinedIs
<1>3. PICK n \in Nat : n = Len(k) /\ n # 0
  OBVIOUS
<1>4. /\ f \in [0..n -> Seq(C)] /\ f[0] = <<>> /\ Joined(k) = f[n]
      /\ \A i \in 1..n : f[i] = f[i - 1] \o <<"/">> \o k[i]
  BY <1>2, <1>3 DEF IsJoining
<1> DEFINE T == {i \in 0..n : i # 0 => f[i] # <<>> /\ f[i][1] = "/"}
<1>5. 0 \in T
  OBVIOUS
<1>6. ASSUME NEW i \in 0..n - 1, i \in T PROVE i + 1 \in T
  <2>1. PICK x \in 1..n : x = i + 1 /\ x - 1 = i /\ x \in 0..n
    OBVIOUS
  <2>2. PICK a, s \in Seq(C) : a = f[i] /\ s = k[x]
    <3>1. i \in 0..n /\ x \in 1..Len(k)
      BY <1>3
    <3>2. \A Q : \A q \in Seq(Q) : \A e \in 1..Len(q) : q[e] \in Q
      OBVIOUS
    <3>3. k[x] \in Seq(C)
      BY <1>1, <3>1, <3>2
    <3>4. f[i] \in Seq(C)
      BY <1>4, <3>1
    <3> QED  BY <3>3, <3>4
  <2>3. f[x] = a \o <<"/">> \o s
    BY <1>4, <2>1, <2>2
  <2>4. (a = <<>> \/ a[1] = "/") => f[x] # <<>> /\ f[x][1] = "/"
    BY <2>3
  <2>5. a = <<>> \/ a[1] = "/"
    BY <1>4, <1>6, <2>2
  <2> QED  BY <2>1, <2>4, <2>5
<1> HIDE DEF T
<1>7. f[n] # <<>> /\ f[n][1] = "/"
  <2>1. \A i \in 0..n : i \in T
    BY <1>5, <1>6, UpTo
  <2>2. n \in 0..n
    OBVIOUS
  <2> QED  BY <1>3, <2>1, <2>2 DEF T
<1>8. PICK a, s \in Seq(C) : a = Joined(Front(k)) /\ s = Last(k) /\ ~Has(s, {"/"})
  <2>1. Front(k) \in Seq(Segments(C)) /\ Last(k) \in Segments(C)
    BY JoinedFront
  <2>2. Segments(C) \subseteq Seq(C) /\ ~Has(Last(k), {"/"})
    BY <2>1 DEF Segments
  <2>3. Front(k) \in Seq(Seq(C)) /\ Last(k) \in Seq(C)
    BY <2>1, <2>2
  <2>4. Joined(Front(k)) \in Seq(C)
    BY <2>3, JoinedAppend
  <2> QED  BY <2>2, <2>3, <2>4
<1>9. PICK j \in Seq(C) : j = Joined(k) /\ j = a \o <<"/">> \o s
  <2>1. Joined(k) = a \o <<"/">> \o s
    BY <1>8, JoinedFront
  <2>2. \A x, y, z \in Seq(C) : x \o y \o z \in Seq(C)
    OBVIOUS
  <2>3. <<"/">> \in Seq(C)
    OBVIOUS
  <2> QED  BY <2>1, <2>2, <2>3
<1>10. Last(j) = "/" <=> s = <<>>
  <2>1. CASE s = <<>>
    BY <1>9, <2>1 DEF Last
  <2>2. CASE s # <<>>
    <3>1. Len(s) \in DOMAIN s
      BY <2>2
    <3>2. s[Len(s)] # "/"
      BY <1>8, <3>1 DEF Has
    <3>3. Len(j) = Len(a) + 1 + Len(s) /\ j[Len(a) + 1 + Len(s)] = s[Len(s)]
      BY <1>9, <2>2
    <3> QED  BY <2>2, <3>2, <3>3 DEF Last
  <2> QED  BY <2>1, <2>2
<1> QED  BY <1>4, <1>7, <1>8, <1>9, <1>10

\* The code removes dot segments as RFC 3986 does, but for one slash.
LEMMA RemovesDotSegments ==
  ASSUME NEW C \in SUBSET Chars, "/" \in C, NEW m \in Seq(C), m # <<>>, m[1] = "/"
  PROVE  /\ RemoveDotSegments(m) = ButOneSlash(m, RfcPath(m))
         /\ RemoveDotSegments(m) \in Seq(C)
         /\ RemoveDotSegments(m) # <<>> /\ RemoveDotSegments(m)[1] = "/"
<1>1. PICK k \in Seq(Segments(C)) : k = Kept(m)
  BY LoopsEnd
<1>2. PICK l : l = LastSegment(m)
  OBVIOUS
<1>3. IF l \in Dots THEN RfcPath(m) = Joined(k) \o <<"/">>
      ELSE RfcPath(m) = Joined(k) /\ k # <<>> /\ Last(k) = l
  BY <1>1, <1>2, LoopsEnd
<1>4. PICK y \in Seq(C) : y = IF k = <<>> THEN <<"/">> ELSE Joined(k)
  <2>1. <<"/">> \in Seq(C)
    OBVIOUS
  <2>2. k # <<>> => Joined(k) \in Seq(C)
    BY JoinedEnds
  <2> QED  BY <2>1, <2>2
<1>5. y # <<>> /\ y[1] = "/" /\ (Last(y) = "/" <=> k = <<>> \/ Last(k) = <<>>)
  <2>1. CASE k = <<>>
    BY <1>4, <2>1 DEF Last
  <2>2. CASE k # <<>>
    BY <1>4, <2>2, JoinedEnds
  <2> QED  BY <2>1, <2>2
<1>6. RemoveDotSegments(m)
        = IF l \in {<<>>, <<".">>, <<"..">>} /\ Last(y) # "/" THEN Append(y, "/") ELSE y
  BY <1>1, <1>2, <1>4, Zenon DEF RemoveDotSegments
<1>7. /\ Append(y, "/") \in Seq(C) /\ Append(y, "/") # <<>> /\ Append(y, "/")[1] = "/"
      /\ Append(y, "/") = y \o <<"/">>
  <2>1. Append(y, "/") = y \o <<"/">>
    BY AppendIsConcat
  <2>2. Append(y, "/") \in Seq(C) /\ Append(y, "/") # <<>>
    OBVIOUS
  <2>3. 1 \in 1..Len(y)
    BY <1>5
  <2>4. Append(y, "/")[1] = "/"
    BY <1>5, <2>3, AppendProperties
  <2> QED  BY <2>1, <2>2, <2>4
<1>8. PICK z : z = RfcPath(m)
  OBVIOUS
<1>9. ButOneSlash(m, z)
        = IF l \in Dots /\ Len(z) > 1 /\ From(z, Len(z) - 1) = <<"/", "/">> THEN Front(z) ELSE z
  BY <1>2, Zenon DEF ButOneSlash, Dots
<1>10. CASE l \in Dots
  <2>1. l \in {<<>>, <<".">>, <<"..">>}
    BY <1>10 DEF Dots
  <2>2. z = Joined(k) \o <<"/">>
    BY <1>3, <1>8, <1>10
  <2>3. CASE k = <<>>
    <3>1. Joined(k) = <<>>
      <4>1. <<>> \in Seq(Seq(C)) /\ <<>> \in Seq(C)
        OBVIOUS
      <4> QED  BY <2>3, <4>1, JoinedAppend
    <3>2. z = <<"/">> /\ y = <<"/">> /\ ~(Len(z) > 1)
      <4>1. <<>> \o <<"/">> = <<"/">> /\ ~(Len(<<"/">>) > 1)
        OBVIOUS
      <4> QED  BY <1>4, <2>2, <2>3, <3>1, <4>1
    <3> QED  BY <1>5, <1>6, <1>7, <1>8, <1>9, <2>3, <3>2
  <2>4. CASE k # <<>>
    <3>1. z = y \o <<"/">> /\ y = Joined(k)
      BY <1>4, <2>2, <2>4
    <3>2. PICK n \in Nat : n = Len(y) /\ n # 0
      BY <1>5
    <3>3. z \in Seq(C) /\ Len(z) = n + 1 /\ z[n + 1] = "/" /\ \A i \in 1..n : z[i] = y[i]
      BY <3>1, <3>2
    <3>4. From(z, Len(z) - 1) = <<Last(y), "/">>
      <4>1. Len(z) - 1 = n
        BY <3>2, <3>3
      <4>2. /\ SubSeq(z, n, n + 1) \in Seq(C) /\ Len(SubSeq(z, n, n + 1)) = 2
            /\ SubSeq(z, n, n + 1)[1] = z[n] /\ SubSeq(z, n, n + 1)[2] = z[n + 1]
        BY <3>2, <3>3
      <4>3. \A q \in Seq(C) : Len(q) = 2 => q = <<q[1], q[2]>>
        OBVIOUS
      <4>4. z[n] = Last(y)
        BY <3>2, <3>3 DEF Last
      <4>5. SubSeq(z, n, n + 1) = <<Last(y), "/">>
        BY <3>3, <4>2, <4>3, <4>4
      <4> QED  BY <3>3, <4>1, <4>5 DEF From
    <3>5. Front(z) = y
      <4>1. Len(z) - 1 = n
        BY <3>2, <3>3
      <4>2. SubSeq(z, 1, n) \in Seq(C) /\ Len(SubSeq(z, 1, n)) = n
            /\ \A i \in 1..n : SubSeq(z, 1, n)[i] = z[i]
        BY <3>2, <3>3
      <4>3. SubSeq(z, 1, n) = y
        BY <3>2, <3>3, <4>2, SeqEqual
      <4> QED  BY <4>1, <4>3 DEF Front
    <3>6. Len(z) > 1
      BY <3>2, <3>3
    <3>7. CASE Last(y) = "/"
      BY <1>5, <1>6, <1>8, <1>9, <1>10, <3>4, <3>5, <3>6, <3>7
    <3>8. CASE Last(y) # "/"
      <4>1. <<Last(y), "/">> # <<"/", "/">>
        BY <3>8
      <4>2. ButOneSlash(m, z) = z
        BY <1>9, <3>4, <4>1
      <4>3. RemoveDotSegments(m) = Append(y, "/")
        BY <1>6, <2>1, <3>8
      <4> QED  BY <1>7, <1>8, <3>1, <4>2, <4>3
    <3> QED  BY <3>7, <3>8
  <2> QED  BY <2>3, <2>4
<1>11. CASE l \notin Dots
  <2>1. z = y /\ k # <<>> /\ Last(k) = l
    BY <1>3, <1>4, <1>8, <1>11
  <2>2. ButOneSlash(m, z) = y
    BY <1>9, <1>11, <2>1
  <2>3. ~(l \in {<<>>, <<".">>, <<"..">>} /\ Last(y) # "/")
    BY <1>5, <1>11, <2>1 DEF Dots
  <2>4. RemoveDotSegments(m) = y
    BY <1>6, <2>3, Zenon
  <2> QED  BY <1>5, <1>8, <2>2, <2>4
<1> QED  BY <1>10, <1>11

-------------------------------------------------------------------------------
(* Where a Location leads.                                                 *)

\* A text is what is in front of a place and what is behind it.
LEMMA SplitText ==
  ASSUME NEW s \in Seq(Chars), NEW n \in 1..Len(s) + 1
  PROVE  s = Before(s, n) \o From(s, n)
<1>1. PICK k \in 0..Len(s) : n = k + 1 /\ n - 1 = k
  OBVIOUS
<1>2. 1 \in 1..Len(s) + 1 /\ k \in 1 - 1..Len(s) /\ Len(s) \in k..Len(s)
  OBVIOUS
<1>3. SubSeq(s, 1, k) \o SubSeq(s, k + 1, Len(s)) = SubSeq(s, 1, Len(s))
  BY <1>2, ConcatAdjacentSubSeq, Zenon
<1>4. SubSeq(s, 1, Len(s)) = s
  BY SubSeqFull
<1> QED  BY <1>1, <1>3, <1>4, Zenon DEF Before, From

\* A fragment is cut off what stands behind a text without one.
LEMMA FragmentBehind ==
  ASSUME NEW x \in Seq(Chars), NEW y \in Seq(Chars), ~Has(x, {"#"})
  PROVE  NoFragment(x \o y) = x \o NoFragment(y)
<1>1. PICK n \in 1..Len(y) + 1 : n = FirstOf(y, {"#"}) /\ IsFirst(y, {"#"}, n)
  BY FirstOfIsFirst DEF IsFirst
<1>2. PICK a, b \in Seq(Chars) :
        /\ a = Before(y, n) /\ Len(a) = n - 1 /\ \A j \in 1..n - 1 : a[j] = y[j]
        /\ b = From(y, n) /\ Len(b) = Len(y) + 1 - n
        /\ \A j \in 1..Len(y) + 1 - n : b[j] = y[n - 1 + j]
  BY Parts
<1>3. y = a \o b
  BY <1>2, SplitText
<1>4. ~Has(a, {"#"})
  <2>1. DOMAIN a = 1..n - 1
    BY <1>2
  <2> QED  BY <1>1, <1>2, <2>1 DEF Has, IsFirst
<1>5. PICK c \in Seq(Chars) : c = x \o a
  BY Behind
<1>6. x \o y = c \o b /\ ~Has(c, {"#"})
  <2>1. x \o (a \o b) = (x \o a) \o b
    BY ONLY x \in Seq(Chars), a \in Seq(Chars), b \in Seq(Chars)
  <2> QED  BY <1>3, <1>4, <1>5, <2>1, HasJoined
<1>7. NoFragment(y) = a
  BY <1>1, <1>2 DEF NoFragment
<1>8. NoFragment(c \o b) = c
  <2>1. CASE b = <<>>
    <3>1. c \o b = c
      BY <2>1
    <3> QED  BY <1>6, <3>1, NothingToCut
  <2>2. CASE b # <<>>
    <3>1. b[1] = "#"
      <4>1. 1 \in 1..Len(y) + 1 - n /\ n \in 1..Len(y)
        BY <1>2, <2>2
      <4> QED  BY <1>1, <1>2, <4>1 DEF IsFirst
    <3>2. FirstOf(c \o b, {"#"}) = Len(c) + 1
      BY <1>6, <2>2, <3>1, FirstBehind
    <3> QED  BY <3>2, PartsOfTwo DEF NoFragment
  <2> QED  BY <2>1, <2>2
<1> QED  BY <1>5, <1>6, <1>7, <1>8

\* Cutting a fragment off leaves nothing else out.
LEMMA FragmentOff ==
  ASSUME NEW y \in Seq(Chars)
  PROVE  /\ NoFragment(y) \in Seq(Chars) /\ ~Has(NoFragment(y), {"#"})
         /\ \A S : Has(NoFragment(y), S) => Has(y, S)
         /\ y # <<>> /\ y[1] # "#" => NoFragment(y) # <<>> /\ NoFragment(y)[1] = y[1]
         /\ y = <<>> \/ y[1] = "#" => NoFragment(y) = <<>>
<1>1. PICK n \in 1..Len(y) + 1 : n = FirstOf(y, {"#"}) /\ IsFirst(y, {"#"}, n)
  BY FirstOfIsFirst DEF IsFirst
<1>2. PICK a \in Seq(Chars) : a = Before(y, n) /\ Len(a) = n - 1 /\ \A j \in 1..n - 1 : a[j] = y[j]
  BY Parts
<1>3. NoFragment(y) = a
  BY <1>1, <1>2 DEF NoFragment
<1>4. DOMAIN a = 1..n - 1 /\ DOMAIN y = 1..Len(y)
  BY <1>2
<1>5. ~Has(a, {"#"})
  BY <1>1, <1>2, <1>4 DEF Has, IsFirst
<1>6. ASSUME NEW S, Has(a, S) PROVE Has(y, S)
  <2>1. PICK i \in 1..n - 1 : a[i] \in S
    BY <1>4, <1>6 DEF Has
  <2>2. i \in 1..Len(y) /\ y[i] \in S
    BY <1>2, <2>1
  <2> QED  BY <1>4, <2>2 DEF Has
<1>7. ASSUME y # <<>>, y[1] # "#" PROVE a # <<>> /\ a[1] = y[1]
  <2>1. n # 1
    <3>1. 1 \in 1..Len(y)
      BY <1>7
    <3> QED  BY <1>1, <1>7, <3>1 DEF IsFirst
  <2>2. 1 \in 1..n - 1
    BY <2>1
  <2> QED  BY <1>2, <2>2
<1>8. ASSUME y = <<>> \/ y[1] = "#" PROVE a = <<>>
  <2>1. n = 1
    <3>1. CASE y = <<>>
      BY <3>1
    <3>2. CASE y # <<>> /\ n # 1
      <4>1. 1 \in 1..n - 1
        BY <3>2
      <4> QED  BY <1>1, <1>8, <3>2, <4>1 DEF IsFirst
    <3> QED  BY <3>1, <3>2
  <2>2. Len(a) = 0
    BY <1>2, <2>1
  <2> QED  BY <2>2
<1> QED  BY <1>3, <1>5, <1>6, <1>7, <1>8

\* A parsed URL, in the parts of its text.
LEMMA ParsedParts ==
  ASSUME NEW t \in Seq(Chars), Parse(t).error = "none"
  PROVE  \E h, p, r \in Seq(Chars) :
           /\ IsHost(h) /\ IsPortPart(p) /\ IsTarget(r)
           /\ ~Has(h, Forbidden) /\ ~Has(r, Forbidden)
           /\ Parse(t) = Accepted(UrlOf(HostText(h), IsLiteral(h), PortOfText(p), WithPath(r)))
<1>1. StartsHttp(t) /\ \E i, j, k \in 4..Len(t) : Cut(t, i, j, k)
  BY ParsedHasCut
<1>2. PICK i, j, k \in 4..Len(t) : Cut(t, i, j, k)
  BY <1>1
<1>3. /\ i <= j /\ j <= k /\ IsHost(Part(t, 4, i))
      /\ IsPortPart(Part(t, i, j)) /\ IsTarget(Part(t, j, k))
  BY <1>2 DEF Cut, IsHost
<1>4. 4 \in 0..Len(t) /\ i \in 4..Len(t) /\ j \in i..Len(t) /\ k \in j..Len(t)
  BY <1>1, <1>3 DEF StartsHttp
<1>5. ASSUME NEW x \in 0..Len(t), NEW y \in x..Len(t)
      PROVE  Part(t, x, y) \in Seq(Chars) /\ ~Has(Part(t, x, y), Forbidden)
  <2>1. PICK q \in Seq(Chars) : /\ q = Part(t, x, y) /\ Len(q) = y - x
                                /\ \A z \in 1..y - x : q[z] = t[x + z]
    BY PartIs
  <2>2. ASSUME NEW z \in DOMAIN q PROVE q[z] \notin Forbidden
    <3>1. z \in 1..y - x /\ x + z \in DOMAIN t
      BY <2>1
    <3> QED  BY <1>1, <2>1, <3>1 DEF StartsHttp, Has
  <2> QED  BY <2>1, <2>2 DEF Has
<1>6. /\ Part(t, 4, i) \in Seq(Chars) /\ Part(t, i, j) \in Seq(Chars)
      /\ Part(t, j, k) \in Seq(Chars)
      /\ ~Has(Part(t, 4, i), Forbidden) /\ ~Has(Part(t, j, k), Forbidden)
  <2>1. i \in 0..Len(t) /\ j \in 0..Len(t)
    OBVIOUS
  <2> QED  BY <1>4, <1>5, <2>1
<1>7. Parse(t) = Accepted(UrlOf(HostText(Part(t, 4, i)), IsLiteral(Part(t, 4, i)),
                                PortOfText(Part(t, i, j)), WithPath(Part(t, j, k))))
  BY <1>1, <1>2, CutParses
<1> QED  BY <1>3, <1>6, <1>7

\* What build_origin and append_generated_host write for a server reads as that server.
LEMMA ServerAgain ==
  ASSUME NEW h \in Seq(Chars), NEW p \in Seq(Chars), NEW r, NEW u,
         IsHost(h), IsPortPart(p), u = UrlOf(HostText(h), IsLiteral(h), PortOfText(p), r)
  PROVE  \E q \in Seq(Chars) : /\ HostOf(u) = h \o q /\ IsPortPart(q)
                               /\ PortOfText(q) = PortOfText(p) /\ ~Has(q, Forbidden)
<1>1. /\ u.host = HostText(h) /\ u.literal = IsLiteral(h) /\ u.port = PortOfText(p)
  BY DEF UrlOf
<1>2. (IF u.literal THEN <<"[">> \o u.host \o <<"]">> ELSE u.host) = h
  <2>1. CASE IsLiteral(h)
    BY <1>1, <2>1, AuthorityOfLiteral DEF HostText
  <2>2. CASE ~IsLiteral(h)
    BY <1>1, <2>2 DEF HostText
  <2> QED  BY <2>1, <2>2
<1>3. PICK q : q = IF u.port = 0 THEN <<>> ELSE <<":", ToString(u.port)>>
  OBVIOUS
<1>4. HostOf(u) = h \o q
  BY <1>2, <1>3, Zenon DEF HostOf
<1>5. CASE p = <<>>
  <2>1. u.port = 0
    BY <1>1, <1>5 DEF PortOfText
  <2>2. q = <<>>
    BY <1>3, <2>1
  <2>3. <<>> \in Seq(Chars) /\ ~Has(<<>>, Forbidden) /\ IsPortPart(<<>>)
    BY DEF Has, IsPortPart
  <2> QED  BY <1>4, <1>5, <2>2, <2>3
<1>6. CASE p # <<>>
  <2>1. PICK w \in DOMAIN PortOf : w = p[2]
    BY <1>6, PortPart
  <2>2. u.port = PortOf[w] /\ u.port # 0
    BY <1>1, <1>6, <2>1, PortWords DEF PortOfText
  <2>3. PICK v : v = ToString(u.port) /\ v \in DOMAIN PortOf /\ PortOf[v] = PortOf[w]
    BY <2>2, SchemeAssumption
  <2>4. q = <<":", v>>
    BY <1>3, <2>2, <2>3
  <2>5. v \in Chars /\ v \notin Forbidden /\ ":" \in Chars /\ ":" \notin Forbidden
    BY <2>3, PortWords, DelimitersPlain DEF Delimiters
  <2>6. q \in Seq(Chars) /\ Len(q) = 2 /\ q[1] = ":" /\ q[2] = v /\ DOMAIN q = {1, 2} /\ q # <<>>
    BY <2>4, <2>5
  <2>7. IsPortPart(q) /\ PortOfText(q) = PortOfText(p)
    BY <1>6, <2>1, <2>3, <2>6 DEF IsPortPart, PortOfText
  <2>8. ~Has(q, Forbidden)
    BY <2>5, <2>6 DEF Has
  <2> QED  BY <1>4, <2>6, <2>7, <2>8
<1> QED  BY <1>5, <1>6

\* The scheme that build_origin writes.
LEMMA SchemeText ==
  \E o \in Seq(Chars) :
    /\ o = <<"http">> \o Separator /\ Len(o) = 4
    /\ o[1] \in Http /\ o[2] = ":" /\ o[3] = "/" /\ o[4] = "/"
    /\ ~Has(o, Forbidden) /\ ~Has(o, {"#"})
<1>1. "http" \in Chars /\ "http" \notin Forbidden
  BY WordAssumption DEF Chars, Tokens
<1>2. ":" \notin Forbidden /\ "/" \notin Forbidden
  BY DelimitersPlain DEF Delimiters
<1>3. PICK s \in Seq(Chars) : s = <<"http">> /\ Len(s) = 1 /\ s[1] = "http"
  <2>1. <<"http">> \in Seq(Chars) /\ Len(<<"http">>) = 1 /\ <<"http">>[1] = "http"
    BY <1>1
  <2> QED  BY <2>1
<1>4. PICK o \in Seq(Chars) : o = s \o Separator
  BY SeparatorTokens, Behind
<1>5. Len(o) = 4 /\ o[1] = "http" /\ o[2] = ":" /\ o[3] = "/" /\ o[4] = "/"
  <2>1. /\ Len(s \o Separator) = Len(s) + Len(Separator)
        /\ \A j \in 1..Len(s) : (s \o Separator)[j] = s[j]
        /\ \A j \in 1..Len(Separator) : (s \o Separator)[Len(s) + j] = Separator[j]
    BY SeparatorTokens, Behind
  <2> QED  BY <1>3, <1>4, <2>1, SeparatorTokens
<1>6. DOMAIN o = 1..4 /\ \A i \in 1..4 : o[i] \in {"http", ":", "/"}
  <2>1. \A i \in 1..4 : i = 1 \/ i = 2 \/ i = 3 \/ i = 4
    OBVIOUS
  <2>2. DOMAIN o = 1..4
    BY <1>5
  <2> QED  BY <1>5, <2>1, <2>2
<1>7. ~Has(o, Forbidden) /\ ~Has(o, {"#"})
  BY <1>1, <1>2, <1>6 DEF Has
<1> QED  BY <1>3, <1>4, <1>5, <1>7 DEF Http

\* A Url with another target.
LEMMA UrlWith ==
  \A host, literal, port, target, z :
    [UrlOf(host, literal, port, z) EXCEPT !.target = target] = UrlOf(host, literal, port, target)
  BY DEF UrlOf

ParsesBehind(u, e) ==
  /\ Origin(u) \in Seq(Chars) /\ Origin(u) # <<>> /\ ~Has(Origin(u) \o e, {"#"})
  /\ IF Has(e, Forbidden \cup BadEscapes) THEN Parse(Origin(u) \o e).error # "none"
     ELSE Parse(Origin(u) \o e) = Accepted([u EXCEPT !.target = WithPath(e)])

\* A server and a target, written as a URL, are parsed as that server and that target,
\* unless a character of the target is not allowed.
LEMMA OriginParses ==
  ASSUME NEW h \in Seq(Chars), NEW p \in Seq(Chars), NEW z, NEW u, NEW r \in Seq(Chars),
         IsHost(h), IsPortPart(p), ~Has(h, Forbidden),
         u = UrlOf(HostText(h), IsLiteral(h), PortOfText(p), z),
         r = <<>> \/ r[1] \in Server, ~Has(r, {"#"})
  PROVE  ParsesBehind(u, r)
<1>1. PICK o \in Seq(Chars) :
        /\ o = <<"http">> \o Separator /\ Len(o) = 4
        /\ o[1] \in Http /\ o[2] = ":" /\ o[3] = "/" /\ o[4] = "/"
        /\ ~Has(o, Forbidden) /\ ~Has(o, {"#"})
  BY SchemeText
<1>2. PICK q \in Seq(Chars) : /\ HostOf(u) = h \o q /\ IsPortPart(q)
                              /\ PortOfText(q) = PortOfText(p) /\ ~Has(q, Forbidden)
  BY ServerAgain, ZenonT(30)
<1>3. PICK a \in Seq(Chars) : a = h \o q
  BY Behind
<1>4. PICK b \in Seq(Chars) : b = o \o a
  BY Behind
<1>5. Origin(u) = b
  BY <1>1, <1>2, <1>3, <1>4 DEF Origin
<1>6. PICK text \in Seq(Chars) : text = a \o r
  BY Behind
<1>7. PICK s \in Seq(Chars) : s = b \o r /\ s = o \o text
  <2>1. b \o r \in Seq(Chars)
    BY Behind
  <2>2. (o \o a) \o r = o \o (a \o r)
    BY ONLY o \in Seq(Chars), a \in Seq(Chars), r \in Seq(Chars)
  <2> QED  BY <1>4, <1>6, <2>1, <2>2
<1>8. Len(s) >= 4 /\ s[1] \in Http /\ s[2] = ":" /\ s[3] = "/" /\ s[4] = "/"
  <2>1. Len(s) = 4 + Len(text) /\ \A j \in 1..4 : s[j] = o[j]
    BY <1>1, <1>7, Behind
  <2> QED  BY <1>1, <2>1
<1>9. ~Has(a, {"/", "?", "#"})
  BY <1>2, <1>3, AuthorityOf
<1>10. \A S : Has(s, S) <=> Has(o, S) \/ Has(a, S) \/ Has(r, S)
  <2>1. \A S : Has(b, S) <=> Has(o, S) \/ Has(a, S)
    BY <1>4, HasJoined
  <2>2. \A S : Has(b \o r, S) <=> Has(b, S) \/ Has(r, S)
    BY HasJoined
  <2>3. s = b \o r
    BY <1>7
  <2> QED  BY ONLY <2>1, <2>2, <2>3
<1>11. ~Has(s, {"#"})
  <2>1. ~Has(a, {"#"})
    BY <1>9 DEF Has
  <2> QED  BY <1>1, <1>10, <2>1
<1>12. ~Has(a, Forbidden)
  BY <1>2, <1>3, HasJoined
<1>13. Has(s, Forbidden) <=> Has(r, Forbidden)
  BY <1>1, <1>10, <1>12
<1>14. Has(r, Forbidden \cup BadEscapes) <=> Has(r, Forbidden) \/ Has(r, BadEscapes)
  BY DEF Has
<1>15. Origin(u) # <<>>
  <2>1. Len(b) = Len(o) + Len(a)
    BY <1>4, Behind
  <2>2. Len(b) >= 4
    BY <1>1, <2>1
  <2> QED  BY <1>5, <2>2
<1>16. CASE Has(r, Forbidden)
  <2>1. ~IsHttp(s)
    BY <1>13, <1>16 DEF IsHttp
  <2>2. Parse(s).error # "none"
    BY <2>1, ParsedIsHttp
  <2> QED  BY <1>5, <1>7, <1>11, <1>14, <1>15, <1>16, <2>2 DEF ParsesBehind
<1>17. CASE ~Has(r, Forbidden)
  <2>1. IsHttp(s)
    BY <1>8, <1>13, <1>17 DEF IsHttp
  <2>2. NoFragment(s) = s
    BY <1>11, NothingToCut
  <2>3. From(s, 5) = text
    <3>1. Len(o) + 1 = 5
      BY <1>1
    <3> QED  BY <1>7, <3>1, PartsOfTwo
  <2>4. Parse(s) = ParseText(text)
    BY <2>1, <2>2, <2>3, ParseHttp
  <2>5. CASE Has(r, BadEscapes)
    <3>1. Authority(text) = a /\ TargetOf(text) = WithPath(r)
      BY <1>6, <1>9, TargetBehind
    <3>2. "/" \in Chars
      BY DelimitersPlain DEF Delimiters
    <3>3. <<"/">> \in Seq(Chars)
      BY <3>2
    <3>4. Has(WithPath(r), BadEscapes)
      BY <2>5, <3>3, HasJoined DEF WithPath
    <3>5. ParseText(text).error # "none"
      <4>1. \A e : Rejected(e).error = e
        BY DEF Rejected
      <4> QED  BY <3>1, <3>4, <4>1 DEF ParseText
    <3> QED  BY <1>5, <1>7, <1>11, <1>14, <1>15, <2>4, <2>5, <3>5 DEF ParsesBehind
  <2>6. CASE ~Has(r, BadEscapes)
    <3>1. IsTarget(r)
      <4>1. ~Has(r, {"#"} \cup BadEscapes)
        BY <2>6 DEF Has
      <4> QED  BY <4>1 DEF IsTarget, Server
    <3>2. Parse(s) = Accepted(UrlOf(HostText(h), IsLiteral(h), PortOfText(p), WithPath(r)))
      BY <1>2, <1>3, <1>6, <2>4, <3>1, ParseJoined
    <3>3. PICK host, literal, port, target :
            host = HostText(h) /\ literal = IsLiteral(h) /\ port = PortOfText(p) /\ target = WithPath(r)
      OBVIOUS
    <3>4. u = UrlOf(host, literal, port, z)
      BY <3>3
    <3>5. [u EXCEPT !.target = target] = UrlOf(host, literal, port, target)
      BY ONLY <3>4, UrlWith
    <3>6. Parse(s) = Accepted([u EXCEPT !.target = WithPath(r)])
      BY ONLY <3>2, <3>3, <3>5
    <3>7. ~Has(r, Forbidden \cup BadEscapes)
      BY <1>14, <1>17, <2>6
    <3>8. Origin(u) \o r = s
      BY <1>5, <1>7
    <3> QED  BY ONLY <1>5, <1>11, <1>15, <3>6, <3>7, <3>8, s \in Seq(Chars), b \in Seq(Chars)
                  DEF ParsesBehind
  <2> QED  BY <2>5, <2>6
<1> QED  BY <1>16, <1>17

\* What the code looks for in a Location: the path, and what follows it.
LEMMA LocationParts ==
  ASSUME NEW loc \in Seq(Chars)
  PROVE  \E x, y, q \in Seq(Chars) :
           /\ x = Before(loc, FirstOf(loc, {"?", "#"})) /\ y = From(loc, FirstOf(loc, {"?", "#"}))
           /\ q = NoFragment(y) /\ ~Has(x, {"?", "#"}) /\ ~Has(q, {"#"})
           /\ q = <<>> \/ q[1] = "?"
           /\ \A S : ~Has(loc, S) => ~Has(x, S) /\ ~Has(q, S)
           /\ loc # <<>> /\ loc[1] \notin {"?", "#"} => x # <<>> /\ x[1] = loc[1]
           /\ loc # <<>> /\ loc[1] \in {"?", "#"} => x = <<>> /\ y = loc
<1>1. PICK n \in 1..Len(loc) + 1 :
        n = FirstOf(loc, {"?", "#"}) /\ IsFirst(loc, {"?", "#"}, n)
  BY FirstOfIsFirst DEF IsFirst
<1>2. PICK x, y \in Seq(Chars) :
        /\ x = Before(loc, n) /\ Len(x) = n - 1 /\ \A j \in 1..n - 1 : x[j] = loc[j]
        /\ y = From(loc, n) /\ Len(y) = Len(loc) + 1 - n
        /\ \A j \in 1..Len(loc) + 1 - n : y[j] = loc[n - 1 + j]
  BY Parts
<1>3. loc = x \o y
  BY <1>2, SplitText
<1>4. PICK q \in Seq(Chars) : q = NoFragment(y)
  BY FragmentOff
<1>5. ~Has(x, {"?", "#"})
  <2>1. DOMAIN x = 1..n - 1
    BY <1>2
  <2> QED  BY <1>1, <1>2, <2>1 DEF Has, IsFirst
<1>6. y = <<>> \/ y[1] = "?" \/ y[1] = "#"
  <2>1. SUFFICES ASSUME y # <<>> PROVE y[1] \in {"?", "#"}
    OBVIOUS
  <2>2. 1 \in 1..Len(loc) + 1 - n /\ n \in 1..Len(loc) /\ n - 1 + 1 = n
    BY <1>2, <2>1
  <2> QED  BY <1>1, <1>2, <2>2 DEF IsFirst
<1>7. (q = <<>> \/ q[1] = "?") /\ ~Has(q, {"#"})
  <2>1. y = <<>> \/ y[1] = "#" => q = <<>>
    BY <1>4, FragmentOff
  <2>2. y # <<>> /\ y[1] # "#" => q[1] = y[1]
    BY <1>4, FragmentOff
  <2> QED  BY <1>4, <1>6, <2>1, <2>2, FragmentOff
<1>8. \A S : ~Has(loc, S) => ~Has(x, S) /\ ~Has(q, S)
  BY <1>3, <1>4, HasJoined, FragmentOff
<1>9. ASSUME loc # <<>>, loc[1] \notin {"?", "#"} PROVE x # <<>> /\ x[1] = loc[1]
  <2>1. n # 1
    <3>1. 1 \in 1..Len(loc)
      BY <1>9
    <3> QED  BY <1>1, <1>9, <3>1 DEF IsFirst
  <2>2. 1 \in 1..n - 1
    BY <2>1
  <2> QED  BY <1>2, <2>2
<1>10. ASSUME loc # <<>>, loc[1] \in {"?", "#"} PROVE x = <<>> /\ y = loc
  <2>1. ~(1 \in 1..n - 1)
    BY <1>1, <1>10 DEF IsFirst
  <2>2. Len(x) = 0
    BY <1>2, <2>1
  <2> QED  BY <1>3, <2>2
<1> QED  BY <1>1, <1>2, <1>4, <1>5, <1>7, <1>8, <1>9, <1>10

\* What validate_redirect_url makes of a candidate.
LEMMA ValidateIs ==
  ASSUME NEW c
  PROVE  /\ Parse(NoFragment(c)).error = "none"
              => Validate(c) = [error |-> "none", text |-> NoFragment(c)]
         /\ Parse(NoFragment(c)).error # "none"
              => Validate(c).error # "none" /\ Validate(c).text = <<>>
<1>1. PICK e : e = Parse(NoFragment(c)).error
  OBVIOUS
<1>2. Validate(c) = CASE e = "none"              -> [error |-> "none", text |-> NoFragment(c)]
                      [] e = "UnsupportedScheme" -> Failed("UnsupportedRedirectScheme")
                      [] OTHER                   -> Failed(e)
  BY <1>1, Zenon DEF Validate
<1>3. \A d : Failed(d).error = d /\ Failed(d).text = <<>>
  BY DEF Failed
<1>4. e = "none" => Validate(c) = [error |-> "none", text |-> NoFragment(c)]
  BY <1>2
<1>5. e # "none" => Validate(c).error # "none" /\ Validate(c).text = <<>>
  BY <1>2, <1>3
<1> QED  BY <1>1, <1>4, <1>5

\* Three texts behind each other.
LEMMA Associative ==
  \A a, b, c \in Seq(Chars) : (a \o b) \o c = a \o (b \o c)
<1>1. SUFFICES ASSUME NEW a \in Seq(Chars), NEW b \in Seq(Chars), NEW c \in Seq(Chars)
               PROVE  (a \o b) \o c = a \o (b \o c)
  OBVIOUS
<1> QED  BY ONLY a \in Seq(Chars), b \in Seq(Chars), c \in Seq(Chars)

\* A text without some tokens.
LEMMA Without ==
  ASSUME NEW S
  PROVE  /\ \A s \in Seq(Chars) : ~Has(s, S) <=> s \in Seq(Chars \ S)
         /\ Seq(Chars \ S) \subseteq Seq(Chars)
<1>1. \A s \in Seq(Chars) : ~Has(s, S) => s \in Seq(Chars \ S)
  <2>1. SUFFICES ASSUME NEW s \in Seq(Chars), ~Has(s, S) PROVE s \in Seq(Chars \ S)
    OBVIOUS
  <2>2. DOMAIN s = 1..Len(s) /\ \A i \in 1..Len(s) : s[i] \in Chars /\ s[i] \notin S
    BY <2>1 DEF Has
  <2>3. \A i \in 1..Len(s) : s[i] \in Chars \ S
    BY <2>2
  <2> QED  BY <2>3, IsASeq
<1>2. \A s \in Seq(Chars \ S) : ~Has(s, S) /\ s \in Seq(Chars)
  BY DEF Has
<1> QED  BY <1>1, <1>2

\* The path of a URL, and the part of it that a relative path takes the place behind.
LEMMA BasePath ==
  ASSUME NEW u, u.target \in Seq(Chars), u.target # <<>>, u.target[1] = "/"
  PROVE  \E P, d \in Seq(Chars) :
           /\ P = Path(u) /\ P # <<>> /\ P[1] = "/"
           /\ d = Directory(P) /\ d # <<>> /\ d[1] = "/"
           /\ \A S : ~Has(u.target, S) => ~Has(P, S) /\ ~Has(d, S)
<1>1. PICK t \in Seq(Chars) : t = u.target /\ t # <<>> /\ t[1] = "/"
  OBVIOUS
<1>2. PICK n \in 1..Len(t) + 1 : n = FirstOf(t, {"?"}) /\ IsFirst(t, {"?"}, n)
  BY FirstOfIsFirst DEF IsFirst
<1>3. n # 1
  <2>1. 1 \in 1..Len(t) /\ t[1] \notin {"?"}
    BY <1>1
  <2> QED  BY <1>2, <2>1 DEF IsFirst
<1>4. PICK P \in Seq(Chars) : P = Before(t, n) /\ Len(P) = n - 1 /\ \A j \in 1..n - 1 : P[j] = t[j]
  BY Parts
<1>5. 1 \in 1..Len(P) /\ 1 \in 1..n - 1 /\ n - 1 \in 0..Len(t)
  BY <1>3, <1>4
<1>6. P # <<>> /\ P[1] = "/"
  BY <1>1, <1>4, <1>5
<1>7. P = Path(u)
  BY <1>1, <1>2, <1>4 DEF Path
<1>8. PICK k \in 1..Len(P) : k = LastSlash(P)
  BY <1>5, <1>6, HasLastSlash
<1>9. PICK e \in 1..Len(P) + 1 : e = k + 1 /\ e - 1 = k /\ 1 \in 1..k
  OBVIOUS
<1>10. PICK d \in Seq(Chars) : d = Before(P, k + 1) /\ Len(d) = k /\ \A j \in 1..k : d[j] = P[j]
  <2>1. /\ Before(P, e) \in Seq(Chars) /\ Len(Before(P, e)) = e - 1
        /\ \A j \in 1..e - 1 : Before(P, e)[j] = P[j]
    BY Parts
  <2> QED  BY <1>9, <2>1
<1>11. d = Directory(P) /\ d # <<>> /\ d[1] = "/"
  BY <1>6, <1>8, <1>9, <1>10 DEF Directory
<1>12. ASSUME NEW S, ~Has(t, S) PROVE ~Has(P, S) /\ ~Has(d, S)
  <2>1. DOMAIN t = 1..Len(t) /\ DOMAIN P = 1..n - 1 /\ DOMAIN d = 1..k
    BY <1>4, <1>10
  <2>2. ~Has(P, S)
    BY <1>4, <1>5, <1>12, <2>1 DEF Has
  <2>3. \A j \in 1..k : d[j] = P[j] /\ j \in 1..n - 1
    BY <1>4, <1>10
  <2> QED  BY <2>1, <2>2, <2>3 DEF Has
<1> QED  BY <1>1, <1>6, <1>7, <1>11, <1>12

\* The path that a Location with a path leads to.
Merged(d, x) == IF x[1] = "/" THEN x ELSE d \o x
IsPathTo(r, m, x, B) ==
  /\ r = ButOneSlash(m, RfcPath(m)) /\ r \in Seq(Chars) /\ ~Has(r, {"#"})
  /\ r # <<>> /\ r[1] = "/" /\ (~Has(x, B) => ~Has(r, B))
\* A merged path without dot segments is a path again, with no token that was in neither part.
LEMMA MergedPath ==
  ASSUME NEW B, NEW d \in Seq(Chars), NEW x \in Seq(Chars), NEW m,
         d # <<>>, d[1] = "/", ~Has(d, {"#"}), ~Has(d, B),
         x # <<>>, ~Has(x, {"#"}), "/" \in Chars, "/" \notin B,
         m = Merged(d, x)
  PROVE  IsPathTo(RemoveDotSegments(m), m, x, B)
<1>1. m \in Seq(Chars) /\ m # <<>> /\ m[1] = "/"
  <2>1. d \o x \in Seq(Chars) /\ Len(d \o x) = Len(d) + Len(x) /\ (d \o x)[1] = d[1]
    <3>1. 1 \in 1..Len(d)
      OBVIOUS
    <3> QED  BY <3>1, Behind
  <2>2. d \o x # <<>>
    BY <2>1
  <2> QED  BY <2>1, <2>2 DEF Merged
<1>2. \A S : ~Has(d, S) /\ ~Has(x, S) => ~Has(m, S)
  BY HasJoined DEF Merged
<1>3. ASSUME NEW S, "/" \notin S, ~Has(d, S), ~Has(x, S)
      PROVE  /\ RemoveDotSegments(m) = ButOneSlash(m, RfcPath(m))
             /\ RemoveDotSegments(m) \in Seq(Chars) /\ ~Has(RemoveDotSegments(m), S)
             /\ RemoveDotSegments(m) # <<>> /\ RemoveDotSegments(m)[1] = "/"
  <2>1. PICK C \in SUBSET Chars : C = Chars \ S /\ "/" \in C
    BY <1>3
  <2>2. m \in Seq(C)
    BY <1>1, <1>2, <1>3, <2>1, Without
  <2>3. /\ RemoveDotSegments(m) = ButOneSlash(m, RfcPath(m))
        /\ RemoveDotSegments(m) \in Seq(C)
        /\ RemoveDotSegments(m) # <<>> /\ RemoveDotSegments(m)[1] = "/"
    BY <1>1, <2>1, <2>2, RemovesDotSegments
  <2> QED  BY <2>1, <2>3, Without
<1>4. "/" \notin {"#"}
  OBVIOUS
<1> QED  BY <1>3, <1>4 DEF IsPathTo

\* The same, behind two texts.
LEMMA FragmentBehindTwo ==
  ASSUME NEW x \in Seq(Chars), NEW y \in Seq(Chars), NEW w \in Seq(Chars),
         ~Has(x, {"#"}), ~Has(y, {"#"})
  PROVE  NoFragment((x \o y) \o w) = x \o (y \o NoFragment(w))
<1>1. PICK g \in Seq(Chars) : g = x \o y
  BY Behind
<1>2. ~Has(g, {"#"})
  BY <1>1, HasJoined
<1>3. NoFragment(g \o w) = g \o NoFragment(w)
  BY <1>2, FragmentBehind
<1>4. PICK v \in Seq(Chars) : v = NoFragment(w)
  BY FragmentOff
<1>5. (x \o y) \o v = x \o (y \o v)
  BY Associative
<1> QED  BY <1>1, <1>3, <1>4, <1>5

\* The target that a relative Location leads to, and the candidate that is validated.
LEMMA ResolveIs ==
  ASSUME NEW u, NEW B, Origin(u) \in Seq(Chars), ~Has(Origin(u), {"#"}),
         u.target \in Seq(Chars), u.target # <<>>, u.target[1] = "/",
         ~Has(u.target, {"#"}), ~Has(u.target, B), "/" \in Chars, "/" \notin B,
         NEW loc \in Seq(Chars), Relative(loc)
  PROVE  \E r \in Seq(Chars) : \E c :
           /\ r = RfcTarget(u, loc) /\ r # <<>> /\ r[1] = "/"
           /\ ~Has(r, {"#"}) /\ (~Has(loc, B) => ~Has(r, B))
           /\ Resolve(u, loc) = Validate(c) /\ NoFragment(c) = Origin(u) \o r
<1>1. PICK base, t \in Seq(Chars) : base = Origin(u) /\ t = u.target
  OBVIOUS
<1>2. ASSUME NEW r \in Seq(Chars), NEW w \in Seq(Chars), ~Has(r, {"#"})
      PROVE  NoFragment((base \o r) \o w) = base \o (r \o NoFragment(w))
  <2>1. ~Has(base, {"#"})
    BY <1>1
  <2> QED  BY <1>2, <2>1, FragmentBehindTwo, ZenonT(30)
<1>3. PICK P, d \in Seq(Chars) :
        /\ P = Path(u) /\ P # <<>> /\ P[1] = "/"
        /\ d = Directory(P) /\ d # <<>> /\ d[1] = "/"
        /\ \A S : ~Has(u.target, S) => ~Has(P, S) /\ ~Has(d, S)
  BY BasePath
<1>4. PICK x, y, q \in Seq(Chars) :
        /\ x = Before(loc, FirstOf(loc, {"?", "#"})) /\ y = From(loc, FirstOf(loc, {"?", "#"}))
        /\ q = NoFragment(y) /\ ~Has(x, {"?", "#"}) /\ ~Has(q, {"#"})
        /\ q = <<>> \/ q[1] = "?"
        /\ \A S : ~Has(loc, S) => ~Has(x, S) /\ ~Has(q, S)
        /\ loc # <<>> /\ loc[1] \notin {"?", "#"} => x # <<>> /\ x[1] = loc[1]
        /\ loc # <<>> /\ loc[1] \in {"?", "#"} => x = <<>> /\ y = loc
  BY LocationParts
<1>5. loc # <<>> /\ ~HasScheme(loc) /\ ~IsPrefix(<<"/", "/">>, loc)
  BY DEF Relative
<1>6. PICK m : m = IF x # <<>> /\ x[1] = "/" THEN x ELSE d \o x
  OBVIOUS
<1>7. RfcTarget(u, loc) = IF x # <<>> THEN ButOneSlash(m, RfcPath(m)) \o q
                          ELSE IF q # <<>> THEN P \o q ELSE t
  BY <1>1, <1>3, <1>4, <1>6, Zenon DEF RfcTarget, Directory
<1>8. x # <<>> => m = Merged(d, x)
  BY <1>6 DEF Merged
<1>9. CASE loc[1] = "#"
  <2>1. x = <<>> /\ y = loc /\ q = <<>>
    BY <1>4, <1>5, <1>9, FragmentOff
  <2>2. RfcTarget(u, loc) = t
    BY <1>7, <2>1
  <2>3. Resolve(u, loc) = Validate(Origin(u) \o u.target \o loc)
    <3>1. loc[1] # "?"
      BY <1>9
    <3> QED  BY <1>5, <1>9, <3>1 DEF Resolve
  <2>4. NoFragment((base \o t) \o loc) = base \o t
    <3>1. t \o q = t
      BY <2>1
    <3>2. NoFragment((base \o t) \o loc) = base \o (t \o NoFragment(loc))
      BY <1>1, <1>2
    <3> QED  BY <1>4, <2>1, <3>1, <3>2
  <2> QED  BY <1>1, <2>2, <2>3, <2>4
<1>10. CASE loc[1] = "?"
  <2>1. x = <<>> /\ y = loc /\ q # <<>>
    BY <1>4, <1>5, <1>10, FragmentOff
  <2>2. RfcTarget(u, loc) = P \o q
    BY <1>7, <2>1
  <2>3. Resolve(u, loc) = Validate(Origin(u) \o Path(u) \o loc)
    <3>1. loc[1] # "#"
      BY <1>10
    <3> QED  BY <1>5, <1>10, <3>1 DEF Resolve
  <2>4. ~Has(P, {"#"}) /\ ~Has(P, B)
    BY <1>3
  <2>5. NoFragment((base \o P) \o loc) = base \o (P \o q)
    <3>1. NoFragment((base \o P) \o loc) = base \o (P \o NoFragment(loc))
      BY <1>2, <2>4
    <3>2. NoFragment(loc) = q
      BY <1>4, <2>1, Zenon
    <3> QED  BY <3>1, <3>2
  <2>6. PICK r \in Seq(Chars) : r = P \o q /\ r # <<>> /\ r[1] = "/"
    <3>1. P \o q \in Seq(Chars) /\ Len(P \o q) = Len(P) + Len(q)
          /\ \A j \in 1..Len(P) : (P \o q)[j] = P[j]
      BY Behind
    <3>2. 1 \in 1..Len(P) /\ Len(q) \in Nat
      BY <1>3
    <3>3. (P \o q)[1] = "/" /\ Len(P \o q) # 0
      BY <1>3, <3>1, <3>2
    <3>4. P \o q # <<>>
      BY <3>3
    <3> QED  BY <3>1, <3>3, <3>4, Zenon
  <2>7. \A S : Has(P \o q, S) <=> Has(P, S) \/ Has(q, S)
    BY HasJoined
  <2>8. ~Has(r, {"#"}) /\ (~Has(loc, B) => ~Has(r, B))
    BY <1>4, <2>4, <2>6, <2>7
  <2> QED  BY <1>1, <1>3, <2>2, <2>3, <2>5, <2>6, <2>8
<1>11. CASE loc[1] \notin {"?", "#"}
  <2>1. x # <<>> /\ x[1] = loc[1]
    BY <1>4, <1>5, <1>11
  <2>2. PICK path : path = RemoveDotSegments(m)
    OBVIOUS
  <2>3. m = Merged(d, x)
    BY <1>8, <2>1
  <2>4. ~Has(d, {"#"}) /\ ~Has(d, B) /\ ~Has(x, {"#"})
    BY <1>3, <1>4 DEF Has
  <2>5. /\ path = ButOneSlash(m, RfcPath(m)) /\ path \in Seq(Chars) /\ ~Has(path, {"#"})
        /\ path # <<>> /\ path[1] = "/" /\ (~Has(x, B) => ~Has(path, B))
    <3>1. d # <<>> /\ d[1] = "/"
      BY <1>3
    <3>2. IsPathTo(path, m, x, B)
      BY <2>1, <2>2, <2>3, <2>4, <3>1, MergedPath
    <3> QED  BY <3>2 DEF IsPathTo
  <2>6. RfcTarget(u, loc) = path \o q
    BY <1>7, <2>1, <2>5
  <2>7. Resolve(u, loc) = Validate(Origin(u) \o path \o y)
    <3>1. m = IF loc[1] = "/" THEN x ELSE Directory(Path(u)) \o x
      BY <1>3, <2>1, <2>3 DEF Merged
    <3>2. loc[1] # "?" /\ loc[1] # "#"
      BY <1>11
    <3>3. Resolve(u, loc) = Validate(Origin(u) \o RemoveDotSegments(m) \o y)
      BY <1>4, <1>5, <3>1, <3>2 DEF Resolve
    <3> QED  BY <2>2, <3>3
  <2>8. NoFragment((base \o path) \o y) = base \o (path \o q)
    BY <1>4, <1>2, <2>5
  <2>9. PICK r \in Seq(Chars) : r = path \o q /\ r # <<>> /\ r[1] = "/"
    <3>1. path \o q \in Seq(Chars) /\ Len(path \o q) = Len(path) + Len(q)
          /\ \A j \in 1..Len(path) : (path \o q)[j] = path[j]
      BY <2>5, Behind
    <3>2. 1 \in 1..Len(path) /\ Len(q) \in Nat
      BY <2>5
    <3>3. (path \o q)[1] = "/" /\ Len(path \o q) # 0
      BY <2>5, <3>1, <3>2
    <3>4. path \o q # <<>>
      BY <3>3
    <3> QED  BY <3>1, <3>3, <3>4, Zenon
  <2>10. \A S : Has(path \o q, S) <=> Has(path, S) \/ Has(q, S)
    BY <2>5, HasJoined
  <2>11. ~Has(r, {"#"}) /\ (~Has(loc, B) => ~Has(r, B))
    BY <1>4, <2>5, <2>9, <2>10
  <2> QED  BY <1>1, <2>6, <2>7, <2>8, <2>9, <2>11
<1> QED  BY <1>9, <1>10, <1>11

\* The texts of a request, and of what became of it, are made of Chars.
LEMMA TextsAreChars ==
  ASSUME Built
  PROVE  /\ url \in Seq(Chars) /\ location \in Seq(Chars)
         /\ EffectiveUrl \in Seq(Chars)
<1>1. Urls \cup Locations \subseteq Seq(Chars)
  <2>1. Tokens \subseteq Chars
    BY DEF Chars
  <2>2. Seq(Tokens) \subseteq Seq(Chars)
    BY <2>1
  <2> QED  BY <2>2, RequestAssumption DEF Texts
<1>2. url \in Seq(Chars) /\ location \in Seq(Chars)
  <2>1. <<>> \in Seq(Chars)
    OBVIOUS
  <2> QED  BY <1>1, <2>1 DEF Built
<1>3. EffectiveUrl \in Seq(Chars)
  <2>1. PICK s \in Seq(Chars) : s = NoFragment(url)
    BY <1>2, FragmentOff
  <2>2. PICK w \in Seq(Chars) : s \o w = s \o Glue(s) \o List(params)
    BY Appendix DEF Built
  <2>3. EffectiveUrl = IF params = <<>> THEN s ELSE s \o w
    BY <2>1, <2>2 DEF EffectiveUrl, AppendQueryParams
  <2> QED  BY <2>3, Behind
<1> QED  BY <1>2, <1>3

\* What is validated comes out, or nothing.
LEMMA ValidatedType ==
  ASSUME NEW c \in Seq(Chars)
  PROVE  Validate(c).text \in Seq(Chars)
<1>1. NoFragment(c) \in Seq(Chars)
  BY FragmentOff
<1>2. PICK text \in Seq(Chars) : text = NoFragment(c)
  BY <1>1
<1>3. <<>> \in Seq(Chars)
  OBVIOUS
<1>4. [error |-> "none", text |-> text].text = text
  OBVIOUS
<1> QED  BY <1>2, <1>3, <1>4, ValidateIs

\* What is parsed of a server and a target.
LEMMA ServerParses ==
  ASSUME NEW h \in Seq(Chars), NEW p \in Seq(Chars), NEW z, NEW u,
         IsHost(h), IsPortPart(p), ~Has(h, Forbidden),
         u = UrlOf(HostText(h), IsLiteral(h), PortOfText(p), z)
  PROVE  \A e \in Seq(Chars) :
           (e = <<>> \/ e[1] \in Server) /\ ~Has(e, {"#"}) => ParsesBehind(u, e)
BY OriginParses

\* So is the server of a URL that was parsed, with any target.
LEMMA ParsedServer ==
  ASSUME NEW t \in Seq(Chars), Parse(t).error = "none"
  PROVE  \A e \in Seq(Chars) :
           (e = <<>> \/ e[1] \in Server) /\ ~Has(e, {"#"}) => ParsesBehind(Parse(t).url, e)
<1>1. PICK h, p, r \in Seq(Chars) :
        /\ IsHost(h) /\ IsPortPart(p) /\ ~Has(h, Forbidden)
        /\ Parse(t) = Accepted(UrlOf(HostText(h), IsLiteral(h), PortOfText(p), WithPath(r)))
  BY ParsedParts
<1>2. PICK z : z = WithPath(r)
  OBVIOUS
<1>3. Parse(t).url = UrlOf(HostText(h), IsLiteral(h), PortOfText(p), z)
  BY <1>1, <1>2 DEF Accepted
<1> QED  BY <1>1, <1>3, ServerParses

\* The parts of a URL that a redirect is resolved from.
IsBase(u) ==
  /\ u.target \in Seq(Chars) /\ u.target # <<>> /\ u.target[1] = "/"
  /\ ~Has(u.target, {"#"}) /\ ~Has(u.target, Forbidden \cup BadEscapes)
  /\ Origin(u) \in Seq(Chars) /\ ~Has(Origin(u), {"#"}) /\ Origin(u) # <<>>
  /\ \A r \in Seq(Chars) :
        r # <<>> /\ r[1] = "/" /\ ~Has(r, {"#"})
          => IF Has(r, Forbidden \cup BadEscapes) THEN Parse(Origin(u) \o r).error # "none"
             ELSE Parse(Origin(u) \o r) = Accepted([u EXCEPT !.target = r])
\* A URL that was parsed is one to resolve from.
LEMMA ParsedIsBase ==
  ASSUME NEW t \in Seq(Chars), Parse(t).error = "none"
  PROVE  IsBase(Parse(t).url)
<1>1. PICK h, p, r \in Seq(Chars) :
        /\ IsHost(h) /\ IsPortPart(p) /\ IsTarget(r)
        /\ ~Has(h, Forbidden) /\ ~Has(r, Forbidden)
        /\ Parse(t) = Accepted(UrlOf(HostText(h), IsLiteral(h), PortOfText(p), WithPath(r)))
  BY ParsedParts
<1>2. "/" \in Chars /\ "/" \notin Forbidden \cup BadEscapes
  BY DelimitersPlain DEF Delimiters
<1>3. PICK z : z = WithPath(r) /\ z \in Seq(Chars) /\ z # <<>> /\ z[1] = "/"
                /\ ~Has(z, {"#"}) /\ ~Has(z, Forbidden \cup BadEscapes)
  <2>1. ~Has(r, {"#"}) /\ ~Has(r, Forbidden \cup BadEscapes)
    BY <1>1 DEF IsTarget, Has
  <2>2. CASE IsPrefix(<<"/">>, r)
    BY <2>1, <2>2, PathIsTarget DEF WithPath
  <2>3. CASE ~IsPrefix(<<"/">>, r)
    <3>1. PICK s \in Seq(Chars) : s = <<"/">> /\ Len(s) = 1 /\ s[1] = "/"
      <4>1. <<"/">> \in Seq(Chars) /\ Len(<<"/">>) = 1 /\ <<"/">>[1] = "/"
        BY <1>2
      <4> QED  BY <4>1
    <3>2. ~Has(s, {"#"}) /\ ~Has(s, Forbidden \cup BadEscapes)
      <4>1. DOMAIN s = {1}
        BY <3>1
      <4> QED  BY <1>2, <3>1, <4>1 DEF Has
    <3>3. /\ s \o r \in Seq(Chars) /\ Len(s \o r) = Len(s) + Len(r)
          /\ \A j \in 1..Len(s) : (s \o r)[j] = s[j]
      BY Behind
    <3>4. (s \o r)[1] = "/" /\ s \o r # <<>>
      BY <3>1, <3>3
    <3>5. \A S : Has(s \o r, S) <=> Has(s, S) \/ Has(r, S)
      BY HasJoined
    <3>6. ~Has(s \o r, {"#"}) /\ ~Has(s \o r, Forbidden \cup BadEscapes)
      BY <2>1, <3>2, <3>5
    <3>7. WithPath(r) = s \o r
      BY <2>3, <3>1 DEF WithPath
    <3> QED  BY <3>3, <3>4, <3>6, <3>7
  <2> QED  BY <2>2, <2>3
<1>4. PICK u : u = Parse(t).url
  OBVIOUS
<1>5. u.target = z
  BY <1>1, <1>3, <1>4 DEF Accepted, UrlOf
<1>6. \A e \in Seq(Chars) :
        (e = <<>> \/ e[1] \in Server) /\ ~Has(e, {"#"}) => ParsesBehind(u, e)
  BY <1>4, ParsedServer
<1>7. Origin(u) \in Seq(Chars) /\ ~Has(Origin(u), {"#"}) /\ Origin(u) # <<>>
  <2>1. <<>> \in Seq(Chars) /\ ~Has(<<>>, {"#"})
    BY DEF Has
  <2>2. Origin(u) \in Seq(Chars) /\ ~Has(Origin(u) \o <<>>, {"#"}) /\ Origin(u) # <<>>
    BY <1>6, <2>1 DEF ParsesBehind
  <2>3. Origin(u) \o <<>> = Origin(u)
    BY <2>2
  <2> QED  BY <2>2, <2>3
<1>8. ASSUME NEW e \in Seq(Chars), e # <<>>, e[1] = "/", ~Has(e, {"#"})
       PROVE  IF Has(e, Forbidden \cup BadEscapes) THEN Parse(Origin(u) \o e).error # "none"
              ELSE Parse(Origin(u) \o e) = Accepted([u EXCEPT !.target = e])
  <2>1. WithPath(e) = e
    BY <1>8, PathIsTarget DEF WithPath
  <2>2. e[1] \in Server
    BY <1>8 DEF Server
  <2>3. ParsesBehind(u, e)
    BY <1>6, <1>8, <2>2
  <2> QED  BY <2>1, <2>3 DEF ParsesBehind
<1> QED  BY <1>3, <1>4, <1>5, <1>7, <1>8 DEF IsBase

\* A relative Location leads where it should, from a URL that was parsed.
Resolves(u, loc, out) ==
  IF out.error = "none" THEN Parse(out.text) = Accepted([u EXCEPT !.target = RfcTarget(u, loc)])
  ELSE Has(loc, Forbidden \cup BadEscapes)
\* It does, whatever the URL and the Location are.
LEMMA RelativeResolves ==
  ASSUME NEW u, IsBase(u), NEW loc \in Seq(Chars), Relative(loc)
  PROVE  Resolves(u, loc, Resolve(u, loc)) /\ Resolve(u, loc).text \in Seq(Chars)
<1>1. "/" \in Chars /\ "/" \notin Forbidden \cup BadEscapes
  BY DelimitersPlain DEF Delimiters
<1>2. PICK B : B = Forbidden \cup BadEscapes
  OBVIOUS
<1>3. PICK r, c :
        /\ r \in Seq(Chars) /\ r = RfcTarget(u, loc) /\ r # <<>> /\ r[1] = "/"
        /\ ~Has(r, {"#"}) /\ (~Has(loc, B) => ~Has(r, B))
        /\ Resolve(u, loc) = Validate(c) /\ NoFragment(c) = Origin(u) \o r
  <2>1. /\ u.target \in Seq(Chars) /\ u.target # <<>> /\ u.target[1] = "/"
        /\ ~Has(u.target, {"#"}) /\ ~Has(u.target, B)
        /\ Origin(u) \in Seq(Chars) /\ ~Has(Origin(u), {"#"})
    BY <1>2 DEF IsBase
  <2>2. "/" \notin B
    BY <1>1, <1>2
  <2>3. \E r \in Seq(Chars) : \E c :
          /\ r = RfcTarget(u, loc) /\ r # <<>> /\ r[1] = "/"
          /\ ~Has(r, {"#"}) /\ (~Has(loc, B) => ~Has(r, B))
          /\ Resolve(u, loc) = Validate(c) /\ NoFragment(c) = Origin(u) \o r
    BY <1>1, <2>1, <2>2, ResolveIs, ZenonT(30)
  <2> QED  BY <2>3, Zenon
<1>4. PICK text \in Seq(Chars) : text = Origin(u) \o r
  BY <1>3, Behind DEF IsBase
<1>5. IF Has(r, B) THEN Parse(text).error # "none"
      ELSE Parse(text) = Accepted([u EXCEPT !.target = r])
  BY <1>2, <1>3, <1>4 DEF IsBase
<1>6. PICK out : out = Resolve(u, loc)
  OBVIOUS
<1>7. /\ Parse(text).error = "none" => out = [error |-> "none", text |-> text]
      /\ Parse(text).error # "none" => out.error # "none" /\ out.text = <<>>
  BY <1>3, <1>4, <1>6, ValidateIs
<1>8. CASE Has(r, B)
  <2>1. out.error # "none" /\ out.text = <<>> /\ <<>> \in Seq(Chars)
    BY <1>5, <1>7, <1>8
  <2>2. Has(loc, B)
    BY <1>3, <1>8
  <2> QED  BY <1>2, <1>6, <2>1, <2>2 DEF Resolves
<1>9. CASE ~Has(r, B)
  <2>1. PICK v : v = [u EXCEPT !.target = r]
    OBVIOUS
  <2>2. Parse(text) = Accepted(v) /\ Parse(text).error = "none"
    <3>1. Accepted(v).error = "none"
      BY DEF Accepted
    <3> QED  BY <1>5, <1>9, <2>1, <3>1
  <2>3. out.error = "none" /\ out.text = text
    BY <1>7, <2>2
  <2>4. v = [u EXCEPT !.target = RfcTarget(u, loc)]
    BY <1>3, <2>1
  <2> QED  BY <1>6, <2>2, <2>3, <2>4 DEF Resolves
<1> QED  BY <1>8, <1>9

\* A Location with a host begins with a slash.
LEMMA HostBegins ==
  ASSUME NEW loc \in Seq(Chars), IsPrefix(<<"/", "/">>, loc)
  PROVE  loc # <<>> /\ loc[1] = "/"
<1>1. PICK s \in Seq(Chars) : s = <<"/", "/">> /\ Len(s) = 2 /\ s[1] = "/"
  <2>1. "/" \in Chars
    BY DelimitersPlain DEF Delimiters
  <2>2. <<"/", "/">> \in Seq(Chars) /\ Len(<<"/", "/">>) = 2 /\ <<"/", "/">>[1] = "/"
    BY <2>1
  <2> QED  BY <2>2
<1>2. Len(s) <= Len(loc) /\ SubSeq(s, 1, Len(s)) = SubSeq(loc, 1, Len(s))
  BY <1>1 DEF IsPrefix
<1>3. SubSeq(s, 1, Len(s)) = s
  BY SubSeqFull
<1>4. PICK n \in 1..Len(loc) : n = Len(s)
  BY <1>1, <1>2
<1>5. SubSeq(loc, 1, n)[1] = loc[1]
  <2>1. 1 \in 1..n
    OBVIOUS
  <2> QED  BY <2>1
<1> QED  BY <1>1, <1>2, <1>3, <1>4, <1>5

\* Whatever a Location leads to is a text of Chars.
LEMMA ResolveType ==
  ASSUME NEW u, IsBase(u), NEW loc \in Seq(Chars)
  PROVE  Resolve(u, loc).text \in Seq(Chars)
<1>1. \A e : Failed(e).text \in Seq(Chars)
  <2>1. <<>> \in Seq(Chars)
    OBVIOUS
  <2> QED  BY <2>1 DEF Failed
<1>2. CASE loc = <<>>
  BY <1>1, <1>2, Zenon DEF Resolve
<1>3. CASE Relative(loc)
  BY <1>3, RelativeResolves
<1>4. CASE loc # <<>> /\ HasScheme(loc)
  <2>1. Validate(loc).text \in Seq(Chars)
    BY ValidatedType
  <2>2. loc[1] # "#" /\ loc[1] # "?"
    BY <1>4, SchemeAssumption, WordAssumption DEF HasScheme, Delimiters
  <2>3. ~IsPrefix(<<"/", "/">>, loc)
    <3>1. loc[1] # "/"
      BY <1>4, SchemeAssumption, WordAssumption DEF HasScheme, Delimiters
    <3> QED  BY <3>1, HostBegins
  <2>4. Resolve(u, loc) = IF loc[1] \in Http THEN Validate(loc)
                          ELSE Failed("UnsupportedRedirectScheme")
    BY <1>4, <2>2, <2>3 DEF Resolve
  <2> QED  BY <1>1, <2>1, <2>4
<1>5. CASE loc # <<>> /\ ~HasScheme(loc) /\ IsPrefix(<<"/", "/">>, loc)
  <2>1. Resolve(u, loc) = Validate(<<"http", ":">> \o loc)
    <3>1. loc[1] # "#" /\ loc[1] # "?"
      BY <1>5, HostBegins
    <3> QED  BY <1>5, <3>1 DEF Resolve
  <2>2. PICK s \in Seq(Chars) : s = <<"http", ":">>
    <3>1. "http" \in Chars /\ ":" \in Chars
      BY WordAssumption DEF Chars, Tokens, Delimiters
    <3>2. <<"http", ":">> \in Seq(Chars)
      BY <3>1
    <3> QED  BY <3>2
  <2>3. PICK c \in Seq(Chars) : c = s \o loc
    BY Behind
  <2>4. Validate(c).text \in Seq(Chars)
    BY ValidatedType
  <2> QED  BY <2>1, <2>2, <2>3, <2>4
<1> QED  BY <1>2, <1>3, <1>4, <1>5 DEF Relative

-------------------------------------------------------------------------------
(* The head of a request.                                                  *)

HostLine   == [name |-> "Host", value |-> HostOf(Parse(url).url)]
LengthLine == [name |-> "Content-Length", value |-> <<ToString(body)>>]

\* Where the lines of the head come from.
Generated(i, a, c) ==
  \/ a = 1 /\ i = 1 /\ HeadFields[i] = HostLine
  \/ i - a \in DOMAIN fields /\ HeadFields[i] = fields[i - a]
  \/ c = 1 /\ i = a + Len(fields) + 1 /\ HeadFields[i] = LengthLine
IsHead(a, c) ==
  /\ a \in {0, 1} /\ (a = 1 <=> Hosts = {})
  /\ c \in {0, 1} /\ (c = 1 <=> Lengths = {} /\ (body > 0 \/ content))
  /\ \A i \in DOMAIN HeadFields : i \in Int /\ Generated(i, a, c)
  /\ a = 1 => 1 \in DOMAIN HeadFields
  /\ \A j \in DOMAIN fields : j \in Int /\ j + a \in DOMAIN HeadFields
  /\ c = 1 => a + Len(fields) + 1 \in DOMAIN HeadFields

\* Three sequences behind each other.
IsRow(row, x, y, z) ==
  /\ Len(row) = Len(x) + Len(y) + Len(z)
  /\ \A i \in 1..Len(x) : row[i] = x[i]
  /\ \A i \in 1..Len(y) : row[Len(x) + i] = y[i]
  /\ \A i \in 1..Len(z) : row[Len(x) + Len(y) + i] = z[i]
\* Three lists, written behind each other.
LEMMA ThreeJoined ==
  ASSUME NEW S, NEW x \in Seq(S), NEW y \in Seq(S), NEW z \in Seq(S)
  PROVE  (x \o y) \o z \in Seq(S) /\ IsRow((x \o y) \o z, x, y, z)
<1>1. PICK w \in Seq(S) : w = x \o y
  BY ConcatProperties
<1>2. /\ Len(w) = Len(x) + Len(y) /\ \A i \in 1..Len(x) : w[i] = x[i]
      /\ \A i \in 1..Len(y) : w[Len(x) + i] = y[i]
  BY <1>1, ConcatProperties
<1>3. /\ w \o z \in Seq(S) /\ Len(w \o z) = Len(w) + Len(z)
      /\ \A i \in 1..Len(w) : (w \o z)[i] = w[i]
      /\ \A i \in 1..Len(z) : (w \o z)[Len(w) + i] = z[i]
  BY ConcatProperties
<1>4. \A i \in 1..Len(x) : i \in 1..Len(w)
  BY <1>2
<1>5. \A i \in 1..Len(y) : Len(x) + i \in 1..Len(w)
  BY <1>2
<1>6. IsRow(w \o z, x, y, z)
  BY <1>2, <1>3, <1>4, <1>5 DEF IsRow
<1> QED  BY <1>1, <1>3, <1>6

\* The head has the lines of the caller, and the generated ones around them.
LEMMA HeadLines ==
  ASSUME fields \in Seq(Fields)
  PROVE  \E a, c \in {0, 1} : IsHead(a, c)
<1>1. PICK S : S = Fields \cup {HostLine, LengthLine}
  OBVIOUS
<1>2. PICK x \in Seq(S) : /\ x = IF Hosts = {} THEN Field("Host", HostOf(Parse(url).url)) ELSE <<>>
                          /\ Len(x) = IF Hosts = {} THEN 1 ELSE 0
                          /\ Hosts = {} => x[1] = HostLine
  <2>1. <<>> \in Seq(S) /\ <<HostLine>> \in Seq(S) /\ <<HostLine>>[1] = HostLine
    BY <1>1
  <2> QED  BY <2>1 DEF Field, HostLine
<1>3. PICK z \in Seq(S) :
        /\ z = IF Lengths = {} /\ (body > 0 \/ content)
               THEN Field("Content-Length", <<ToString(body)>>) ELSE <<>>
        /\ Len(z) = IF Lengths = {} /\ (body > 0 \/ content) THEN 1 ELSE 0
        /\ Lengths = {} /\ (body > 0 \/ content) => z[1] = LengthLine
  <2>1. <<>> \in Seq(S) /\ <<LengthLine>> \in Seq(S) /\ <<LengthLine>>[1] = LengthLine
    BY <1>1
  <2> QED  BY <2>1 DEF Field, LengthLine
<1>4. PICK y \in Seq(S) : y = fields
  BY <1>1
<1>5. PICK hf \in Seq(S) :
        /\ hf = (x \o y) \o z /\ Len(hf) = Len(x) + Len(y) + Len(z)
        /\ \A i \in 1..Len(x) : hf[i] = x[i]
        /\ \A i \in 1..Len(y) : hf[Len(x) + i] = y[i]
        /\ \A i \in 1..Len(z) : hf[Len(x) + Len(y) + i] = z[i]
  <2>1. (x \o y) \o z \in Seq(S) /\ IsRow((x \o y) \o z, x, y, z)
    BY ThreeJoined
  <2>2. PICK hf : hf = (x \o y) \o z
    OBVIOUS
  <2>3. hf \in Seq(S) /\ IsRow(hf, x, y, z)
    BY <2>1, <2>2
  <2> QED  BY <2>2, <2>3 DEF IsRow
<1>6. HeadFields = hf
  BY <1>2, <1>3, <1>4, <1>5 DEF HeadFields
<1>7. PICK a, c, n \in Nat : a = Len(x) /\ c = Len(z) /\ n = Len(y) /\ a \in {0, 1} /\ c \in {0, 1}
  <2>1. Len(x) \in Nat /\ Len(y) \in Nat /\ Len(z) \in Nat
    OBVIOUS
  <2>2. Len(x) \in {0, 1} /\ Len(z) \in {0, 1}
    BY <1>2, <1>3, Zenon
  <2> QED  BY <2>1, <2>2
<1>8. (a = 1 <=> Hosts = {}) /\ (c = 1 <=> Lengths = {} /\ (body > 0 \/ content))
  BY <1>2, <1>3, <1>7
<1>9. DOMAIN hf = 1..a + n + c /\ DOMAIN fields = 1..n /\ Len(fields) = n
  BY <1>4, <1>5, <1>7
<1>10. ASSUME NEW i \in 1..a + n + c PROVE Generated(i, a, c)
  <2>1. CASE i \in 1..a
    <3>1. i = 1 /\ a = 1
      <4>1. a = 0 \/ a = 1
        BY <1>7
      <4>2. a # 0
        BY <2>1
      <4> QED  BY <2>1, <4>1, <4>2
    <3>2. hf[i] = HostLine
      BY <1>2, <1>5, <1>7, <1>8, <2>1, <3>1
    <3> QED  BY <1>6, <3>1, <3>2 DEF Generated
  <2>2. CASE i > a /\ i <= a + n
    <3>1. PICK j \in 1..n : j = i - a /\ a + j = i
      BY <2>2
    <3>2. hf[i] = fields[j]
      BY <1>4, <1>5, <1>7, <3>1
    <3> QED  BY <1>6, <1>9, <3>1, <3>2 DEF Generated
  <2>3. CASE i > a + n
    <3>1. i = a + n + 1 /\ c = 1
      <4>1. i \in Nat /\ i >= a + n + 1 /\ i <= a + n + c /\ a + n \in Nat
        BY <1>10, <2>3
      <4>2. c # 0
        BY <4>1
      <4>3. c = 1
        BY <1>7, <4>2
      <4> QED  BY <4>1, <4>3
    <3>2. hf[i] = LengthLine
      BY <1>3, <1>5, <1>7, <1>8, <3>1
    <3> QED  BY <1>6, <1>9, <3>1, <3>2 DEF Generated
  <2> QED  BY <2>1, <2>2, <2>3
<1>11. \A j \in 1..n : j + a \in 1..a + n + c
  OBVIOUS
<1>12. (a = 1 => 1 \in 1..a + n + c) /\ (c = 1 => a + n + 1 \in 1..a + n + c)
  OBVIOUS
<1>13. /\ \A i \in DOMAIN HeadFields : i \in Int /\ Generated(i, a, c)
       /\ a = 1 => 1 \in DOMAIN HeadFields
       /\ \A j \in DOMAIN fields : j \in Int /\ j + a \in DOMAIN HeadFields
       /\ c = 1 => a + Len(fields) + 1 \in DOMAIN HeadFields
  <2>1. DOMAIN HeadFields = 1..a + n + c
    BY <1>6, <1>9
  <2> QED  BY <1>9, <1>10, <1>11, <1>12, <2>1
<1>14. IsHead(a, c)
  BY <1>7, <1>8, <1>13 DEF IsHead
<1> QED  BY <1>7, <1>14

\* Where serialize_request finds no error, every field is good.
LEMMA GoodFields ==
  ASSUME fields \in Seq(Fields), Sent
  PROVE  /\ Parse(url).error = "none" /\ CountError = "none"
         /\ \A j \in DOMAIN fields : FieldError(fields[j]) = "none"
<1> DEFINE I == {i \in 1..Len(fields) : FieldError(fields[i]) # "none"}
           least == CHOOSE x \in I : \A y \in I : x <= y
           bad == SelectInSeq(fields, LAMBDA f : FieldError(f) # "none")
<1>1. bad = IF I # {} THEN least ELSE 0
  BY DEF SelectInSeq, Min
<1>2. I # {} => least \in I
  <2>1. SUFFICES ASSUME I # {} PROVE least \in I
    OBVIOUS
  <2>2. I \in SUBSET Nat
    OBVIOUS
  <2>3. \E x \in I : \A y \in I : x <= y
    BY <2>1, <2>2, LeastNatural
  <2> QED  BY <2>3
<1>3. Error = IF Parse(url).error # "none" THEN Parse(url).error
              ELSE IF bad # 0 THEN FieldError(fields[bad]) ELSE CountError
  BY DEF Error
<1> HIDE DEF bad, least
<1>4. I = {}
  <2>1. SUFFICES ASSUME I # {} PROVE FALSE
    OBVIOUS
  <2>2. bad \in I /\ bad # 0
    BY <1>1, <1>2, <2>1
  <2> QED  BY <1>3, <2>2 DEF Sent
<1>5. Parse(url).error = "none" /\ CountError = "none"
  BY <1>1, <1>3, <1>4 DEF Sent
<1> QED  BY <1>4, <1>5

\* The parts of a field that is good.
LEMMA GoodField ==
  ASSUME NEW f, FieldError(f) = "none"
  PROVE  /\ Folded[f.name] = "host" => f.value # <<>>
         /\ Folded[f.name] # "transfer-encoding"
BY DEF FieldError

\* The server that HostOf writes is not empty, and is parsed as the URL's server.
LEMMA HostReads ==
  ASSUME NEW t \in Seq(Chars), Parse(t).error = "none"
  PROVE  /\ HostOf(Parse(t).url) # <<>>
         /\ [Parse(<<"http">> \o Separator \o HostOf(Parse(t).url)).url EXCEPT !.target = <<>>]
              = [Parse(t).url EXCEPT !.target = <<>>]
<1>1. PICK h, p, r \in Seq(Chars) :
        /\ IsHost(h) /\ IsPortPart(p)
        /\ Parse(t) = Accepted(UrlOf(HostText(h), IsLiteral(h), PortOfText(p), WithPath(r)))
  BY ParsedParts
<1>2. PICK host, literal, port, z :
        host = HostText(h) /\ literal = IsLiteral(h) /\ port = PortOfText(p) /\ z = WithPath(r)
  OBVIOUS
<1>3. PICK u : u = UrlOf(host, literal, port, z)
  OBVIOUS
<1>4. Parse(t).url = u
  BY <1>1, <1>2, <1>3 DEF Accepted
<1>5. HostOf(u) # <<>>
  <2>1. u = UrlOf(HostText(h), IsLiteral(h), PortOfText(p), z)
    BY <1>2, <1>3
  <2>2. PICK q \in Seq(Chars) : /\ HostOf(u) = h \o q /\ IsPortPart(q)
                              /\ PortOfText(q) = PortOfText(p) /\ ~Has(q, Forbidden)
    BY <1>1, <2>1, ServerAgain
  <2>3. Len(h \o q) = Len(h) + Len(q) /\ h # <<>>
    BY <1>1, Behind, HostIsText
  <2> QED  BY <2>2, <2>3
<1>6. Parse(Origin(u)).url = [u EXCEPT !.target = WithPath(<<>>)]
  <2>1. <<>> \in Seq(Chars) /\ ~Has(<<>>, {"#"}) /\ ~Has(<<>>, Forbidden \cup BadEscapes)
    BY DEF Has
  <2>2. ParsesBehind(u, <<>>)
    BY <1>4, <2>1, ParsedServer
  <2>3. Origin(u) \o <<>> = Origin(u)
    BY <2>2 DEF ParsesBehind
  <2>4. Parse(Origin(u)) = Accepted([u EXCEPT !.target = WithPath(<<>>)])
    BY <2>1, <2>2, <2>3 DEF ParsesBehind
  <2> QED  BY <2>4 DEF Accepted
<1>7. PICK x : x = WithPath(<<>>)
  OBVIOUS
<1>8. [[u EXCEPT !.target = x] EXCEPT !.target = <<>>] = [u EXCEPT !.target = <<>>]
  <2>1. [u EXCEPT !.target = x] = UrlOf(host, literal, port, x)
    BY ONLY <1>3, UrlWith
  <2>2. [UrlOf(host, literal, port, x) EXCEPT !.target = <<>>] = UrlOf(host, literal, port, <<>>)
    BY ONLY UrlWith
  <2>3. [u EXCEPT !.target = <<>>] = UrlOf(host, literal, port, <<>>)
    BY ONLY <1>3, UrlWith
  <2> QED  BY <2>1, <2>2, <2>3, Zenon
<1>9. Origin(u) = <<"http">> \o Separator \o HostOf(u)
  BY DEF Origin
<1> QED  BY <1>4, <1>5, <1>6, <1>7, <1>8, <1>9, Zenon

\* What the Host and Content-Length lines of a head are.
LEMMA LinesOfHead ==
  ASSUME NEW a, NEW c, IsHead(a, c), Sent, fields \in Seq(Fields)
  PROVE  /\ \A i \in Places(HeadFields, "host") :
              \/ a = 1 /\ i = 1 /\ HeadFields[i] = HostLine
              \/ i - a \in Hosts /\ HeadFields[i] = fields[i - a]
         /\ \A i \in Places(HeadFields, "content-length") :
              \/ i - a \in Lengths /\ HeadFields[i] = fields[i - a]
              \/ c = 1 /\ i = a + Len(fields) + 1 /\ HeadFields[i] = LengthLine
         /\ Places(HeadFields, "transfer-encoding") = {}
<1>1. Folded[HostLine.name] = "host" /\ Folded[LengthLine.name] = "content-length"
  BY RequestAssumption DEF HostLine, LengthLine
<1>2. \A j \in DOMAIN fields : Folded[fields[j].name] # "transfer-encoding"
  BY GoodFields, GoodField
<1>3. \A i \in DOMAIN HeadFields :
        \/ a = 1 /\ i = 1 /\ HeadFields[i] = HostLine
        \/ i - a \in DOMAIN fields /\ HeadFields[i] = fields[i - a]
        \/ c = 1 /\ i = a + Len(fields) + 1 /\ HeadFields[i] = LengthLine
  BY DEF IsHead, Generated
<1>4. ASSUME NEW i \in Places(HeadFields, "host")
      PROVE  \/ a = 1 /\ i = 1 /\ HeadFields[i] = HostLine
             \/ i - a \in Hosts /\ HeadFields[i] = fields[i - a]
  <2>1. i \in DOMAIN HeadFields /\ Folded[HeadFields[i].name] = "host"
    BY DEF Places
  <2> QED  BY <1>1, <1>3, <2>1 DEF Hosts, Places
<1>5. ASSUME NEW i \in Places(HeadFields, "content-length")
      PROVE  \/ i - a \in Lengths /\ HeadFields[i] = fields[i - a]
             \/ c = 1 /\ i = a + Len(fields) + 1 /\ HeadFields[i] = LengthLine
  <2>1. i \in DOMAIN HeadFields /\ Folded[HeadFields[i].name] = "content-length"
    BY DEF Places
  <2> QED  BY <1>1, <1>3, <2>1 DEF Lengths, Places
<1>6. ASSUME NEW i \in Places(HeadFields, "transfer-encoding") PROVE FALSE
  <2>1. i \in DOMAIN HeadFields /\ Folded[HeadFields[i].name] = "transfer-encoding"
    BY DEF Places
  <2> QED  BY <1>1, <1>2, <1>3, <2>1
<1> QED  BY <1>4, <1>5, <1>6

\* The framing fields of a head.
LEMMA OneMessage ==
  ASSUME Built, Sent
  PROVE  LET hosts   == Places(HeadFields, "host")
             lengths == Places(HeadFields, "content-length")
             To(i)   == Parse(<<"http">> \o Separator \o HeadFields[i].value).url
         IN /\ hosts # {} /\ ~Several(hosts) /\ ~Several(lengths)
            /\ \A i \in hosts :
                 /\ HeadFields[i].value # <<>>
                 /\ Hosts = {} => [To(i) EXCEPT !.target = <<>>]
                                    = [Parse(url).url EXCEPT !.target = <<>>]
            /\ Places(HeadFields, "transfer-encoding") = {}
            /\ lengths = {} => body = 0 /\ ~content
            /\ \A i \in lengths : LengthOf[HeadFields[i].value[1]] = body
<1> DEFINE hosts   == Places(HeadFields, "host")
           lengths == Places(HeadFields, "content-length")
           To(i)   == Parse(<<"http">> \o Separator \o HeadFields[i].value).url
<1>1. fields \in Seq(Fields) /\ body \in Nat /\ body \in Sizes /\ content \in BOOLEAN
  BY RequestAssumption DEF Built
<1>2. PICK a, c \in {0, 1} : IsHead(a, c)
  BY <1>1, HeadLines
<1>3. /\ \A i \in hosts : \/ a = 1 /\ i = 1 /\ HeadFields[i] = HostLine
                          \/ i - a \in Hosts /\ HeadFields[i] = fields[i - a]
      /\ \A i \in lengths : \/ i - a \in Lengths /\ HeadFields[i] = fields[i - a]
                            \/ c = 1 /\ i = a + Len(fields) + 1 /\ HeadFields[i] = LengthLine
      /\ Places(HeadFields, "transfer-encoding") = {}
  BY <1>1, <1>2, LinesOfHead
<1>4. /\ a = 1 <=> Hosts = {}
      /\ c = 1 <=> Lengths = {} /\ (body > 0 \/ content)
      /\ \A i \in DOMAIN HeadFields : i \in Int
      /\ a = 1 => 1 \in DOMAIN HeadFields
      /\ \A j \in DOMAIN fields : j \in Int /\ j + a \in DOMAIN HeadFields
      /\ c = 1 => a + Len(fields) + 1 \in DOMAIN HeadFields
      /\ \A i \in DOMAIN HeadFields : Generated(i, a, c)
  BY <1>2 DEF IsHead
<1>5. /\ Parse(url).error = "none" /\ CountError = "none"
      /\ \A j \in DOMAIN fields : FieldError(fields[j]) = "none"
  BY <1>1, GoodFields
<1>6. ~Several(Hosts) /\ ~Several(Lengths) /\ \A j \in Lengths : LengthAt(j) = body
  BY <1>5 DEF CountError
<1>7. Hosts \subseteq DOMAIN fields /\ Lengths \subseteq DOMAIN fields
  BY DEF Hosts, Lengths, Places
<1>8. Hosts \subseteq Int /\ Lengths \subseteq Int /\ hosts \subseteq Int /\ lengths \subseteq Int
  BY <1>4, <1>7 DEF Places
<1>9. /\ \A j \in Hosts : Folded[fields[j].name] = "host"
      /\ \A j \in Lengths : Folded[fields[j].name] = "content-length"
  BY DEF Hosts, Lengths, Places
<1>10. /\ HostOf(Parse(url).url) # <<>>
       /\ [Parse(<<"http">> \o Separator \o HostOf(Parse(url).url)).url EXCEPT !.target = <<>>]
            = [Parse(url).url EXCEPT !.target = <<>>]
  BY <1>5, TextsAreChars, HostReads
<1>11. ~Several(hosts)
  <2>1. SUFFICES ASSUME NEW i \in hosts, NEW j \in hosts PROVE i = j
    BY DEF Several
  <2>2. CASE a = 1
    BY <1>3, <1>4, <2>2
  <2>3. CASE a = 0
    <3>1. i - a \in Hosts /\ j - a \in Hosts
      BY <1>3, <2>3
    <3>2. i - a = j - a
      BY <1>6, <3>1 DEF Several
    <3> QED  BY <1>8, <2>3, <3>2
  <2> QED  BY <1>2, <2>2, <2>3
<1>12. ~Several(lengths)
  <2>1. SUFFICES ASSUME NEW i \in lengths, NEW j \in lengths PROVE i = j
    BY DEF Several
  <2>2. CASE c = 1
    BY <1>3, <1>4, <2>2
  <2>3. CASE c = 0
    <3>1. i - a \in Lengths /\ j - a \in Lengths
      BY <1>3, <2>3
    <3>2. i - a = j - a
      BY <1>6, <3>1 DEF Several
    <3>3. i \in Int /\ j \in Int
      BY <1>8
    <3> QED  BY <1>2, <3>2, <3>3
  <2> QED  BY <1>2, <2>2, <2>3
<1>13. hosts # {}
  <2>1. CASE a = 1
    <3>1. 1 \in DOMAIN HeadFields
      BY <1>4, <2>1
    <3>2. HeadFields[1] = HostLine
      <4>1. Hosts = {} /\ Generated(1, a, c)
        BY <1>4, <2>1, <3>1
      <4>2. ~(1 - a \in DOMAIN fields)
        BY <1>1, <2>1
      <4>3. ~(1 = a + Len(fields) + 1)
        <5>1. Len(fields) \in Nat
          BY <1>1
        <5> QED  BY <2>1, <5>1
      <4> QED  BY <4>1, <4>2, <4>3 DEF Generated
    <3>3. Folded[HeadFields[1].name] = "host"
      BY <3>2, RequestAssumption DEF HostLine
    <3> QED  BY <3>1, <3>3 DEF Places
  <2>2. CASE a = 0
    <3>1. PICK j \in Hosts : TRUE
      BY <1>4, <2>2
    <3>2. j \in DOMAIN fields /\ j \in Int /\ j + a = j /\ j - a = j
      BY <1>7, <1>8, <2>2
    <3>3. j \in DOMAIN HeadFields /\ Generated(j, a, c)
      BY <1>4, <3>2
    <3>4. HeadFields[j] = fields[j]
      <4>1. ~(j = a + Len(fields) + 1)
        BY <1>1, <2>2, <3>2
      <4> QED  BY <2>2, <3>2, <3>3, <4>1 DEF Generated
    <3> QED  BY <1>9, <3>3, <3>4 DEF Places
  <2> QED  BY <1>2, <2>1, <2>2
<1>14. ASSUME NEW i \in hosts
       PROVE  /\ HeadFields[i].value # <<>>
              /\ Hosts = {} => [To(i) EXCEPT !.target = <<>>]
                                 = [Parse(url).url EXCEPT !.target = <<>>]
  <2>1. CASE HeadFields[i] = HostLine
    <3>1. HeadFields[i].value = HostOf(Parse(url).url)
      BY <2>1 DEF HostLine
    <3> QED  BY <1>10, <3>1, Zenon
  <2>2. CASE i - a \in Hosts /\ HeadFields[i] = fields[i - a]
    BY <1>5, <1>7, <1>9, <2>2, GoodField
  <2> QED  BY <1>3, <2>1, <2>2
<1>15. ASSUME lengths = {} PROVE body = 0 /\ ~content
  <2>1. Lengths = {}
    <3>1. SUFFICES ASSUME NEW j \in Lengths PROVE FALSE
      OBVIOUS
    <3>2. j \in DOMAIN fields /\ j \in Int /\ c # 1
      BY <1>4, <1>7, <1>8
    <3>3. j + a \in DOMAIN HeadFields /\ Generated(j + a, a, c)
      BY <1>4, <3>2
    <3>4. (j + a) - a = j /\ j >= 1
      BY <1>1, <1>2, <3>2
    <3>5. HeadFields[j + a] = fields[j]
      <4>1. ~(a = 1 /\ j + a = 1)
        BY <3>2, <3>4
      <4> QED  BY <3>2, <3>3, <3>4, <4>1 DEF Generated
    <3>6. j + a \in lengths
      BY <1>9, <3>3, <3>5 DEF Places
    <3> QED  BY <1>15, <3>6
  <2>2. c # 1
    <3>1. SUFFICES ASSUME c = 1 PROVE FALSE
      OBVIOUS
    <3>2. PICK i : i = a + Len(fields) + 1 /\ i \in DOMAIN HeadFields /\ Generated(i, a, c)
      BY <1>4, <3>1
    <3>3. HeadFields[i] = LengthLine
      <4>1. Len(fields) \in Nat /\ DOMAIN fields = 1..Len(fields) /\ (a = 0 \/ a = 1)
        BY <1>1, <1>2
      <4>2. ~(i - a \in DOMAIN fields) /\ ~(i = 1 /\ a = 1)
        BY <3>2, <4>1
      <4> QED  BY <3>2, <4>2 DEF Generated
    <3>4. Folded[HeadFields[i].name] = "content-length"
      BY <3>3, RequestAssumption DEF LengthLine
    <3> QED  BY <1>15, <3>2, <3>4 DEF Places
  <2> QED  BY <1>1, <1>4, <2>1, <2>2
<1>16. ASSUME NEW i \in lengths PROVE LengthOf[HeadFields[i].value[1]] = body
  <2>1. CASE HeadFields[i] = LengthLine
    <3>1. HeadFields[i].value[1] = ToString(body)
      BY <2>1 DEF LengthLine
    <3> QED  BY <1>1, <3>1, RequestAssumption
  <2>2. CASE i - a \in Lengths /\ HeadFields[i] = fields[i - a]
    BY <1>6, <2>2 DEF LengthAt
  <2> QED  BY <1>3, <2>1, <2>2
<1> HIDE DEF To
<1> QED  BY <1>3, <1>11, <1>12, <1>13, <1>14, <1>15, <1>16 DEF To

-------------------------------------------------------------------------------
(* The query that a server reads.                                          *)

Pairs == {PairOf(t) : t \in Seq(Chars)}
Scans == [pairs : Seq(Pairs), piece : Seq(Chars)]
ScanStep(x, tok) ==
  IF tok = "&" THEN [pairs |-> Close(x), piece |-> <<>>]
  ELSE [x EXCEPT !.piece = Append(@, tok)]

\* The loop over a query.
IsScan(f, t) ==
  /\ f \in [0..Len(t) -> Scans] /\ f[0] = [pairs |-> <<>>, piece |-> <<>>]
  /\ \A i \in 1..Len(t) : f[i] = ScanStep(f[i - 1], t[i])
  /\ PairsOf(t) = Close(f[Len(t)])

\* A closed piece is one more pair.
LEMMA CloseType ==
  ASSUME NEW x \in Scans
  PROVE  Close(x) \in Seq(Pairs)
<1>1. x.pairs \in Seq(Pairs) /\ PairOf(x.piece) \in Pairs
  BY DEF Scans, Pairs
<1>2. Append(x.pairs, PairOf(x.piece)) \in Seq(Pairs)
  BY <1>1
<1> QED  BY <1>1, <1>2, Zenon DEF Close

\* Each step of the loop leaves pairs and a piece.
LEMMA ScanStepType ==
  ASSUME NEW x \in Scans, NEW tok \in Chars
  PROVE  ScanStep(x, tok) \in Scans
<1>1. x.pairs \in Seq(Pairs) /\ x.piece \in Seq(Chars)
  BY DEF Scans
<1>2. PICK c \in Seq(Pairs) : c = Close(x)
  BY CloseType
<1>3. PICK d \in Seq(Chars) : d = Append(x.piece, tok)
  <2>1. \A q \in Seq(Chars) : Append(q, tok) \in Seq(Chars)
    OBVIOUS
  <2> QED  BY <1>1, <2>1
<1>4. [pairs |-> c, piece |-> <<>>] \in Scans
  BY <1>2 DEF Scans
<1>5. [x EXCEPT !.piece = d] \in Scans
  BY <1>3 DEF Scans
<1> QED  BY <1>2, <1>3, <1>4, <1>5, Zenon DEF ScanStep

\* The pairs of a query are what that loop ends with.
LEMMA ScanIs ==
  ASSUME NEW t \in Seq(Chars)
  PROVE  \E f : IsScan(f, t)
<1> DEFINE n == Len(t)
           a == [pairs |-> <<>>, piece |-> <<>>]
           Eq(g) == g = [i \in 0..n |-> IF i = 0 THEN a ELSE ScanStep(g[i - 1], t[i])]
           run == CHOOSE g : Eq(g)
<1>1. PairsOf(t) = Close(run[n])
  <2> DEFINE Was(g) == g = [i \in 0..n |->
                 IF i = 0 THEN a
                 ELSE IF t[i] = "&" THEN [pairs |-> Close(g[i - 1]), piece |-> <<>>]
                 ELSE [g[i - 1] EXCEPT !.piece = Append(@, t[i])]]
  <2>1. PairsOf(t) = Close((CHOOSE g : Was(g))[n])
    BY Zenon DEF PairsOf
  <2>2. ASSUME NEW g PROVE Was(g) = Eq(g)
    BY Zenon DEF ScanStep
  <2> HIDE DEF Was, Eq
  <2>3. (CHOOSE g : Was(g)) = CHOOSE g : Eq(g)
    BY <2>2
  <2> QED  BY <2>1, <2>3
<1>2. n \in Nat /\ a \in Scans
  <2>1. <<>> \in Seq(Pairs) /\ <<>> \in Seq(Chars)
    OBVIOUS
  <2> QED  BY <2>1 DEF Scans
<1>3. \A i \in 1..n, x \in Scans : ScanStep(x, t[i]) \in Scans
  BY ScanStepType
<1> HIDE DEF n, a, run
<1>4. PICK step \in [(1..n) \X Scans -> Scans] :
        \A i \in 1..n, x \in Scans : step[<<i, x>>] = ScanStep(x, t[i])
  <2> DEFINE g == [p \in (1..n) \X Scans |-> ScanStep(p[2], t[p[1]])]
  <2>1. \A p \in (1..n) \X Scans : p[1] \in 1..n /\ p[2] \in Scans
    OBVIOUS
  <2>2. g \in [(1..n) \X Scans -> Scans]
    BY <1>3, <2>1
  <2>3. \A i \in 1..n, x \in Scans : g[<<i, x>>] = ScanStep(x, t[i])
    OBVIOUS
  <2> QED  BY <2>2, <2>3
<1>5. PICK g : IsTrack(g, n, Scans, a, step)
  BY <1>2, TrackExists
<1>6. \A i \in 0..n : i = 0 \/ (i \in 1..n /\ i - 1 \in 0..n)
  BY <1>2
<1>7. \A i \in 0..n : g[i] = IF i = 0 THEN a ELSE ScanStep(g[i - 1], t[i])
  BY <1>4, <1>5, <1>6 DEF IsTrack
<1>8. Eq(g)
  <2>1. g = [i \in 0..n |-> g[i]]
    BY <1>5 DEF IsTrack
  <2> QED  BY <1>7, <2>1
<1> HIDE DEF Eq
<1>9. Eq(run)
  BY <1>8 DEF run
<1>10. /\ run = [i \in 0..n |-> run[i]] /\ run[0] = a
       /\ \A i \in 1..n : run[i] = ScanStep(run[i - 1], t[i])
  <2>1. run = [i \in 0..n |-> IF i = 0 THEN a ELSE ScanStep(run[i - 1], t[i])]
    BY <1>9 DEF Eq
  <2>2. \A i \in 0..n : run[i] = IF i = 0 THEN a ELSE ScanStep(run[i - 1], t[i])
    BY <2>1
  <2>3. 0 \in 0..n /\ \A i \in 1..n : i \in 0..n /\ i # 0
    BY <1>2
  <2>4. run = [i \in 0..n |-> run[i]]
    BY <2>1
  <2> QED  BY <2>2, <2>3, <2>4
<1>11. IsTrack(run, n, Scans, a, step)
  <2>1. \A i \in 1..n : run[i - 1] \in Scans => run[i] = step[<<i, run[i - 1]>>]
    BY <1>4, <1>10
  <2> QED  BY <1>2, <1>10, <2>1, TrackStays
<1>12. run \in [0..n -> Scans]
  BY <1>11 DEF IsTrack
<1>13. IsScan(run, t)
  BY <1>1, <1>10, <1>12 DEF IsScan, n, a
<1> QED  BY <1>13

\* The loop goes the same way as far as two queries are the same.
ScannedTo(t, x) == \E f : IsScan(f, t) /\ x = f[Len(t)]

\* Every query is scanned, and its last piece is closed.
LEMMA Scanned ==
  ASSUME NEW t \in Seq(Chars)
  PROVE  /\ \E x \in Scans : ScannedTo(t, x)
         /\ \A x : ScannedTo(t, x) => x \in Scans /\ PairsOf(t) = Close(x)
<1>1. \A f : IsScan(f, t) => f[Len(t)] \in Scans /\ PairsOf(t) = Close(f[Len(t)])
  <2>1. Len(t) \in 0..Len(t)
    OBVIOUS
  <2> QED  BY <2>1 DEF IsScan
<1> QED  BY <1>1, ScanIs DEF ScannedTo

\* What the loop goes through from x on, with w behind s.
IsBehind(g, x, s, w) ==
  /\ g \in [0..Len(w) -> Scans] /\ g[0] = x /\ ScannedTo(s \o w, g[Len(w)])
  /\ \A j \in 1..Len(w) : g[j] = ScanStep(g[j - 1], w[j])

\* It goes on through a text behind, from where it was.
LEMMA ScanGoesOn ==
  ASSUME NEW s \in Seq(Chars), NEW w \in Seq(Chars), NEW x, ScannedTo(s, x)
  PROVE  \E g : IsBehind(g, x, s, w)
<1>1. PICK f : IsScan(f, s) /\ x = f[Len(s)]
  BY DEF ScannedTo
<1>2. PICK t \in Seq(Chars) : /\ t = s \o w /\ Len(t) = Len(s) + Len(w)
                              /\ \A j \in 1..Len(s) : t[j] = s[j]
                              /\ \A j \in 1..Len(w) : t[Len(s) + j] = w[j]
  BY Behind
<1>3. PICK h : IsScan(h, t)
  BY ScanIs
<1>4. PICK m, n \in Nat : m = Len(s) /\ n = Len(w) /\ m + n = Len(t)
  BY <1>2
<1>5. /\ f[0] = h[0] /\ x = f[m] /\ h \in [0..m + n -> Scans]
      /\ \A i \in 1..m : f[i] = ScanStep(f[i - 1], s[i])
      /\ \A i \in 1..m + n : h[i] = ScanStep(h[i - 1], t[i])
  BY <1>1, <1>3, <1>4 DEF IsScan
<1> DEFINE T == {i \in 0..m : f[i] = h[i]}
<1>6. 0 \in T
  BY <1>5
<1>7. ASSUME NEW i \in 0..m - 1, i \in T PROVE i + 1 \in T
  <2>1. PICK k \in 1..m : k = i + 1 /\ k - 1 = i /\ k \in 0..m /\ k \in 1..m + n
    OBVIOUS
  <2>2. t[k] = s[k]
    BY <1>2, <1>4, <2>1
  <2>3. f[k] = ScanStep(f[i], s[k]) /\ h[k] = ScanStep(h[i], t[k])
    BY <1>5, <2>1
  <2> QED  BY <1>7, <2>1, <2>2, <2>3
<1> HIDE DEF T
<1>8. \A i \in 0..m : i \in T
  BY <1>6, <1>7, UpTo
<1>9. h[m] = x
  <2>1. m \in 0..m
    OBVIOUS
  <2> QED  BY <1>5, <1>8, <2>1 DEF T
<1>10. PICK g : g = [j \in 0..n |-> h[m + j]]
  OBVIOUS
<1>11. \A j \in 0..n : m + j \in 0..m + n /\ g[j] = h[m + j]
  BY <1>10
<1>12. g \in [0..n -> Scans]
  BY <1>5, <1>10, <1>11
<1>13. g[0] = x /\ g[n] = h[m + n]
  <2>1. 0 \in 0..n /\ n \in 0..n /\ m + 0 = m
    OBVIOUS
  <2> QED  BY <1>9, <1>11, <2>1
<1>14. ASSUME NEW j \in 1..n PROVE g[j] = ScanStep(g[j - 1], w[j])
  <2>1. /\ j \in 0..n /\ j - 1 \in 0..n /\ m + j \in 1..m + n /\ (m + j) - 1 = m + (j - 1)
    OBVIOUS
  <2>2. t[m + j] = w[j]
    BY <1>2, <1>4
  <2>3. h[m + j] = ScanStep(h[(m + j) - 1], t[m + j])
    BY <1>5, <2>1
  <2> QED  BY <1>11, <2>1, <2>2, <2>3
<1>15. ScannedTo(s \o w, g[n])
  BY <1>2, <1>3, <1>4, <1>13 DEF ScannedTo
<1>16. IsBehind(g, x, s, w)
  BY <1>4, <1>12, <1>13, <1>14, <1>15 DEF IsBehind
<1> QED  BY <1>16

\* A text behind another one, token by token.
LEMMA AppendBehind ==
  ASSUME NEW S, NEW p \in Seq(S), NEW w \in Seq(S), NEW k \in 1..Len(w)
  PROVE  Append(p \o SubSeq(w, 1, k - 1), w[k]) = p \o SubSeq(w, 1, k)
<1>1. PICK v \in Seq(S), e \in S : v = SubSeq(w, 1, k - 1) /\ e = w[k]
  <2>1. SubSeq(w, 1, k - 1) \in Seq(S) /\ w[k] \in S
    OBVIOUS
  <2> QED  BY <2>1
<1>2. SubSeq(w, 1, k) = Append(v, e)
  BY <1>1
<1>3. Append(p \o v, e) = p \o Append(v, e)
  <2>1. \A x \in Seq(S) : Append(x, e) = x \o <<e>>
    OBVIOUS
  <2>2. p \o v \in Seq(S) /\ <<e>> \in Seq(S)
    OBVIOUS
  <2>3. Append(p \o v, e) = (p \o v) \o <<e>> /\ Append(v, e) = v \o <<e>>
    BY <2>1, <2>2
  <2>4. (p \o v) \o <<e>> = p \o (v \o <<e>>)
    BY <2>2, ConcatAssociative, SMTT(30)
  <2> QED  BY <2>3, <2>4
<1> QED  BY <1>1, <1>2, <1>3

\* An ampersand between two texts.
LEMMA AmpersandBetween ==
  ASSUME NEW y \in Seq(Chars), NEW v \in Seq(Chars), NEW w \in Seq(Chars)
  PROVE  ((y \o v) \o <<"&">>) \o w = y \o (Append(v, "&") \o w)
<1>1. PICK e \in Seq(Chars) : e = <<"&">>
  <2>1. "&" \in Chars
    BY DEF Chars, Tokens, Delimiters
  <2>2. <<"&">> \in Seq(Chars)
    BY <2>1
  <2> QED  BY <2>2
<1>2. Append(v, "&") = v \o e
  <2>1. "&" \in Chars
    BY DEF Chars, Tokens, Delimiters
  <2>2. Append(v, "&") = v \o <<"&">>
    BY <2>1
  <2> QED  BY <1>1, <2>2
<1>3. ((y \o v) \o e) \o w = y \o ((v \o e) \o w)
  BY ONLY y \in Seq(Chars), v \in Seq(Chars), e \in Seq(Chars), w \in Seq(Chars)
<1> QED  BY <1>1, <1>2, <1>3

\* A token that is no ampersand goes to the piece.
LEMMA ScanToken ==
  ASSUME NEW a, NEW p, NEW tok, tok # "&"
  PROVE  ScanStep([pairs |-> a, piece |-> p], tok) = [pairs |-> a, piece |-> Append(p, tok)]
BY DEF ScanStep

\* A text without an ampersand goes to the piece.
LEMMA ScanPiece ==
  ASSUME NEW s \in Seq(Chars), NEW w \in Seq(Chars), NEW x, ScannedTo(s, x), ~Has(w, {"&"})
  PROVE  ScannedTo(s \o w, [pairs |-> x.pairs, piece |-> x.piece \o w])
<1>1. PICK g : IsBehind(g, x, s, w)
  BY ScanGoesOn
<1>2. PICK a, p : a = x.pairs /\ p = x.piece
  OBVIOUS
<1>3. a \in Seq(Pairs) /\ p \in Seq(Chars) /\ x = [pairs |-> a, piece |-> p]
  <2>1. x \in Scans
    BY Scanned
  <2> QED  BY <1>2, <2>1 DEF Scans
<1>4. PICK n \in Nat : n = Len(w)
  OBVIOUS
<1> DEFINE Text(j) == p \o SubSeq(w, 1, j)
           T == {j \in 0..n : g[j] = [pairs |-> a, piece |-> Text(j)]}
<1>5. 0 \in T
  <2>1. Text(0) = p
    BY <1>3
  <2> QED  BY <1>1, <1>3, <2>1 DEF IsBehind
<1>6. ASSUME NEW i \in 0..n - 1, i \in T PROVE i + 1 \in T
  <2>1. PICK k \in 1..n : k = i + 1 /\ k - 1 = i /\ k \in 0..n /\ k \in 1..Len(w)
    BY <1>4
  <2>2. w[k] # "&"
    BY <2>1 DEF Has
  <2>3. g[k] = ScanStep(g[i], w[k])
    BY <1>1, <2>1 DEF IsBehind
  <2>4. g[i] = [pairs |-> a, piece |-> Text(i)]
    BY <1>6
  <2>5. Append(Text(i), w[k]) = Text(k)
    BY <1>3, <2>1, AppendBehind
  <2> HIDE DEF Text
  <2>6. ScanStep([pairs |-> a, piece |-> Text(i)], w[k])
          = [pairs |-> a, piece |-> Append(Text(i), w[k])]
    BY <2>2, ScanToken
  <2> QED  BY <2>1, <2>3, <2>4, <2>5, <2>6
<1> HIDE DEF T
<1>7. \A i \in 0..n : i \in T
  BY <1>5, <1>6, UpTo
<1>8. g[n] = [pairs |-> a, piece |-> Text(n)]
  <2>1. n \in 0..n
    OBVIOUS
  <2> QED  BY <1>7, <2>1 DEF T
<1>9. SubSeq(w, 1, n) = w
  BY <1>4
<1> QED  BY <1>1, <1>2, <1>4, <1>8, <1>9 DEF IsBehind

\* The same, behind a query whose last pair is closed.
LEMMA ScanFrom ==
  ASSUME NEW s \in Seq(Chars), NEW a, ScannedTo(s, [pairs |-> a, piece |-> <<>>]),
         NEW w \in Seq(Chars), ~Has(w, {"&"})
  PROVE  ScannedTo(s \o w, [pairs |-> a, piece |-> w])
<1>1. PICK x : x = [pairs |-> a, piece |-> <<>>]
  OBVIOUS
<1>2. ScannedTo(s \o w, [pairs |-> x.pairs, piece |-> x.piece \o w])
  BY <1>1, ScanPiece
<1>3. x.pairs = a /\ x.piece = <<>> /\ <<>> \o w = w
  BY <1>1
<1> QED  BY <1>2, <1>3

\* An ampersand ends the piece.
LEMMA ScanAmpersand ==
  ASSUME NEW s \in Seq(Chars), NEW x, ScannedTo(s, x)
  PROVE  /\ s \o <<"&">> \in Seq(Chars)
         /\ ScannedTo(s \o <<"&">>, [pairs |-> Close(x), piece |-> <<>>])
<1>1. PICK w \in Seq(Chars) : w = <<"&">>
  <2>1. "&" \in Chars
    BY DEF Chars, Tokens, Delimiters
  <2>2. <<"&">> \in Seq(Chars)
    BY <2>1
  <2> QED  BY <2>2
<1>2. PICK g : IsBehind(g, x, s, w)
  BY ScanGoesOn
<1>3. Len(w) = 1 /\ w[1] = "&" /\ 1 \in 1..Len(w) /\ 1 - 1 = 0
  BY <1>1
<1>4. g[1] = ScanStep(x, "&")
  BY <1>2, <1>3 DEF IsBehind
<1>5. s \o w \in Seq(Chars)
  OBVIOUS
<1> QED  BY <1>1, <1>2, <1>3, <1>4, <1>5 DEF ScanStep, IsBehind

\* Nothing is scanned of nothing.
LEMMA ScanNothing ==
  ScannedTo(<<>>, [pairs |-> <<>>, piece |-> <<>>]) /\ PairsOf(<<>>) = <<>>
<1>1. PICK t \in Seq(Chars) : t = <<>>
  <2>1. <<>> \in Seq(Chars)
    OBVIOUS
  <2> QED  BY <2>1
<1>2. PICK f : IsScan(f, t)
  BY ScanIs
<1>3. Len(t) = 0
  BY <1>1
<1>4. f[Len(t)] = [pairs |-> <<>>, piece |-> <<>>] /\ PairsOf(t) = Close(f[Len(t)])
  BY <1>2, <1>3 DEF IsScan
<1>5. Close([pairs |-> <<>>, piece |-> <<>>]) = <<>>
  BY DEF Close
<1> QED  BY <1>1, <1>2, <1>4, <1>5 DEF ScannedTo

\* What is encoded is found again.
LEMMA DecodedAgain ==
  ASSUME NEW t \in Seq(DOMAIN EncodedOf)
  PROVE  Decoded(Encoded(t)) = t
<1> DEFINE Enc(u) == EncodedOf[u]
<1>1. PICK n, c : n \in Nat /\ n = Len(t) /\ c = Encoded(t)
  OBVIOUS
<1>2. c = [i \in 1..n |-> EncodedOf[t[i]]] /\ DOMAIN c = 1..n
  BY <1>1 DEF Encoded
<1>3. ASSUME NEW u \in DOMAIN EncodedOf, NEW z, z = EncodedOf[u]
      PROVE  (IF \E tok \in DOMAIN EncodedOf : EncodedOf[tok] = z
              THEN CHOOSE tok \in DOMAIN EncodedOf : EncodedOf[tok] = z ELSE z) = u
  <2>1. \A v \in DOMAIN EncodedOf : EncodedOf[u] = EncodedOf[v] => u = v
    BY RequestAssumption
  <2> QED  BY <1>3, <2>1
<1>4. Decoded(c) = [i \in 1..n |-> t[i]]
  <2>1. \A i \in 1..n : t[i] \in DOMAIN EncodedOf /\ c[i] = EncodedOf[t[i]]
    BY <1>1, <1>2
  <2>2. \A i \in 1..n :
          (IF \E tok \in DOMAIN EncodedOf : EncodedOf[tok] = c[i]
           THEN CHOOSE tok \in DOMAIN EncodedOf : EncodedOf[tok] = c[i] ELSE c[i]) = t[i]
    BY <1>3, <2>1
  <2> QED  BY <1>2, <2>2 DEF Decoded
<1>5. t = [i \in 1..n |-> t[i]]
  BY <1>1
<1> QED  BY <1>1, <1>4, <1>5

\* A written parameter is one piece, and read as the parameter.
LEMMA PairBack ==
  ASSUME NEW p \in Params
  PROVE  /\ Written(p) \in Seq(Chars) /\ Written(p) # <<>> /\ ~Has(Written(p), {"&"})
         /\ PairOf(Written(p)) = p
<1>1. p \in [name : Seq(DOMAIN EncodedOf), value : Seq(DOMAIN EncodedOf)]
  BY RequestAssumption
<1>2. \A tok \in DOMAIN EncodedOf : EncodedOf[tok] \in Chars \ {"=", "&"}
  <2>1. {"=", "&"} \subseteq Delimiters
    BY DEF Delimiters
  <2> QED  BY <2>1, RequestAssumption DEF Chars
<1>3. \A t \in Seq(DOMAIN EncodedOf) : Encoded(t) \in Seq(Chars) /\ ~Has(Encoded(t), {"=", "&"})
  <2>1. SUFFICES ASSUME NEW t \in Seq(DOMAIN EncodedOf)
                 PROVE  Encoded(t) \in Seq(Chars) /\ ~Has(Encoded(t), {"=", "&"})
    OBVIOUS
  <2>2. PICK n \in Nat : n = Len(t) /\ DOMAIN t = 1..n
    OBVIOUS
  <2>3. PICK c : c = Encoded(t)
    OBVIOUS
  <2>4. c = [i \in 1..n |-> EncodedOf[t[i]]]
    BY <2>2, <2>3 DEF Encoded
  <2>5. \A i \in 1..n : EncodedOf[t[i]] \in Chars \ {"=", "&"}
    <3>1. \A i \in 1..n : t[i] \in DOMAIN EncodedOf
      BY <2>2
    <3> QED  BY <1>2, <3>1
  <2>6. c \in Seq(Chars \ {"=", "&"})
    BY <2>4, <2>5, IsASeq
  <2> QED  BY <2>3, <2>6, Without
<1>4. PICK a, b \in Seq(Chars) :
        /\ a = Encoded(p.name) /\ ~Has(a, {"=", "&"})
        /\ b = Encoded(p.value) /\ ~Has(b, {"=", "&"})
  BY <1>1, <1>3
<1>5. PICK e \in Seq(Chars) : e = <<"=">>
  <2>1. "=" \in Chars
    BY DEF Chars, Tokens, Delimiters
  <2>2. <<"=">> \in Seq(Chars)
    BY <2>1
  <2> QED  BY <2>2
<1>6. PICK w \in Seq(Chars) : w = a \o (e \o b)
  <2>1. e \o b \in Seq(Chars)
    BY ONLY e \in Seq(Chars), b \in Seq(Chars)
  <2>2. a \o (e \o b) \in Seq(Chars)
    BY ONLY a \in Seq(Chars), e \o b \in Seq(Chars), <2>1
  <2> QED  BY <2>2
<1>7. Written(p) = w
  <2>1. (a \o e) \o b = a \o (e \o b)
    BY ONLY a \in Seq(Chars), b \in Seq(Chars), e \in Seq(Chars)
  <2> QED  BY <1>4, <1>5, <1>6, <2>1 DEF Written
<1>8. \A s \in Seq(Chars) : ~Has(s, {"=", "&"}) => ~Has(s, {"="}) /\ ~Has(s, {"&"})
  BY DEF Has
<1>9. ~Has(e, {"&"}) /\ e # <<>> /\ Len(e) = 1 /\ e[1] = "="
  BY <1>5 DEF Has
<1>10. PICK v \in Seq(Chars) : v = e \o b
  <2>1. e \o b \in Seq(Chars)
    BY ONLY e \in Seq(Chars), b \in Seq(Chars)
  <2> QED  BY <2>1
<1>11. v # <<>> /\ v[1] = "=" /\ Len(v) > 0 /\ ~Has(v, {"&"})
  <2>1. Len(e \o b) = 1 + Len(b) /\ (e \o b)[1] = e[1]
    <3>1. Len(e \o b) = Len(e) + Len(b) /\ \A j \in 1..Len(e) : (e \o b)[j] = e[j]
      BY Behind
    <3>2. 1 \in 1..Len(e)
      BY <1>9
    <3> QED  BY <1>9, <3>1, <3>2
  <2>2. ~Has(e \o b, {"&"})
    BY <1>4, <1>8, <1>9, HasJoined
  <2>3. Len(b) \in Nat
    OBVIOUS
  <2> QED  BY <1>9, <1>10, <2>1, <2>2, <2>3
<1>12. w # <<>> /\ ~Has(w, {"&"}) /\ FirstOf(w, {"="}) = Len(a) + 1
  <2>1. ~Has(a \o v, {"&"})
    BY <1>4, <1>8, <1>11, HasJoined
  <2>2. FirstOf(a \o v, {"="}) = Len(a) + 1
    BY <1>4, <1>8, <1>11, FirstBehind
  <2>3. Len(a \o v) = Len(a) + Len(v)
    BY Behind
  <2>4. a \o v # <<>>
    BY <1>11, <2>3
  <2> QED  BY <1>6, <1>10, <2>1, <2>2, <2>4
<1>13. Before(w, Len(a) + 1) = a /\ From(w, (Len(a) + 1) + 1) = b
  <2>1. Before(a \o v, Len(a) + 1) = a
    BY PartsOfTwo
  <2>2. PICK c \in Seq(Chars) : c = a \o e /\ Len(c) = Len(a) + Len(e)
    <3>1. a \o e \in Seq(Chars) /\ Len(a \o e) = Len(a) + Len(e)
      BY Behind
    <3> QED  BY <3>1
  <2>3. From(c \o b, Len(c) + 1) = b
    BY PartsOfTwo
  <2>4. Len(c) = Len(a) + 1 /\ c \o b = w
    <3>1. (a \o e) \o b = a \o (e \o b)
      BY ONLY a \in Seq(Chars), b \in Seq(Chars), e \in Seq(Chars)
    <3> QED  BY <1>6, <1>9, <2>2, <3>1
  <2> QED  BY <1>6, <1>10, <2>1, <2>3, <2>4
<1>14. PairOf(w) = [name |-> Decoded(a), value |-> Decoded(b)]
  BY <1>12, <1>13 DEF PairOf
<1>15. Decoded(a) = p.name /\ Decoded(b) = p.value
  BY <1>1, <1>4, DecodedAgain
<1>16. p = [name |-> p.name, value |-> p.value]
  BY <1>1
<1> QED  BY <1>7, <1>12, <1>14, <1>15, <1>16

\* The parameters, written behind a query whose last pair is closed, are read as pairs
\* behind its pairs.
LEMMA ListScans ==
  ASSUME NEW y \in Seq(Chars), NEW ps \in Seq(Params), ps # <<>>, NEW a,
         ScannedTo(y, [pairs |-> a, piece |-> <<>>])
  PROVE  PairsOf(y \o List(ps)) = a \o ps
<1>1. a \in Seq(Pairs)
  <2>1. [pairs |-> a, piece |-> <<>>] \in Scans
    BY Scanned
  <2> QED  BY <2>1 DEF Scans
<1>2. PICK n \in Nat \ {0} : n = Len(ps)
  BY EmptySeq
<1>3. PICK f : IsListing(f, ps)
  BY ListIs
<1>4. /\ f \in [0..n -> Seq(Chars)] /\ List(ps) = f[n]
      /\ \A i \in 1..n : f[i] = (IF i = 1 THEN <<>> ELSE Append(f[i - 1], "&")) \o Written(ps[i])
  <2>1. Seq(Clean) \subseteq Seq(Chars)
    BY CleanIsClean
  <2>2. f \in [0..n -> Seq(Chars)]
    BY <1>2, <1>3, <2>1 DEF IsListing
  <2> QED  BY <1>2, <1>3, <2>2 DEF IsListing
<1>5. \A i \in 1..n : ps[i] \in Params /\ ps[i] \in Pairs
  <2>1. SUFFICES ASSUME NEW i \in 1..n PROVE ps[i] \in Params /\ ps[i] \in Pairs
    OBVIOUS
  <2>2. ps[i] \in Params
    BY <1>2
  <2>3. Written(ps[i]) \in Seq(Chars) /\ PairOf(Written(ps[i])) = ps[i]
    BY <2>2, PairBack
  <2>4. PairOf(Written(ps[i])) \in Pairs
    BY <2>3 DEF Pairs
  <2> QED  BY <2>2, <2>3, <2>4
<1>6. ps \in Seq(Pairs)
  BY <1>2, <1>5, IsASeq
<1> DEFINE Read(i) == [pairs |-> a \o SubSeq(ps, 1, i - 1), piece |-> Written(ps[i])]
           T == {i \in 0..n : i = 0 \/ ScannedTo(y \o f[i], Read(i))}
<1>7. 0 \in T
  OBVIOUS
<1>8. ASSUME NEW i \in 0..n - 1, i \in T PROVE i + 1 \in T
  <2>1. PICK k \in 1..n : k = i + 1 /\ k - 1 = i /\ k \in 0..n
    OBVIOUS
  <2>2. PICK w \in Seq(Chars) : w = Written(ps[k]) /\ ~Has(w, {"&"})
    BY <1>5, <2>1, PairBack
  <2>3. CASE i = 0
    <3>1. f[k] = w
      <4>1. f[k] = <<>> \o Written(ps[k])
        <5>1. k = 1
          BY <2>1, <2>3
        <5>2. f[1] = (IF 1 = 1 THEN <<>> ELSE Append(f[1 - 1], "&")) \o Written(ps[1])
          BY <1>4, <2>1, <5>1
        <5> QED  BY <5>1, <5>2
      <4>2. <<>> \o w = w
        OBVIOUS
      <4> QED  BY <2>2, <4>1, <4>2
    <3>2. ScannedTo(y \o w, [pairs |-> a, piece |-> w])
      BY <2>2, ScanFrom
    <3>3. Read(k) = [pairs |-> a, piece |-> w]
      <4>1. a \o SubSeq(ps, 1, k - 1) = a
        BY <1>1, <2>1, <2>3
      <4> QED  BY <2>2, <4>1
    <3> QED  BY <2>1, <3>1, <3>2, <3>3
  <2>4. CASE i # 0
    <3>1. PICK v \in Seq(Chars) : v = f[i]
      BY <1>4, <2>1
    <3>2. PICK b \in Seq(Chars) : b = y \o v
      <4>1. y \o v \in Seq(Chars)
        BY ONLY y \in Seq(Chars), v \in Seq(Chars)
      <4> QED  BY <4>1
    <3>3. ScannedTo(b, Read(i)) /\ i \in 1..n
      BY <1>8, <2>4, <3>1, <3>2
    <3>4. b \o <<"&">> \in Seq(Chars)
          /\ ScannedTo(b \o <<"&">>, [pairs |-> Close(Read(i)), piece |-> <<>>])
      BY <3>3, ScanAmpersand
    <3>5. Close(Read(i)) = a \o SubSeq(ps, 1, i)
      <4>1. Written(ps[i]) # <<>> /\ PairOf(Written(ps[i])) = ps[i]
        BY <1>5, <3>3, PairBack
      <4>2. Close(Read(i)) = Append(a \o SubSeq(ps, 1, i - 1), ps[i])
        BY <4>1 DEF Close
      <4>3. Append(a \o SubSeq(ps, 1, i - 1), ps[i]) = a \o SubSeq(ps, 1, i)
        BY <1>1, <1>2, <1>6, <3>3, AppendBehind
      <4> QED  BY <4>2, <4>3
    <3>6. PICK c \in Seq(Chars) : c = b \o <<"&">>
      BY <3>4
    <3>7. ScannedTo(c \o w, [pairs |-> a \o SubSeq(ps, 1, i), piece |-> w])
      <4>1. PICK e : e = a \o SubSeq(ps, 1, i) /\ ScannedTo(c, [pairs |-> e, piece |-> <<>>])
        BY <3>4, <3>5, <3>6
      <4>2. ScannedTo(c \o w, [pairs |-> e, piece |-> w])
        BY <2>2, <4>1, ScanFrom
      <4> QED  BY <4>1, <4>2
    <3>8. c \o w = y \o f[k]
      <4>1. f[k] = Append(v, "&") \o w
        <5>1. k # 1 /\ f[k - 1] = v
          BY <2>1, <2>4, <3>1
        <5>2. f[k] = (IF k = 1 THEN <<>> ELSE Append(f[k - 1], "&")) \o Written(ps[k])
          BY <1>4, <2>1
        <5> QED  BY <2>2, <5>1, <5>2
      <4>2. (b \o <<"&">>) \o w = y \o (Append(v, "&") \o w)
        <5>1. ((y \o v) \o <<"&">>) \o w = y \o (Append(v, "&") \o w)
          BY AmpersandBetween
        <5> QED  BY <3>2, <5>1
      <4> QED  BY <3>6, <4>1, <4>2
    <3>9. Read(k) = [pairs |-> a \o SubSeq(ps, 1, i), piece |-> w]
      BY <2>1, <2>2
    <3> QED  BY <2>1, <3>7, <3>8, <3>9
  <2> QED  BY <2>3, <2>4
<1> HIDE DEF T
<1>9. \A i \in 0..n : i \in T
  BY <1>7, <1>8, UpTo
<1>10. ScannedTo(y \o f[n], Read(n)) /\ n \in 1..n
  <2>1. n \in 0..n /\ n # 0 /\ n \in 1..n
    OBVIOUS
  <2> QED  BY <1>9, <2>1 DEF T
<1>11. PairsOf(y \o f[n]) = Close(Read(n))
  <2>1. PICK c \in Seq(Chars) : c = y \o f[n]
    <3>1. f[n] \in Seq(Chars)
      BY <1>4
    <3>2. y \o f[n] \in Seq(Chars)
      BY <3>1
    <3> QED  BY <3>2
  <2> QED  BY <1>10, <2>1, Scanned
<1>12. Close(Read(n)) = Append(a \o SubSeq(ps, 1, n - 1), ps[n])
  <2>1. Written(ps[n]) # <<>> /\ PairOf(Written(ps[n])) = ps[n]
    BY <1>5, <1>10, PairBack
  <2> QED  BY <2>1 DEF Close
<1>13. Append(a \o SubSeq(ps, 1, n - 1), ps[n]) = a \o ps
  <2>1. Append(a \o SubSeq(ps, 1, n - 1), ps[n]) = a \o SubSeq(ps, 1, n)
    BY <1>1, <1>2, <1>6, <1>10, AppendBehind
  <2>2. SubSeq(ps, 1, n) = ps
    BY <1>2
  <2> QED  BY <2>1, <2>2
<1> QED  BY <1>4, <1>11, <1>12, <1>13

\* A query whose last pair is closed already, and one whose last pair an ampersand closes.
LEMMA Ended ==
  ASSUME NEW x \in Seq(Chars)
  PROVE  /\ x \o <<"&">> \in Seq(Chars) /\ PairsOf(x \o <<"&">>) = PairsOf(x)
         /\ ScannedTo(x \o <<"&">>, [pairs |-> PairsOf(x), piece |-> <<>>])
<1>1. PICK z : ScannedTo(x, z) /\ PairsOf(x) = Close(z)
  BY Scanned
<1>2. /\ x \o <<"&">> \in Seq(Chars)
      /\ ScannedTo(x \o <<"&">>, [pairs |-> Close(z), piece |-> <<>>])
  BY <1>1, ScanAmpersand
<1>3. PairsOf(x \o <<"&">>) = Close([pairs |-> Close(z), piece |-> <<>>])
  BY <1>2, Scanned
<1>4. \A a : Close([pairs |-> a, piece |-> <<>>]) = a
  BY DEF Close
<1> QED  BY <1>1, <1>2, <1>3, <1>4

\* A query that ends with an ampersand has no piece left.
LEMMA Closed ==
  ASSUME NEW x \in Seq(Chars), x = <<>> \/ Last(x) = "&"
  PROVE  ScannedTo(x, [pairs |-> PairsOf(x), piece |-> <<>>])
<1>1. CASE x = <<>>
  <2>1. ScannedTo(<<>>, [pairs |-> PairsOf(<<>>), piece |-> <<>>])
    BY ScanNothing, Zenon
  <2> QED  BY <1>1, <2>1
<1>2. CASE x # <<>>
  <2>1. PICK n \in Nat : n = Len(x) /\ n \in 1..Len(x)
    BY <1>2
  <2>2. x[n] = "&"
    BY <1>2, <2>1 DEF Last
  <2>3. PICK s \in Seq(Chars) : s = SubSeq(x, 1, n - 1)
    <3>1. SubSeq(x, 1, n - 1) \in Seq(Chars)
      BY <2>1
    <3> QED  BY <3>1
  <2>4. s \o <<"&">> = x
    <3>1. SubSeq(x, 1, n) = Append(SubSeq(x, 1, n - 1), x[n]) /\ SubSeq(x, 1, n) = x
      BY <2>1
    <3>2. x[n] \in Chars
      BY <2>1
    <3> QED  BY <2>2, <2>3, <3>1, <3>2, AppendIsConcat
  <2>5. PairsOf(s \o <<"&">>) = PairsOf(s)
        /\ ScannedTo(s \o <<"&">>, [pairs |-> PairsOf(s), piece |-> <<>>])
    BY Ended
  <2> QED  BY <2>4, <2>5
<1> QED  BY <1>1, <1>2

\* What follows a target with a query follows its query.
LEMMA QueryBehind ==
  ASSUME NEW q \in Seq(Chars), Has(q, {"?"})
  PROVE  /\ Query(q) \in Seq(Chars)
         /\ IF Query(q) = <<>> THEN Last(q) = "?" ELSE Last(Query(q)) = Last(q)
         /\ \A w \in Seq(Chars) : Query(q \o w) = Query(q) \o w
<1>1. PICK n \in 1..Len(q) : n = FirstOf(q, {"?"}) /\ q[n] = "?"
  BY FirstOfIsFirst, HasFirst DEF IsFirst
<1>2. PICK m \in 1..Len(q) + 1 : m = n + 1
  OBVIOUS
<1>3. PICK x \in Seq(Chars) : /\ x = From(q, m) /\ Len(x) = Len(q) - n
                              /\ \A j \in 1..Len(q) - n : x[j] = q[n + j]
  <2>1. Len(q) + 1 - m = Len(q) - n /\ m - 1 = n
    BY <1>2
  <2>2. /\ From(q, m) \in Seq(Chars) /\ Len(From(q, m)) = Len(q) + 1 - m
        /\ \A j \in 1..Len(q) + 1 - m : From(q, m)[j] = q[m - 1 + j]
    BY Parts
  <2> QED  BY <2>1, <2>2
<1>4. Query(q) = x
  BY <1>1, <1>2, <1>3 DEF Query
<1>5. ASSUME x = <<>> PROVE Last(q) = "?"
  <2>1. n = Len(q)
    BY <1>3, <1>5
  <2> QED  BY <1>1, <2>1 DEF Last
<1>6. ASSUME x # <<>> PROVE Last(x) = Last(q)
  <2>1. Len(x) \in 1..Len(q) - n /\ n + Len(x) = Len(q)
    BY <1>3, <1>6
  <2>2. x[Len(x)] = q[Len(q)]
    BY <1>3, <2>1
  <2> QED  BY <2>2 DEF Last
<1>7. ASSUME NEW w \in Seq(Chars) PROVE Query(q \o w) = x \o w
  <2>1. FirstOf(q \o w, {"?"}) = n
    BY <1>1, FirstStays
  <2>2. From(q \o w, m) = From(q, m) \o w
    BY <1>2, CutBehind
  <2> QED  BY <1>2, <1>3, <2>1, <2>2 DEF Query
<1>8. IF Query(q) = <<>> THEN Last(q) = "?" ELSE Last(Query(q)) = Last(q)
  BY <1>4, <1>5, <1>6
<1> QED  BY <1>4, <1>7, <1>8

\* A question mark starts the query of a target that had none.
LEMMA QueryStarts ==
  ASSUME NEW q \in Seq(Chars), ~Has(q, {"?"}), NEW w \in Seq(Chars)
  PROVE  Query(q) = <<>> /\ Query((q \o <<"?">>) \o w) = w
<1>1. PICK e \in Seq(Chars) : e = <<"?">> /\ Len(e) = 1 /\ e[1] = "?"
  <2>1. "?" \in Chars
    BY DEF Chars, Tokens, Delimiters
  <2>2. <<"?">> \in Seq(Chars)
    BY <2>1
  <2> QED  BY <2>2
<1>2. FirstOf(q, {"?"}) = Len(q) + 1
  <2>1. FirstOf(q, {"?"}) \in 1..Len(q) + 1 /\ ~(FirstOf(q, {"?"}) <= Len(q))
    BY FirstOfIsFirst, HasFirst DEF IsFirst
  <2> QED  BY <2>1
<1>3. Query(q) = <<>>
  <2>1. SubSeq(q, Len(q) + 2, Len(q)) = <<>>
    OBVIOUS
  <2>2. (Len(q) + 1) + 1 = Len(q) + 2
    OBVIOUS
  <2> QED  BY <1>2, <2>1, <2>2 DEF Query, From
<1>4. PICK v \in Seq(Chars) : v = e \o w /\ v # <<>> /\ v[1] = "?"
  <2>1. /\ e \o w \in Seq(Chars) /\ Len(e \o w) = Len(e) + Len(w)
        /\ \A j \in 1..Len(e) : (e \o w)[j] = e[j]
    BY Behind
  <2>2. Len(w) \in Nat
    OBVIOUS
  <2>3. Len(e \o w) # 0 /\ (e \o w)[1] = "?"
    BY <1>1, <2>1, <2>2
  <2>4. e \o w # <<>>
    BY <2>3
  <2> QED  BY <2>1, <2>3, <2>4
<1>5. FirstOf(q \o v, {"?"}) = Len(q) + 1
  BY <1>4, FirstBehind
<1>6. (q \o e) \o w = q \o v
  <2>1. (q \o e) \o w = q \o (e \o w)
    BY Associative
  <2> QED  BY <1>4, <2>1
<1>7. From((q \o e) \o w, (Len(q) + 1) + 1) = w
  <2>1. PICK c \in Seq(Chars) : c = q \o e /\ Len(c) = Len(q) + 1
    <3>1. q \o e \in Seq(Chars) /\ Len(q \o e) = Len(q) + Len(e)
      BY Behind
    <3> QED  BY <1>1, <3>1
  <2>2. From(c \o w, Len(c) + 1) = w
    BY PartsOfTwo
  <2> QED  BY <2>1, <2>2
<1> QED  BY <1>1, <1>3, <1>5, <1>6, <1>7 DEF Query

\* So does an ampersand and what follows it.
LEMMA AmpersandQuery ==
  ASSUME NEW q \in Seq(Chars), NEW x \in Seq(Chars), NEW w \in Seq(Chars),
         \A v \in Seq(Chars) : Query(q \o v) = x \o v
  PROVE  Query((q \o <<"&">>) \o w) = (x \o <<"&">>) \o w
<1>1. PICK e \in Seq(Chars) : e = <<"&">>
  <2>1. "&" \in Chars
    BY DEF Chars, Tokens, Delimiters
  <2>2. <<"&">> \in Seq(Chars)
    BY <2>1
  <2> QED  BY <2>2
<1>2. (q \o e) \o w = q \o (e \o w) /\ (x \o e) \o w = x \o (e \o w)
  BY Associative
<1>3. e \o w \in Seq(Chars)
  BY ONLY e \in Seq(Chars), w \in Seq(Chars)
<1> QED  BY <1>1, <1>2, <1>3

\* append_query_params puts the right character in front of its list, unless the query
\* ends with a question mark.
LEMMA ParametersBehind ==
  ASSUME NEW q \in Seq(Chars), NEW ps \in Seq(Params),
         ~(Query(q) # <<>> /\ Last(Query(q)) = "?")
  PROVE  PairsOf(Query(AppendQueryParams(q, ps))) = PairsOf(Query(q)) \o ps
<1>1. PICK l \in Seq(Chars) : l = List(ps)
  <2>1. Seq(Clean) \subseteq Seq(Chars)
    BY CleanIsClean
  <2> QED  BY <2>1, ListType
<1>2. CASE ps = <<>>
  <2>1. PICK y \in Seq(Chars) : Query(q) = y
    <3>1. CASE Has(q, {"?"})
      BY <3>1, QueryBehind
    <3>2. CASE ~Has(q, {"?"})
      <4>1. Query(q) = <<>> /\ <<>> \in Seq(Chars)
        BY <3>2, QueryStarts
      <4> QED  BY <4>1
    <3> QED  BY <3>1, <3>2
  <2>2. PairsOf(y) \in Seq(Pairs)
    <3>1. PICK x \in Scans : PairsOf(y) = Close(x)
      BY Scanned
    <3> QED  BY <3>1, CloseType
  <2>3. PairsOf(y) \o <<>> = PairsOf(y)
    BY <2>2
  <2> QED  BY <1>2, <2>1, <2>3 DEF AppendQueryParams
<1>3. CASE ps # <<>> /\ ~Has(q, {"?"})
  <2>1. AppendQueryParams(q, ps) = (q \o <<"?">>) \o l
    BY <1>1, <1>3 DEF AppendQueryParams, Glue
  <2>2. Query(q) = <<>> /\ Query((q \o <<"?">>) \o l) = l
    BY <1>3, QueryStarts
  <2>3. PICK y \in Seq(Chars) : y = <<>> /\ ScannedTo(y, [pairs |-> <<>>, piece |-> <<>>])
    <3>1. <<>> \in Seq(Chars)
      OBVIOUS
    <3> QED  BY <3>1, ScanNothing
  <2>4. PairsOf(y \o List(ps)) = <<>> \o ps
    BY <1>3, <2>3, ListScans
  <2>5. y \o l = l
    BY <2>3
  <2> QED  BY <1>1, <2>1, <2>2, <2>4, <2>5, ScanNothing
<1>4. CASE ps # <<>> /\ Has(q, {"?"})
  <2>1. PICK x \in Seq(Chars) :
          /\ x = Query(q)
          /\ IF x = <<>> THEN Last(q) = "?" ELSE Last(x) = Last(q)
          /\ \A w \in Seq(Chars) : Query(q \o w) = x \o w
    <3>1. /\ Query(q) \in Seq(Chars)
          /\ IF Query(q) = <<>> THEN Last(q) = "?" ELSE Last(Query(q)) = Last(q)
          /\ \A w \in Seq(Chars) : Query(q \o w) = Query(q) \o w
      BY <1>4, QueryBehind
    <3> QED  BY <3>1
  <2>2. CASE Last(q) \in {"?", "&"}
    <3>1. x = <<>> \/ Last(x) = "&"
      BY <2>1, <2>2
    <3>2. AppendQueryParams(q, ps) = q \o l
      <4>1. AppendQueryParams(q, ps) = (q \o <<>>) \o l
        BY <1>1, <1>4, <2>2 DEF AppendQueryParams, Glue
      <4>2. q \o <<>> = q
        OBVIOUS
      <4> QED  BY <4>1, <4>2
    <3>3. ScannedTo(x, [pairs |-> PairsOf(x), piece |-> <<>>])
      BY <3>1, Closed
    <3>4. PairsOf(x \o List(ps)) = PairsOf(x) \o ps
      BY <1>4, <3>3, ListScans
    <3> QED  BY <1>1, <2>1, <3>2, <3>4
  <2>3. CASE Last(q) \notin {"?", "&"}
    <3>1. AppendQueryParams(q, ps) = (q \o <<"&">>) \o l
      BY <1>1, <1>4, <2>3 DEF AppendQueryParams, Glue
    <3>2. PICK y \in Seq(Chars) : y = x \o <<"&">>
                                  /\ ScannedTo(y, [pairs |-> PairsOf(x), piece |-> <<>>])
      BY Ended
    <3>3. PairsOf(y \o List(ps)) = PairsOf(x) \o ps
      BY <1>4, <3>2, ListScans
    <3>4. Query((q \o <<"&">>) \o l) = y \o l
      <4>1. Query((q \o <<"&">>) \o l) = (x \o <<"&">>) \o l
        BY <2>1, AmpersandQuery
      <4> QED  BY <3>2, <4>1
    <3> QED  BY <1>1, <2>1, <3>1, <3>3, <3>4
  <2> QED  BY <2>2, <2>3
<1> QED  BY <1>2, <1>3, <1>4

-------------------------------------------------------------------------------
(* What every request is and does.                                         *)

\* Client::request resolves a redirect from the URL the request was sent to, for every
\* URL and every list of parameters: effective_request_url, which cuts and appends
\* before it parses, and serialize_request, which parses before it appends to the
\* target, come to the same URL.
THEOREM RedirectBase == Spec => []RedirectBaseIsWhatWasSent
<1>1. Built => RedirectBaseIsWhatWasSent
  BY EffectiveUrlParses DEF RedirectBaseIsWhatWasSent, Sent, Error
<1> QED  BY <1>1, StaysBuilt, PTL

\* The server finds one Host field and the length of the body, whatever fields the caller
\* put in, and where the URL gives the host, its parser finds in the field the server
\* that Url::parse found (serialize_request, append_generated_host).
THEOREM OneMessageIsRead == Spec => []ServerReadsOneMessage
<1>1. Built => ServerReadsOneMessage
  BY OneMessage DEF ServerReadsOneMessage
<1> QED  BY <1>1, StaysBuilt, PTL

\* The server finds the parameters of a request as its caller gave them, whatever URL
\* and parameters these are: append_query_params and percent_encode_query put no
\* character into the target that a server would take for another one.
THEOREM ParametersReadBack == Spec => []QueryReadsBack
<1>1. Built => QueryReadsBack
  <2>1. SUFFICES ASSUME Built, Sent,
                        ~(Query(Parse(url).url.target) # <<>>
                            /\ Last(Query(Parse(url).url.target)) = "?")
                 PROVE  PairsOf(Query(RequestTarget))
                          = PairsOf(Query(Parse(url).url.target)) \o params
    BY DEF QueryReadsBack, ParametersAreAppended
  <2>2. PICK t \in Seq(Chars) : t = url
    BY <2>1, TextsAreChars
  <2>3. Parse(t).error = "none"
    BY <2>1, <2>2 DEF Sent, Error
  <2>4. PICK q \in Seq(Chars) : q = Parse(url).url.target
    BY <2>2, <2>3, ParsedIsBase DEF IsBase
  <2>5. PICK ps \in Seq(Params) : ps = params
    BY <2>1 DEF Built
  <2>6. PairsOf(Query(AppendQueryParams(q, ps))) = PairsOf(Query(q)) \o ps
    BY <2>1, <2>4, ParametersBehind
  <2> QED  BY <2>4, <2>5, <2>6 DEF RequestTarget
<1> QED  BY <1>1, StaysBuilt, PTL

\* Url::parse takes exactly the URLs that the grammar reads, of the texts that a
\* caller gives, that append_query_params makes of them, that a server gives for a
\* Location, and that a redirect leads to.
THEOREM ParseTakesTheGrammar == Spec => []ParsesTheGrammar
<1>1. ASSUME Built PROVE ParsesTheGrammar
  <2>1. url \in Seq(Chars) /\ location \in Seq(Chars) /\ EffectiveUrl \in Seq(Chars)
    BY <1>1, TextsAreChars
  <2>2. resolved.text \in Seq(Chars)
    <3>1. CASE resolved = Unresolved
      <4>1. Unresolved.text = <<>> /\ <<>> \in Seq(Chars)
        BY DEF Unresolved
      <4> QED  BY <3>1, <4>1
    <3>2. CASE resolved # Unresolved
      <4>1. Parse(url).error = "none" /\ resolved = Resolve(Parse(EffectiveUrl).url, location)
        BY <1>1, <3>2 DEF Built
      <4>2. PICK e \in Seq(Chars) : e = EffectiveUrl
        BY <2>1
      <4>3. Parse(e).error = "none"
        BY <1>1, <4>1, <4>2, EffectiveUrlParses DEF Accepted
      <4>4. IsBase(Parse(e).url)
        BY <4>3, ParsedIsBase
      <4> QED  BY <2>1, <4>1, <4>2, <4>4, ResolveType
    <3> QED  BY <3>1, <3>2
  <2>3. \A t \in Seq(Chars) :
          Readings(t) = IF Parse(t).error = "none" THEN {Parse(t).url} ELSE {}
    BY ParseIsGrammar
  <2> QED  BY <2>1, <2>2, <2>3 DEF ParsesTheGrammar
<1> QED  BY <1>1, StaysBuilt, PTL

\* A redirect with a relative Location leads where RFC 3986 says, from the URL the
\* request was sent to.
THEOREM RedirectsResolveAsRfc3986 == Spec => []ResolvesAsRfc3986
<1>1. ASSUME Built PROVE ResolvesAsRfc3986
  <2>1. SUFFICES ASSUME Relative(location)
                 PROVE  Resolves([Parse(url).url EXCEPT !.target = RequestTarget],
                                 location, resolved)
    BY DEF ResolvesAsRfc3986, Resolves
  <2>2. location # <<>>
    BY <2>1 DEF Relative
  <2>3. Parse(url).error = "none" /\ resolved = Resolve(Parse(EffectiveUrl).url, location)
    BY <1>1, <2>2 DEF Built
  <2>4. PICK e \in Seq(Chars) : e = EffectiveUrl
    BY <1>1, TextsAreChars
  <2>5. PICK from : from = [Parse(url).url EXCEPT !.target = RequestTarget]
    OBVIOUS
  <2>6. Parse(e) = Accepted(from)
    BY <1>1, <2>3, <2>4, <2>5, EffectiveUrlParses
  <2>7. Parse(e).error = "none" /\ Parse(e).url = from
    BY <2>6 DEF Accepted
  <2>8. IsBase(from)
    BY <2>7, ParsedIsBase
  <2>9. location \in Seq(Chars)
    BY <1>1, TextsAreChars
  <2>10. Resolves(from, location, Resolve(from, location))
    BY <2>1, <2>8, <2>9, RelativeResolves
  <2> QED  BY <2>3, <2>4, <2>5, <2>7, <2>10
<1> QED  BY <1>1, StaysBuilt, PTL
================================================================================
