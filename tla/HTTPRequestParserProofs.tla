----------------------- MODULE HTTPRequestParserProofs -----------------------
(* Proofs about HTTPRequestParser, for any streams: however a stream is    *)
(* cut into recv() calls, the parser finds in it what there is to find.    *)
EXTENDS HTTPRequestParser, SequenceTheorems, NaturalsInduction, WellFoundedInduction, TLAPS

Text == Seq(Symbols)

-----------------------------------------------------------------------------
(* Lemmas about sequences and least elements.                              *)

Below == {ij \in Nat \X Nat : ij[1] < ij[2]}

\* A set of natural numbers has a least element, which Min() is.
LEMMA Least ==
  ASSUME NEW S, S \subseteq Nat, S # {}
  PROVE  Min(S) \in S /\ \A y \in S : Min(S) <= y
<1>1. IsWellFoundedOn(Below, Nat)
  BY NatLessThanWellFounded DEF OpToRel, Below
<1>2. PICK x \in S : \A y \in S : ~(<<y, x>> \in Below)
  BY <1>1, WFMin
<1>3. \A y \in S : ~(y < x)
  BY <1>2 DEF Below
<1>4. \E x1 \in S : \A y \in S : x1 <= y
  BY <1>3
<1> QED
  BY <1>4 DEF Min

\* A set of numbers that a longer stream only extends behind n.
LEMMA SameLeast ==
  ASSUME NEW n \in Nat, NEW A, NEW B, A \subseteq 1..n, B \subseteq Nat, A # {},
         A \subseteq B, \A b \in B : b <= n => b \in A
  PROVE  B # {} /\ Min(B) = Min(A) /\ Min(A) \in 1..n
<1>1. Min(A) \in A /\ \A a \in A : Min(A) <= a
  BY Least
<1>2. Min(B) \in B /\ \A b \in B : Min(B) <= b
  BY Least
<1> DEFINE a == Min(A)
           b == Min(B)
<1> HIDE DEF a, b
<1>3. a \in A /\ a \in 1..n /\ a \in B /\ b \in B /\ b \in Nat
  BY <1>1, <1>2 DEF a, b
<1>4. b <= a /\ a <= n
  BY <1>2, <1>3 DEF b
<1>5. b <= n
  BY <1>3, <1>4
<1>6. b \in A
  BY <1>3, <1>5
<1>7. a <= b
  BY <1>1, <1>6 DEF a
<1>8. a = b
  BY <1>3, <1>4, <1>7
<1> QED
  BY <1>3, <1>8 DEF a, b

\* A text behind another.
LEMMA Concat ==
  ASSUME NEW s \in Text, NEW x \in Text
  PROVE  /\ s \o x \in Text /\ Len(s \o x) = Len(s) + Len(x) /\ Len(s) \in Nat /\ Len(x) \in Nat
         /\ \A i \in 1..Len(s) : (s \o x)[i] = s[i]
         /\ \A i \in 1..Len(x) : (s \o x)[Len(s) + i] = x[i]
  BY DEF Text

\* Three texts, one behind the other.
LEMMA ConcatAssociates ==
  ASSUME NEW s \in Text, NEW x \in Text, NEW y \in Text
  PROVE  s \o (x \o y) = (s \o x) \o y
  BY DEF Text

\* A stream with nothing before it or behind it.
LEMMA ConcatNothing ==
  ASSUME NEW s \in Text
  PROVE  <<>> \in Text /\ s \o <<>> = s /\ <<>> \o s = s
  BY DEF Text

\* The symbols behind i, up to j.
LEMMA Part ==
  ASSUME NEW s \in Text, NEW i \in Nat, NEW j \in Nat, i <= j, j <= Len(s)
  PROVE  /\ SubSeq(s, i + 1, j) \in Text /\ Len(SubSeq(s, i + 1, j)) = j - i
         /\ \A k \in 1..j - i : SubSeq(s, i + 1, j)[k] = s[i + k]
  BY DEF Text

\* The symbols behind i.
LEMMA FromIs ==
  ASSUME NEW s \in Text, NEW i \in Nat, i <= Len(s)
  PROVE  /\ From(s, i + 1) \in Text /\ Len(From(s, i + 1)) = Len(s) - i /\ Len(s) \in Nat
         /\ \A k \in 1..Len(s) - i : From(s, i + 1)[k] = s[i + k]
  BY Part DEF From, Text

\* The same length and the same symbols are the same text.
LEMMA SameText ==
  ASSUME NEW s \in Text, NEW x \in Text, Len(s) = Len(x), \A i \in 1..Len(s) : s[i] = x[i]
  PROVE  s = x
  BY DEF Text

\* What is behind a position of a text, when more text follows.
LEMMA FromConcat ==
  ASSUME NEW s \in Text, NEW x \in Text, NEW i \in Nat, i <= Len(s)
  PROVE  From(s \o x, i + 1) = From(s, i + 1) \o x
<1>1. s \o x \in Text /\ Len(s \o x) = Len(s) + Len(x) /\ Len(s) \in Nat /\ Len(x) \in Nat
  BY Concat
<1> DEFINE a == From(s \o x, i + 1)
           f == From(s, i + 1)
           b == f \o x
<1>2. a \in Text /\ Len(a) = Len(s) + Len(x) - i /\ \A k \in 1..Len(s) + Len(x) - i : a[k] = (s \o x)[i + k]
  <2> DEFINE t == s \o x
  <2> HIDE DEF t
  <2>1. t \in Text /\ i <= Len(t) /\ Len(t) = Len(s) + Len(x)
    BY <1>1 DEF t
  <2>2. /\ From(t, i + 1) \in Text /\ Len(From(t, i + 1)) = Len(t) - i
        /\ \A k \in 1..Len(t) - i : From(t, i + 1)[k] = t[i + k]
    BY <2>1, FromIs
  <2> QED
    BY <2>1, <2>2 DEF t
<1>3. f \in Text /\ Len(f) = Len(s) - i /\ \A k \in 1..Len(s) - i : f[k] = s[i + k]
  BY FromIs
<1>4. b \in Text /\ Len(b) = Len(f) + Len(x) /\ (\A k \in 1..Len(f) : b[k] = f[k])
      /\ \A k \in 1..Len(x) : b[Len(f) + k] = x[k]
  BY <1>3, Concat
<1> HIDE DEF a, b, f
<1>5. ASSUME NEW k \in 1..Len(a) PROVE a[k] = b[k]
  <2>1. CASE k <= Len(s) - i
    <3>1. i + k \in 1..Len(s) /\ k \in 1..Len(f)
      BY <1>1, <1>2, <1>3, <2>1
    <3>2. a[k] = s[i + k]
      BY <1>1, <1>2, <3>1, Concat
    <3> QED
      BY <1>3, <1>4, <2>1, <3>1, <3>2
  <2>2. CASE k > Len(s) - i
    <3> DEFINE m == k - (Len(s) - i)
    <3>1. m \in 1..Len(x) /\ i + k = Len(s) + m /\ k = Len(f) + m
      BY SMTT(30), <1>1, <1>2, <1>3, <2>2
    <3> HIDE DEF m
    <3>2. a[k] = x[m]
      <4>1. a[k] = (s \o x)[Len(s) + m]
        BY <1>1, <1>2, <3>1
      <4>2. (s \o x)[Len(s) + m] = x[m]
        BY <3>1, Concat
      <4> QED
        BY <4>1, <4>2
    <3>3. b[k] = x[m]
      BY <1>4, <3>1
    <3> QED
      BY <3>2, <3>3
  <2> QED
    BY <1>1, <1>2, <2>1, <2>2
<1> QED
  <2>1. Len(a) = Len(b)
    BY <1>1, <1>2, <1>3, <1>4
  <2>2. a = b
    BY <1>2, <1>4, <1>5, <2>1, SameText
  <2> QED
    BY <2>2 DEF a, b, f

\* What is before a position of a text.
LEMMA FirstConcat ==
  ASSUME NEW s \in Text, NEW x \in Text, NEW i \in Nat, i <= Len(s)
  PROVE  SubSeq(s \o x, 1, i) = SubSeq(s, 1, i) /\ SubSeq(s, 1, i) \in Text /\ Len(SubSeq(s, 1, i)) = i
<1>1. s \o x \in Text /\ Len(s \o x) = Len(s) + Len(x) /\ Len(s) \in Nat /\ Len(x) \in Nat
      /\ \A k \in 1..Len(s) : (s \o x)[k] = s[k]
  BY Concat
<1> DEFINE a == SubSeq(s \o x, 1, i)
           b == SubSeq(s, 1, i)
<1>2. a \in Text /\ Len(a) = i /\ \A k \in 1..i : a[k] = (s \o x)[k]
  <2> DEFINE t == s \o x
  <2> HIDE DEF t
  <2>1. t \in Text /\ i <= Len(t)
    BY <1>1 DEF t
  <2>2. SubSeq(t, 0 + 1, i) \in Text /\ Len(SubSeq(t, 0 + 1, i)) = i - 0 /\ \A k \in 1..i - 0 : SubSeq(t, 0 + 1, i)[k] = t[0 + k]
    BY <2>1, Part
  <2> QED
    BY <2>2 DEF t
<1>3. b \in Text /\ Len(b) = i /\ \A k \in 1..i : b[k] = s[k]
  <2>2. SubSeq(s, 0 + 1, i) \in Text /\ Len(SubSeq(s, 0 + 1, i)) = i - 0 /\ \A k \in 1..i - 0 : SubSeq(s, 0 + 1, i)[k] = s[0 + k]
    BY Part
  <2> QED
    BY <2>2
<1> HIDE DEF a, b
<1>4. \A k \in 1..Len(a) : a[k] = b[k]
  BY <1>1, <1>2, <1>3
<1>5. a = b
  BY <1>2, <1>3, <1>4, SameText
<1> QED
  BY <1>3, <1>5 DEF a, b

\* What is left of the data is what is left of all that came, when the end is
\* in the data.
LEMMA LeftOver ==
  ASSUME NEW h \in Text, NEW d \in Text, NEW end \in Nat, Len(h) <= end, end <= Len(h \o d)
  PROVE  /\ From(d, Len(d) - (Len(h \o d) - end) + 1) = From(h \o d, end + 1)
         /\ From(h \o d, end + 1) \in Text
         /\ Len(From(h \o d, end + 1)) = Len(h) + Len(d) - end
<1>1. h \o d \in Text /\ Len(h \o d) = Len(h) + Len(d) /\ Len(h) \in Nat /\ Len(d) \in Nat
      /\ \A k \in 1..Len(d) : (h \o d)[Len(h) + k] = d[k]
  BY Concat
<1> DEFINE i == Len(d) - (Len(h \o d) - end)
           t == h \o d
           a == From(d, i + 1)
           b == From(t, end + 1)
<1>2. i \in Nat /\ i <= Len(d) /\ i = end - Len(h)
  BY <1>1
<1> HIDE DEF i
<1>3. a \in Text /\ Len(a) = Len(d) - i /\ \A k \in 1..Len(d) - i : a[k] = d[i + k]
  BY <1>2, FromIs
<1>4. b \in Text /\ Len(b) = Len(t) - end /\ \A k \in 1..Len(t) - end : b[k] = t[end + k]
  BY <1>1, FromIs
<1> HIDE DEF a, b, t
<1>5. ASSUME NEW k \in 1..Len(a) PROVE a[k] = b[k]
  <2>1. i + k \in 1..Len(d) /\ end + k = Len(h) + (i + k) /\ k \in 1..Len(t) - end /\ k \in 1..Len(d) - i
    BY <1>1, <1>2, <1>3 DEF t
  <2>2. t[end + k] = d[i + k]
    BY <1>1, <2>1 DEF t
  <2> QED
    BY <1>3, <1>4, <2>1, <2>2
<1>6. Len(a) = Len(b) /\ Len(b) = Len(h) + Len(d) - end
  BY <1>1, <1>2, <1>3, <1>4 DEF t
<1>7. a = b
  BY <1>3, <1>4, <1>5, <1>6, SameText
<1> QED
  BY <1>4, <1>6, <1>7 DEF a, b, i, t

-----------------------------------------------------------------------------
(* The ends of lines, headers and trailers.                                *)

\* The symbols that end something.
LEMMA SomeSymbols == {"n", "r", " "} \subseteq Symbols
  BY DEF Symbols, White

\* Ends are positions, and more text has the same ones as far as the text goes.
LEMMA LineEndsStay ==
  ASSUME NEW s \in Text, NEW x \in Text
  PROVE  /\ LineEnds(s) \subseteq 1..Len(s) /\ LineEnds(s \o x) \subseteq 1..Len(s) + Len(x)
         /\ LineEnds(s) \subseteq LineEnds(s \o x)
         /\ \A i \in LineEnds(s \o x) : i <= Len(s) => i \in LineEnds(s)
<1>1. /\ s \o x \in Text /\ Len(s \o x) = Len(s) + Len(x) /\ Len(s) \in Nat /\ Len(x) \in Nat
      /\ \A k \in 1..Len(s) : (s \o x)[k] = s[k]
  BY Concat
<1> DEFINE t == s \o x
<1>2. DOMAIN s = 1..Len(s) /\ DOMAIN t = 1..Len(s) + Len(x)
  BY <1>1 DEF Text
<1> HIDE DEF t
<1> QED
  BY <1>1, <1>2 DEF LineEnds, t

\* Whether a header ends somewhere is said by the symbols up to there.
LEMMA EndsAtSame ==
  ASSUME NEW s, NEW t, NEW i \in Nat, i >= 1, \A k \in 1..i : t[k] = s[k]
  PROVE  EndsAt(t, i) = EndsAt(s, i)
<1>1. t[i] = s[i]
  OBVIOUS
<1>2. i > 1 => t[i - 1] = s[i - 1]
  OBVIOUS
<1>3. i > 2 => t[i - 1] = s[i - 1] /\ t[i - 2] = s[i - 2]
  OBVIOUS
<1> QED
  BY <1>1, <1>2, <1>3 DEF EndsAt

\* The same for the ends of headers, ...
LEMMA HeaderEndsStay ==
  ASSUME NEW s \in Text, NEW x \in Text
  PROVE  /\ HeaderEnds(s) \subseteq 1..Len(s) /\ HeaderEnds(s \o x) \subseteq 1..Len(s) + Len(x)
         /\ HeaderEnds(s) \subseteq HeaderEnds(s \o x)
         /\ \A i \in HeaderEnds(s \o x) : i <= Len(s) => i \in HeaderEnds(s)
<1>1. /\ s \o x \in Text /\ Len(s \o x) = Len(s) + Len(x) /\ Len(s) \in Nat /\ Len(x) \in Nat
      /\ \A k \in 1..Len(s) : (s \o x)[k] = s[k]
  BY Concat
<1> DEFINE t == s \o x
<1>2. DOMAIN s = 1..Len(s) /\ DOMAIN t = 1..Len(s) + Len(x)
  BY <1>1 DEF Text
<1>3. \A i \in 1..Len(s) : EndsAt(t, i) = EndsAt(s, i)
  <2> SUFFICES ASSUME NEW i \in 1..Len(s) PROVE EndsAt(t, i) = EndsAt(s, i)
    OBVIOUS
  <2>1. i \in Nat /\ i >= 1 /\ \A k \in 1..i : t[k] = s[k]
    BY <1>1
  <2> QED
    BY <2>1, EndsAtSame
<1> HIDE DEF t
<1> QED
  BY <1>1, <1>2, <1>3 DEF HeaderEnds, t

\* ... and for those of trailers.
LEMMA TrailerEndsStay ==
  ASSUME NEW s \in Text, NEW x \in Text
  PROVE  /\ TrailerEnds(s) \subseteq 1..Len(s) /\ TrailerEnds(s \o x) \subseteq 1..Len(s) + Len(x)
         /\ TrailerEnds(s) \subseteq TrailerEnds(s \o x)
         /\ \A i \in TrailerEnds(s \o x) : i <= Len(s) => i \in TrailerEnds(s)
<1>1. /\ s \o x \in Text /\ Len(s \o x) = Len(s) + Len(x) /\ Len(s) \in Nat /\ Len(x) \in Nat
  BY Concat
<1> DEFINE t == s \o x
<1>2. DOMAIN s = 1..Len(s) /\ DOMAIN t = 1..Len(s) + Len(x)
  BY <1>1 DEF Text
<1>3. \A i \in 1..Len(s) : SubSeq(t, 1, i) = SubSeq(s, 1, i)
  BY <1>1, FirstConcat
<1>4. /\ HeaderEnds(s) \subseteq 1..Len(s) /\ HeaderEnds(t) \subseteq 1..Len(s) + Len(x)
      /\ HeaderEnds(s) \subseteq HeaderEnds(t)
      /\ \A i \in HeaderEnds(t) : i <= Len(s) => i \in HeaderEnds(s)
  BY HeaderEndsStay
<1> HIDE DEF t
<1> DEFINE short(q) == {i \in DOMAIN q : SubSeq(q, 1, i) \in {<<"n">>, <<"r", "n">>}}
<1>5. /\ short(s) \subseteq 1..Len(s) /\ short(t) \subseteq 1..Len(s) + Len(x)
      /\ short(s) \subseteq short(t)
      /\ \A i \in short(t) : i <= Len(s) => i \in short(s)
  <2>1. short(s) \subseteq 1..Len(s) /\ short(t) \subseteq 1..Len(s) + Len(x)
    BY <1>2
  <2>2. ASSUME NEW i \in 1..Len(s) PROVE i \in short(s) <=> i \in short(t)
    <3>1. i \in DOMAIN s /\ i \in DOMAIN t
      BY <1>1, <1>2
    <3> QED
      BY <1>3, <3>1
  <2> HIDE DEF short
  <2>3. \A i \in short(t) : i <= Len(s) => i \in 1..Len(s)
    BY <1>1, <2>1
  <2> QED
    BY <1>1, <2>1, <2>2, <2>3
<1>6. TrailerEnds(s) = HeaderEnds(s) \cup short(s) /\ TrailerEnds(t) = HeaderEnds(t) \cup short(t)
  BY DEF TrailerEnds
<1> HIDE DEF short
<1> QED
  BY <1>4, <1>5, <1>6 DEF t

\* find() of a newline finds the first one.
LEMMA FindIs ==
  ASSUME NEW s \in Text
  PROVE  find(s, "n") = IF LineEnds(s) = {} THEN 0 ELSE Min(LineEnds(s))
<1>1. DOMAIN s = 1..Len(s)
  BY DEF Text
<1>2. {i \in 1..Len(s) : s[i] = "n"} = LineEnds(s)
  BY <1>1 DEF LineEnds
<1> QED
  BY <1>2 DEF find, SelectInSeq

\* The patterns that find_double_newline() looks for are the ends of headers.
LEMMA Doubles ==
  ASSUME NEW s \in Text, NEW i \in 1..Len(s)
  PROVE  DoubleNewline(s, i) <=> EndsAt(s, i)
<1>1. i > 2 => (SubSeq(s, i - 2, i) = <<"n", "r", "n">> <=> s[i - 2] = "n" /\ s[i - 1] = "r" /\ s[i] = "n")
  <2> SUFFICES ASSUME i > 2
               PROVE  SubSeq(s, i - 2, i) = <<"n", "r", "n">> <=> s[i - 2] = "n" /\ s[i - 1] = "r" /\ s[i] = "n"
    OBVIOUS
  <2> DEFINE m == i - 3
             p == SubSeq(s, m + 1, i)
  <2>1. m \in Nat /\ m <= i /\ i <= Len(s) /\ m + 1 = i - 2 /\ i - m = 3 /\ i \in Nat
    BY DEF Text
  <2> HIDE DEF m
  <2>2. p \in Text /\ Len(p) = 3 /\ \A k \in 1..3 : p[k] = s[m + k]
    BY <2>1, Part
  <2>3. p[1] = s[i - 2] /\ p[2] = s[i - 1] /\ p[3] = s[i]
    <3> HIDE DEF p
    <3>1. p[1] = s[m + 1] /\ p[2] = s[m + 2] /\ p[3] = s[m + 3]
      BY <2>2
    <3>2. m + 1 = i - 2 /\ m + 2 = i - 1 /\ m + 3 = i
      BY <2>1
    <3> QED
      BY <3>1, <3>2
  <2> DEFINE q == <<"n", "r", "n">>
  <2>4. q \in Text /\ Len(q) = 3 /\ q[1] = "n" /\ q[2] = "r" /\ q[3] = "n"
    <3>1. q \in Text
      <4>1. "n" \in Symbols /\ "r" \in Symbols
        BY SomeSymbols
      <4>2. \A a, b \in Symbols : <<a, b, a>> \in Text
        BY DEF Text
      <4> QED
        BY <4>1, <4>2, Zenon
    <3> QED
      BY <3>1
  <2>5. p = SubSeq(s, i - 2, i)
    BY <2>1
  <2> HIDE DEF p, q, m
  <2>6. p[1] = q[1] /\ p[2] = q[2] /\ p[3] = q[3] => p = q
    BY SMTT(30), <2>2, <2>4, SameText
  <2> QED
    BY <2>3, <2>4, <2>5, <2>6 DEF q
<1>2. i > 1 => (SubSeq(s, i - 1, i) = <<"n", "n">> <=> s[i - 1] = "n" /\ s[i] = "n")
  <2> SUFFICES ASSUME i > 1
               PROVE  SubSeq(s, i - 1, i) = <<"n", "n">> <=> s[i - 1] = "n" /\ s[i] = "n"
    OBVIOUS
  <2> DEFINE m == i - 2
             p == SubSeq(s, m + 1, i)
  <2>1. m \in Nat /\ m <= i /\ i <= Len(s) /\ m + 1 = i - 1 /\ i - m = 2 /\ i \in Nat
    BY DEF Text
  <2> HIDE DEF m
  <2>2. p \in Text /\ Len(p) = 2 /\ \A k \in 1..2 : p[k] = s[m + k]
    BY <2>1, Part
  <2>3. p[1] = s[i - 1] /\ p[2] = s[i]
    BY <2>1, <2>2
  <2> DEFINE q == <<"n", "n">>
  <2>4. q \in Text /\ Len(q) = 2 /\ q[1] = "n" /\ q[2] = "n"
    <3>1. q \in Text
      <4>1. "n" \in Symbols /\ "r" \in Symbols
        BY SomeSymbols
      <4>2. \A a, b \in Symbols : <<a, b>> \in Text
        BY DEF Text
      <4> QED
        BY <4>1, <4>2, Zenon
    <3> QED
      BY <3>1
  <2>5. p = SubSeq(s, i - 1, i)
    BY <2>1
  <2> HIDE DEF p, q, m
  <2>6. p[1] = q[1] /\ p[2] = q[2] => p = q
    BY <2>2, <2>4, SameText
  <2> QED
    BY <2>3, <2>4, <2>5, <2>6 DEF q
<1> QED
  BY <1>1, <1>2 DEF DoubleNewline, EndsAt

\* find_double_newline() finds the first end of a header.
LEMMA DoubleIs ==
  ASSUME NEW s \in Text
  PROVE  find_double_newline(s) = IF HeaderEnds(s) = {} THEN 0 ELSE Min(HeaderEnds(s))
<1>1. DOMAIN s = 1..Len(s) /\ Len(s) \in Nat
  BY DEF Text
<1>2. \A i \in DOMAIN s : DoubleNewline(s, i) <=> i \in HeaderEnds(s)
  BY <1>1, Doubles DEF HeaderEnds
<1>3. HeaderEnds(s) \subseteq DOMAIN s
  BY DEF HeaderEnds
<1>4. CASE HeaderEnds(s) = {}
  BY <1>2, <1>4 DEF find_double_newline
<1>5. CASE HeaderEnds(s) # {}
  <2> DEFINE first == CHOOSE i \in DOMAIN s : DoubleNewline(s, i) /\ \A j \in 1..i - 1 : ~DoubleNewline(s, j)
             m == Min(HeaderEnds(s))
  <2>1. HeaderEnds(s) \subseteq Nat
    BY <1>1, <1>3
  <2>2. m \in HeaderEnds(s) /\ \A j \in HeaderEnds(s) : m <= j
    BY <1>5, <2>1, Least
  <2>3. find_double_newline(s) = first
    BY <1>2, <1>3, <2>2 DEF find_double_newline
  <2>4. m \in DOMAIN s /\ DoubleNewline(s, m)
    BY <1>2, <1>3, <2>2
  <2> HIDE DEF m
  <2>5. \A j \in 1..m - 1 : ~DoubleNewline(s, j)
    <3> SUFFICES ASSUME NEW j \in 1..m - 1, DoubleNewline(s, j) PROVE FALSE
      OBVIOUS
    <3>1. j \in DOMAIN s /\ j < m /\ j \in Nat /\ m \in Nat
      BY <1>1, <2>4
    <3>2. j \in HeaderEnds(s)
      BY <1>2, <3>1
    <3>3. m <= j
      BY <2>2, <3>2
    <3> QED
      BY <3>1, <3>3
  <2>6. first \in DOMAIN s /\ DoubleNewline(s, first) /\ \A j \in 1..first - 1 : ~DoubleNewline(s, j)
    BY <2>4, <2>5
  <2> HIDE DEF first
  <2>7. first \in HeaderEnds(s) /\ first \in Nat /\ m \in Nat
    BY <1>1, <1>2, <2>4, <2>6
  <2>8. m <= first
    BY <2>2, <2>7
  <2>9. ~(m < first)
    <3>1. m < first => m \in 1..first - 1
      BY <1>1, <2>4, <2>7
    <3> QED
      BY <2>4, <2>6, <3>1
  <2>10. m = first
    BY <2>7, <2>8, <2>9
  <2> QED
    BY <1>5, <2>3, <2>10 DEF m
<1> QED
  BY <1>4, <1>5

\* The blank lines that end a trailer at once.
Short(s) == {i \in DOMAIN s : SubSeq(s, 1, i) \in {<<"n">>, <<"r", "n">>}}

\* A newline as a text.
LEMMA OneSymbol == <<"n">> \in Text /\ Len(<<"n">>) = 1 /\ <<"n">>[1] = "n"
<1>1. "n" \in Symbols
  BY SomeSymbols
<1>2. \A a \in Symbols : <<a>> \in Text
  BY DEF Text
<1>3. <<"n">> \in Text
  BY <1>1, <1>2, Zenon
<1> QED
  BY <1>3

\* A carriage return and a newline.
LEMMA TwoSymbols ==
  <<"r", "n">> \in Text /\ Len(<<"r", "n">>) = 2 /\ <<"r", "n">>[1] = "r" /\ <<"r", "n">>[2] = "n"
<1>1. "n" \in Symbols /\ "r" \in Symbols
  BY SomeSymbols
<1>2. \A a, b \in Symbols : <<a, b>> \in Text
  BY DEF Text
<1>3. <<"r", "n">> \in Text
  BY <1>1, <1>2, Zenon
<1> QED
  BY <1>3

\* A trailer that is no more than the blank line.
LEMMA ShortIs ==
  ASSUME NEW s \in Text
  PROVE  /\ IsPrefix(<<"n">>, s) <=> 1 \in Short(s)
         /\ IsPrefix(<<"r", "n">>, s) <=> 2 \in Short(s)
         /\ Short(s) \subseteq {1, 2}
         /\ ~(1 \in Short(s) /\ 2 \in Short(s))
<1> DEFINE one == <<"n">>
           two == <<"r", "n">>
<1>1. DOMAIN s = 1..Len(s) /\ Len(s) \in Nat
  BY DEF Text
<1>2. /\ one \in Text /\ Len(one) = 1 /\ one[1] = "n"
      /\ two \in Text /\ Len(two) = 2 /\ two[1] = "r" /\ two[2] = "n"
  BY OneSymbol, TwoSymbols
<1>3. \A i \in DOMAIN s : Len(SubSeq(s, 1, i)) = i
  BY <1>1, FirstConcat, ConcatNothing
<1>4. SubSeq(one, 1, 1) = one /\ SubSeq(two, 1, 2) = two
  <2> HIDE DEF one, two
  <2> QED
    BY <1>2 DEF Text
<1>5. Short(s) = {i \in DOMAIN s : SubSeq(s, 1, i) \in {one, two}}
  BY DEF Short
<1>6. /\ IsPrefix(one, s) <=> (1 <= Len(s) /\ one = SubSeq(s, 1, 1))
      /\ IsPrefix(two, s) <=> (2 <= Len(s) /\ two = SubSeq(s, 1, 2))
  <2>1. /\ IsPrefix(one, s) <=> (Len(one) <= Len(s) /\ SubSeq(one, 1, Len(one)) = SubSeq(s, 1, Len(one)))
        /\ IsPrefix(two, s) <=> (Len(two) <= Len(s) /\ SubSeq(two, 1, Len(two)) = SubSeq(s, 1, Len(two)))
    BY DEF IsPrefix
  <2> HIDE DEF one, two
  <2> QED
    BY <1>2, <1>4, <2>1
<1> HIDE DEF one, two
<1>7. /\ 1 \in Short(s) <=> (1 <= Len(s) /\ one = SubSeq(s, 1, 1))
      /\ 2 \in Short(s) <=> (2 <= Len(s) /\ two = SubSeq(s, 1, 2))
      /\ Short(s) \subseteq {1, 2}
  <2>1. \A i \in DOMAIN s : SubSeq(s, 1, i) = one => i = 1
    BY <1>2, <1>3
  <2>2. \A i \in DOMAIN s : SubSeq(s, 1, i) = two => i = 2
    BY <1>2, <1>3
  <2>3. 1 # 2 /\ (1 \in DOMAIN s <=> 1 <= Len(s)) /\ (2 \in DOMAIN s <=> 2 <= Len(s))
    BY <1>1
  <2> QED
    BY <1>5, <2>1, <2>2, <2>3
<1>8. ~(1 \in Short(s) /\ 2 \in Short(s))
  <2> SUFFICES ASSUME 1 \in Short(s), 2 \in Short(s) PROVE FALSE
    OBVIOUS
  <2>1. 2 <= Len(s) /\ one = SubSeq(s, 1, 1) /\ two = SubSeq(s, 1, 2)
    BY <1>7
  <2>2. SubSeq(s, 1, 1)[1] = s[1] /\ SubSeq(s, 1, 2)[1] = s[1]
    BY <1>1, <2>1 DEF Text
  <2>3. one[1] = two[1]
    BY <2>1, <2>2
  <2> QED
    BY <1>2, <2>3
<1> QED
  BY <1>6, <1>7, <1>8 DEF one, two

\* A trailer ends where the reference says.
LEMMA TrailerIs ==
  ASSUME NEW s \in Text
  PROVE  TrailerEnd(s) = IF TrailerEnds(s) = {} THEN 0 ELSE Min(TrailerEnds(s))
<1>1. DOMAIN s = 1..Len(s) /\ Len(s) \in Nat
  BY DEF Text
<1>2. TrailerEnds(s) = HeaderEnds(s) \cup Short(s)
  BY DEF TrailerEnds, Short
<1>3. HeaderEnds(s) \subseteq 1..Len(s) /\ 1 \notin HeaderEnds(s)
  BY <1>1 DEF HeaderEnds, EndsAt
<1>4. TrailerEnds(s) \subseteq Nat
  BY <1>2, <1>3, ShortIs
<1>5. CASE 2 \in Short(s)
  <2>1. TrailerEnd(s) = 2
    BY <1>5, ShortIs DEF TrailerEnd
  <2>2. 1 \notin TrailerEnds(s) /\ 2 \in TrailerEnds(s) /\ 0 \notin TrailerEnds(s)
    BY <1>2, <1>3, <1>5, ShortIs
  <2>3. Min(TrailerEnds(s)) \in TrailerEnds(s) /\ \A y \in TrailerEnds(s) : Min(TrailerEnds(s)) <= y
    BY <1>4, <2>2, Least
  <2> DEFINE m == Min(TrailerEnds(s))
  <2> HIDE DEF m
  <2>4. m \in TrailerEnds(s) /\ m \in Nat /\ m <= 2
    BY <1>4, <2>2, <2>3 DEF m
  <2>5. m = 2
    BY <2>2, <2>4
  <2> QED
    BY <2>1, <2>2, <2>5 DEF m
<1>6. CASE 1 \in Short(s)
  <2>1. TrailerEnd(s) = 1
    BY <1>6, ShortIs DEF TrailerEnd
  <2>2. 1 \in TrailerEnds(s) /\ 0 \notin TrailerEnds(s)
    BY <1>2, <1>3, <1>6, ShortIs
  <2>3. Min(TrailerEnds(s)) \in TrailerEnds(s) /\ \A y \in TrailerEnds(s) : Min(TrailerEnds(s)) <= y
    BY <1>4, <2>2, Least
  <2> DEFINE m == Min(TrailerEnds(s))
  <2> HIDE DEF m
  <2>4. m \in TrailerEnds(s) /\ m \in Nat /\ m <= 1
    BY <1>4, <2>2, <2>3 DEF m
  <2>5. m = 1
    BY <2>2, <2>4
  <2> QED
    BY <2>1, <2>2, <2>5 DEF m
<1>7. CASE 1 \notin Short(s) /\ 2 \notin Short(s)
  <2>1. TrailerEnd(s) = find_double_newline(s)
    BY <1>7, ShortIs DEF TrailerEnd
  <2>2. TrailerEnds(s) = HeaderEnds(s)
    BY <1>2, <1>7, ShortIs
  <2> QED
    BY <2>1, <2>2, DoubleIs
<1> QED
  BY <1>5, <1>6, <1>7

\* The first end in a text that has none up to l.
LEMMA Found ==
  ASSUME NEW l \in Nat, NEW n \in Nat, NEW A, A \subseteq 1..n, \A i \in A : ~(i <= l), A # {}
  PROVE  Min(A) \in Nat /\ l < Min(A) /\ Min(A) <= n
<1> DEFINE end == Min(A)
<1>1. end \in A
  <2>1. A \subseteq Nat
    OBVIOUS
  <2> QED
    BY <2>1, Least
<1> HIDE DEF end
<1>2. end \in 1..n /\ ~(end <= l)
  BY <1>1
<1> QED
  BY <1>2 DEF end

\* What a receiver finds in what it has, it would find with more behind it; and
\* it is in what came last when it was not there before.
LEMMA HeaderFound ==
  ASSUME NEW h \in Text, NEW d \in Text, HeaderEnds(h) = {}
  PROVE  LET s == h \o d
             end == find_double_newline(s)
         IN  /\ end = 0 => HeaderEnds(s) = {}
             /\ end # 0 => /\ end \in Nat /\ Len(h) < end /\ end <= Len(s)
                           /\ \A x \in Text : HeaderEnds(s \o x) # {} /\ Min(HeaderEnds(s \o x)) = end
<1> DEFINE s == h \o d
           end == find_double_newline(s)
<1>1. s \in Text /\ Len(s) \in Nat /\ Len(h) \in Nat
  BY Concat
<1>2. HeaderEnds(s) \subseteq 1..Len(s) /\ \A i \in HeaderEnds(s) : ~(i <= Len(h))
  BY <1>1, HeaderEndsStay, Concat
<1> HIDE DEF s
<1>3. end = IF HeaderEnds(s) = {} THEN 0 ELSE Min(HeaderEnds(s))
  BY <1>1, DoubleIs
<1>4. end = 0 => HeaderEnds(s) = {}
  <2>1. HeaderEnds(s) # {} => Min(HeaderEnds(s)) \in 1..Len(s)
    BY <1>1, <1>2, Least
  <2> QED
    BY <1>3, <2>1
<1>5. ASSUME NEW x \in Text
      PROVE  /\ HeaderEnds(s \o x) \subseteq Nat /\ HeaderEnds(s) \subseteq HeaderEnds(s \o x)
             /\ \A b \in HeaderEnds(s \o x) : b <= Len(s) => b \in HeaderEnds(s)
  BY <1>1, HeaderEndsStay
<1> HIDE DEF end
<1>6. end # 0 => /\ end \in Nat /\ Len(h) < end /\ end <= Len(s)
                 /\ \A x \in Text : HeaderEnds(s \o x) # {} /\ Min(HeaderEnds(s \o x)) = end
  <2> SUFFICES ASSUME end # 0
               PROVE  /\ end \in Nat /\ Len(h) < end /\ end <= Len(s)
                      /\ \A x \in Text : HeaderEnds(s \o x) # {} /\ Min(HeaderEnds(s \o x)) = end
    OBVIOUS
  <2>1. HeaderEnds(s) # {} /\ end = Min(HeaderEnds(s))
    BY <1>3
  <2>2. end \in Nat /\ Len(h) < end /\ end <= Len(s)
    BY <1>1, <1>2, <2>1, Found
  <2>3. ASSUME NEW x \in Text PROVE HeaderEnds(s \o x) # {} /\ Min(HeaderEnds(s \o x)) = end
    BY <1>1, <1>2, <1>5, <2>1, SameLeast
  <2> QED
    BY <2>2, <2>3
<1> QED
  BY <1>4, <1>6 DEF s, end

\* The same for a control line, ...
LEMMA LineFound ==
  ASSUME NEW h \in Text, NEW d \in Text, LineEnds(h) = {}
  PROVE  LET s == h \o d
             end == find(s, "n")
         IN  /\ end = 0 => LineEnds(s) = {}
             /\ end # 0 => /\ end \in Nat /\ Len(h) < end /\ end <= Len(s)
                           /\ \A x \in Text : LineEnds(s \o x) # {} /\ Min(LineEnds(s \o x)) = end
<1> DEFINE s == h \o d
           end == find(s, "n")
<1>1. s \in Text /\ Len(s) \in Nat /\ Len(h) \in Nat
  BY Concat
<1>2. LineEnds(s) \subseteq 1..Len(s) /\ \A i \in LineEnds(s) : ~(i <= Len(h))
  BY <1>1, LineEndsStay, Concat
<1> HIDE DEF s
<1>3. end = IF LineEnds(s) = {} THEN 0 ELSE Min(LineEnds(s))
  BY <1>1, FindIs
<1>4. end = 0 => LineEnds(s) = {}
  <2>1. LineEnds(s) # {} => Min(LineEnds(s)) \in 1..Len(s)
    BY <1>1, <1>2, Least
  <2> QED
    BY <1>3, <2>1
<1>5. ASSUME NEW x \in Text
      PROVE  /\ LineEnds(s \o x) \subseteq Nat /\ LineEnds(s) \subseteq LineEnds(s \o x)
             /\ \A b \in LineEnds(s \o x) : b <= Len(s) => b \in LineEnds(s)
  BY <1>1, LineEndsStay
<1> HIDE DEF end
<1>6. end # 0 => /\ end \in Nat /\ Len(h) < end /\ end <= Len(s)
                 /\ \A x \in Text : LineEnds(s \o x) # {} /\ Min(LineEnds(s \o x)) = end
  <2> SUFFICES ASSUME end # 0
               PROVE  /\ end \in Nat /\ Len(h) < end /\ end <= Len(s)
                      /\ \A x \in Text : LineEnds(s \o x) # {} /\ Min(LineEnds(s \o x)) = end
    OBVIOUS
  <2>1. LineEnds(s) # {} /\ end = Min(LineEnds(s))
    BY <1>3
  <2>2. end \in Nat /\ Len(h) < end /\ end <= Len(s)
    BY <1>1, <1>2, <2>1, Found
  <2>3. ASSUME NEW x \in Text PROVE LineEnds(s \o x) # {} /\ Min(LineEnds(s \o x)) = end
    BY <1>1, <1>2, <1>5, <2>1, SameLeast
  <2> QED
    BY <2>2, <2>3
<1> QED
  BY <1>4, <1>6 DEF s, end

\* ... and for a trailer.
LEMMA TrailerFound ==
  ASSUME NEW h \in Text, NEW d \in Text, TrailerEnds(h) = {}
  PROVE  LET s == h \o d
             end == TrailerEnd(s)
         IN  /\ end = 0 => TrailerEnds(s) = {}
             /\ end # 0 => /\ end \in Nat /\ Len(h) < end /\ end <= Len(s)
                           /\ \A x \in Text : TrailerEnds(s \o x) # {} /\ Min(TrailerEnds(s \o x)) = end
<1> DEFINE s == h \o d
           end == TrailerEnd(s)
<1>1. s \in Text /\ Len(s) \in Nat /\ Len(h) \in Nat
  BY Concat
<1>2. TrailerEnds(s) \subseteq 1..Len(s) /\ \A i \in TrailerEnds(s) : ~(i <= Len(h))
  BY <1>1, TrailerEndsStay, Concat
<1> HIDE DEF s
<1>3. end = IF TrailerEnds(s) = {} THEN 0 ELSE Min(TrailerEnds(s))
  BY <1>1, TrailerIs
<1>4. end = 0 => TrailerEnds(s) = {}
  <2>1. TrailerEnds(s) # {} => Min(TrailerEnds(s)) \in 1..Len(s)
    BY <1>1, <1>2, Least
  <2> QED
    BY <1>3, <2>1
<1>5. ASSUME NEW x \in Text
      PROVE  /\ TrailerEnds(s \o x) \subseteq Nat /\ TrailerEnds(s) \subseteq TrailerEnds(s \o x)
             /\ \A b \in TrailerEnds(s \o x) : b <= Len(s) => b \in TrailerEnds(s)
  BY <1>1, TrailerEndsStay
<1> HIDE DEF end
<1>6. end # 0 => /\ end \in Nat /\ Len(h) < end /\ end <= Len(s)
                 /\ \A x \in Text : TrailerEnds(s \o x) # {} /\ Min(TrailerEnds(s \o x)) = end
  <2> SUFFICES ASSUME end # 0
               PROVE  /\ end \in Nat /\ Len(h) < end /\ end <= Len(s)
                      /\ \A x \in Text : TrailerEnds(s \o x) # {} /\ Min(TrailerEnds(s \o x)) = end
    OBVIOUS
  <2>1. TrailerEnds(s) # {} /\ end = Min(TrailerEnds(s))
    BY <1>3
  <2>2. end \in Nat /\ Len(h) < end /\ end <= Len(s)
    BY <1>1, <1>2, <2>1, Found
  <2>3. ASSUME NEW x \in Text PROVE TrailerEnds(s \o x) # {} /\ Min(TrailerEnds(s \o x)) = end
    BY <1>1, <1>2, <1>5, <2>1, SameLeast
  <2> QED
    BY <2>2, <2>3
<1> QED
  BY <1>4, <1>6 DEF s, end

-----------------------------------------------------------------------------
(* Recursion.  The library states it for operators; here it is for the     *)
(* functions that descend in some measure.                                 *)

\* Induction, for a set of numbers.
LEMMA Induction ==
  ASSUME NEW S, 0 \in S, \A n \in Nat : n \in S => n + 1 \in S
  PROVE  Nat \subseteq S
<1> SUFFICES ASSUME Nat \ S # {} PROVE FALSE
  OBVIOUS
<1>1. PICK x \in Nat \ S : \A y \in Nat \ S : x <= y
  <2>1. Nat \ S \subseteq Nat
    OBVIOUS
  <2> QED
    BY <2>1, Least
<1>2. x # 0 /\ x - 1 \in Nat /\ ~(x <= x - 1) /\ (x - 1) + 1 = x
  BY <1>1
<1>3. x - 1 \in S
  BY <1>1, <1>2
<1> QED
  BY <1>1, <1>2, <1>3

\* What is inherited from all that is smaller holds of everything.
LEMMA Descent ==
  ASSUME NEW D, NEW len \in [D -> Nat], NEW T,
         \A s \in D : (\A t \in D : len[t] < len[s] => t \in T) => s \in T
  PROVE  D \subseteq T
<1> SUFFICES ASSUME NEW s0 \in D, s0 \notin T PROVE FALSE
  OBVIOUS
<1> DEFINE bad == {n \in Nat : \E s \in D : s \notin T /\ len[s] = n}
<1>1. bad # {} /\ bad \subseteq Nat
  OBVIOUS
<1>2. Min(bad) \in bad /\ \A n \in bad : Min(bad) <= n
  BY <1>1, Least
<1>3. PICK s \in D : s \notin T /\ len[s] = Min(bad)
  BY <1>2
<1>4. \A t \in D : t \notin T => len[t] \in bad
  OBVIOUS
<1> HIDE DEF bad
<1>5. \A t \in D : len[t] < len[s] => t \in T
  <2> SUFFICES ASSUME NEW t \in D, len[t] < len[s], t \notin T PROVE FALSE
    OBVIOUS
  <2>1. len[s] <= len[t]
    BY <1>2, <1>3, <1>4
  <2>2. len[s] \in Nat /\ len[t] \in Nat
    OBVIOUS
  <2> QED
    BY <2>1, <2>2
<1> QED
  BY <1>3, <1>5

\* A function that is as it should be where the measure is less than n.
Approximates(D, R, len, next, step, n, g) ==
  /\ g \in [D -> R]
  /\ \A s \in D : len[s] < n => g[s] = step[s][g[next[s]]]

\* step says the value from the value of next, which has a smaller measure
\* unless step does not depend on it.
Descends(D, R, len, next, step) ==
  /\ len \in [D -> Nat] /\ next \in [D -> D] /\ step \in [D -> [R -> R]]
  /\ \A s \in D : len[next[s]] < len[s] \/ \A a, b \in R : step[s][a] = step[s][b]

\* Two approximations agree where both are defined.
LEMMA SameApproximation ==
  ASSUME NEW D, NEW R, NEW len, NEW next, NEW step, Descends(D, R, len, next, step),
         NEW m \in Nat, NEW n \in Nat, NEW g, NEW h,
         Approximates(D, R, len, next, step, m, g), Approximates(D, R, len, next, step, n, h)
  PROVE  \A s \in D : len[s] < m /\ len[s] < n => g[s] = h[s]
<1> USE DEF Descends, Approximates
<1> DEFINE T == {s \in D : len[s] < m /\ len[s] < n => g[s] = h[s]}
<1>1. ASSUME NEW s \in D, \A t \in D : len[t] < len[s] => t \in T
      PROVE  s \in T
  <2> SUFFICES ASSUME len[s] < m, len[s] < n PROVE g[s] = h[s]
    OBVIOUS
  <2>1. g[s] = step[s][g[next[s]]] /\ h[s] = step[s][h[next[s]]]
    OBVIOUS
  <2>2. next[s] \in D /\ g[next[s]] \in R /\ h[next[s]] \in R
    OBVIOUS
  <2>3. CASE len[next[s]] < len[s]
    <3>1. next[s] \in T
      BY <1>1, <2>2, <2>3
    <3>2. len[s] \in Nat /\ len[next[s]] \in Nat
      BY <2>2
    <3>3. len[next[s]] < m /\ len[next[s]] < n
      BY <2>3, <3>2
    <3>4. g[next[s]] = h[next[s]]
      BY <3>1, <3>3
    <3> QED
      BY <2>1, <3>4
  <2>4. CASE \A a, b \in R : step[s][a] = step[s][b]
    BY <2>1, <2>2, <2>4
  <2> QED
    BY <2>3, <2>4
<1>2. len \in [D -> Nat]
  OBVIOUS
<1> HIDE DEF T
<1>3. D \subseteq T
  BY <1>1, <1>2, Descent
<1> QED
  BY <1>3 DEF T

\* There are approximations for every measure.
LEMMA Approximation ==
  ASSUME NEW D, NEW R, R # {}, NEW len, NEW next, NEW step, Descends(D, R, len, next, step)
  PROVE  \A n \in Nat : \E g : Approximates(D, R, len, next, step, n, g)
<1> DEFINE Good == {n \in Nat : \E g : Approximates(D, R, len, next, step, n, g)}
<1>1. 0 \in Good
  <2> DEFINE g == [s \in D |-> CHOOSE r \in R : TRUE]
  <2>1. g \in [D -> R]
    OBVIOUS
  <2>2. \A s \in D : ~(len[s] < 0)
    BY DEF Descends
  <2> HIDE DEF g
  <2>3. Approximates(D, R, len, next, step, 0, g)
    BY <2>1, <2>2 DEF Approximates
  <2> QED
    BY <2>3
<1>2. ASSUME NEW n \in Nat, n \in Good PROVE n + 1 \in Good
  <2>1. PICK g : Approximates(D, R, len, next, step, n, g)
    BY <1>2
  <2> DEFINE h == [s \in D |-> step[s][g[next[s]]]]
  <2>2. \A s \in D : next[s] \in D /\ g[s] \in R /\ g[next[s]] \in R /\ step[s] \in [R -> R] /\ len[s] \in Nat
    BY <2>1 DEF Descends, Approximates
  <2>3. h \in [D -> R] /\ \A s \in D : h[s] = step[s][g[next[s]]]
    BY <2>2
  <2> HIDE DEF h
  <2>4. ASSUME NEW s \in D, len[s] < n + 1 PROVE h[s] = step[s][h[next[s]]]
    <3>1. CASE len[next[s]] < len[s]
      <4>1. len[next[s]] < n
        BY <2>2, <2>4, <3>1
      <4>2. g[next[s]] = h[next[s]]
        BY <2>1, <2>2, <2>3, <4>1 DEF Approximates
      <4> QED
        BY <2>3, <4>2
    <3>2. CASE \A a, b \in R : step[s][a] = step[s][b]
      BY <2>2, <2>3, <3>2
    <3> QED
      BY <3>1, <3>2 DEF Descends
  <2>5. Approximates(D, R, len, next, step, n + 1, h)
    BY <2>3, <2>4 DEF Approximates
  <2> QED
    BY <2>5
<1> HIDE DEF Good
<1>3. Nat \subseteq Good
  BY <1>1, <1>2, Induction
<1> QED
  BY <1>3 DEF Good

\* There is a function of which the recursive equation is true.
LEMMA Recursion ==
  ASSUME NEW D, NEW R, R # {}, NEW len, NEW next, NEW step, Descends(D, R, len, next, step)
  PROVE  \E f \in [D -> R] : \A s \in D : f[s] = step[s][f[next[s]]]
<1> DEFINE G == [n \in Nat |-> CHOOSE g : Approximates(D, R, len, next, step, n, g)]
           f == [s \in D |-> G[len[s] + 1][s]]
<1>1. \A n \in Nat : Approximates(D, R, len, next, step, n, G[n])
  BY Approximation
<1> HIDE DEF G
<1>2. \A s \in D : /\ len[s] \in Nat /\ len[s] + 1 \in Nat /\ len[s] < len[s] + 1 /\ next[s] \in D
                   /\ step[s] \in [R -> R]
  BY DEF Descends
<1>3. \A s \in D : G[len[s] + 1] \in [D -> R] /\ G[len[s] + 1][s] = step[s][G[len[s] + 1][next[s]]]
  BY <1>1, <1>2 DEF Approximates
<1>4. f \in [D -> R] /\ \A s \in D : f[s] = G[len[s] + 1][s]
  BY <1>3
<1> HIDE DEF f
<1>5. ASSUME NEW s \in D PROVE f[s] = step[s][f[next[s]]]
  <2> DEFINE g == G[len[s] + 1]
             h == G[len[next[s]] + 1]
             t == next[s]
  <2>1. /\ t \in D /\ g[t] \in R /\ h[t] \in R /\ f[s] = step[s][g[t]] /\ f[t] = h[t]
    BY <1>2, <1>3, <1>4
  <2>2. CASE len[t] < len[s]
    <3>1. len[t] < len[s] + 1 /\ len[t] < len[t] + 1 /\ len[t] + 1 \in Nat /\ len[s] + 1 \in Nat
      BY <1>2, <2>1, <2>2
    <3>2. Approximates(D, R, len, next, step, len[s] + 1, g) /\ Approximates(D, R, len, next, step, len[t] + 1, h)
      BY <1>1, <3>1
    <3> HIDE DEF g, h
    <3>3. g[t] = h[t]
      BY <2>1, <3>1, <3>2, SameApproximation
    <3> QED
      BY <2>1, <3>3
  <2>3. CASE \A a, b \in R : step[s][a] = step[s][b]
    BY <2>1, <2>3
  <2> QED
    BY <2>2, <2>3 DEF Descends
<1> QED
  BY <1>4, <1>5

-----------------------------------------------------------------------------
(* What the helpers on strings return.                                     *)

\* A bounded set of numbers has a greatest element, which Max() is.
LEMMA Greatest ==
  ASSUME NEW n \in Nat, NEW s, s \subseteq 1..n, s # {}
  PROVE  Max(s) \in s /\ \A y \in s : y <= Max(s)
<1> DEFINE B == {k \in Nat : \A y \in s : y <= k}
<1>1. n \in B /\ B \subseteq Nat
  OBVIOUS
<1> DEFINE k == Min(B)
<1>2. k \in B /\ \A j \in B : k <= j
  BY <1>1, Least
<1> HIDE DEF k
<1>3. k \in s
  <2> SUFFICES ASSUME k \notin s PROVE FALSE
    OBVIOUS
  <2>1. PICK y \in s : TRUE
    OBVIOUS
  <2>2. y \in Nat \ {0} /\ y <= k /\ k \in Nat
    BY <1>2
  <2>3. k - 1 \in Nat /\ ~(k <= k - 1)
    BY <2>2
  <2>4. \A z \in s : z <= k - 1
    BY <1>2, <2>2
  <2> QED
    BY <1>2, <2>3, <2>4
<1>4. \E x \in s : \A y \in s : x >= y
  BY <1>2, <1>3
<1>5. Max(s) \in s /\ \A y \in s : Max(s) >= y
  BY <1>4 DEF Max
<1>6. Max(s) \in Nat /\ \A y \in s : y \in Nat
  <2>1. \A y \in s : y \in Nat
    OBVIOUS
  <2> QED
    BY <1>5, <2>1
<1> QED
  BY <1>5, <1>6

\* lstrip() returns a part of a text, ...
LEMMA LstripType == ASSUME NEW s \in Text PROVE lstrip(s) \in Text
<1> DEFINE I == {i \in 1..Len(s) : Black(s[i])}
<1>1. DOMAIN s = 1..Len(s) /\ Len(s) \in Nat
  BY DEF Text
<1>2. CASE I # {}
  <2>1. SelectInSeq(s, Black) = Min(I)
    BY <1>2 DEF SelectInSeq
  <2>2. Min(I) \in 1..Len(s)
    <3>1. I \subseteq Nat
      BY <1>1
    <3> QED
      BY <1>2, <3>1, Least
  <2>3. lstrip(s) = From(s, Min(I))
    BY <1>1, <1>2, <2>1 DEF lstrip
  <2> DEFINE k == Min(I) - 1
  <2>4. k \in Nat /\ k <= Len(s) /\ Min(I) = k + 1
    BY <1>1, <2>2
  <2> HIDE DEF k, I
  <2> QED
    BY <2>3, <2>4, FromIs
<1>3. CASE I = {}
  BY <1>1, <1>3, ConcatNothing DEF lstrip
<1> QED
  BY <1>2, <1>3

\* ... so does strip(), ...
LEMMA StripType == ASSUME NEW s \in Text PROVE strip(s) \in Text
<1> DEFINE t == lstrip(s)
           I == {i \in 1..Len(t) : Black(t[i])}
           k == SelectLastInSeq(t, Black)
<1>1. t \in Text
  BY LstripType
<1>2. Len(t) \in Nat
  BY <1>1 DEF Text
<1> HIDE DEF t
<1>3. k \in 0..Len(t)
  <2>1. k = IF I # {} THEN Max(I) ELSE 0
    BY DEF SelectLastInSeq
  <2>2. I # {} => Max(I) \in 1..Len(t)
    BY <1>2, Greatest
  <2> HIDE DEF I, k
  <2> QED
    BY <1>2, <2>1, <2>2
<1> HIDE DEF k
<1>4. SubSeq(t, 1, k) \in Text
  BY <1>1, <1>2, <1>3, FirstConcat, ConcatNothing
<1> QED
  BY <1>4 DEF strip, t, k

\* ... and so does what is read of a control line.
LEMMA SizeType == ASSUME NEW s \in Text PROVE Size(s) \in Text
<1> DEFINE semi == find(s, ";")
           I == {i \in 1..Len(s) : s[i] = ";"}
<1>1. Len(s) \in Nat
  BY DEF Text
<1>2. semi \in 0..Len(s)
  <2>1. semi = IF I # {} THEN Min(I) ELSE 0
    BY DEF find, SelectInSeq
  <2>2. I \subseteq 1..Len(s)
    BY Zenon
  <2> HIDE DEF I
  <2>3. I # {} => Min(I) \in 1..Len(s)
    <3>1. I \subseteq Nat
      BY <1>1, <2>2
    <3> QED
      BY <2>2, <3>1, Least
  <2> HIDE DEF I, semi
  <2> QED
    BY <1>1, <2>1, <2>3
<1> DEFINE line == IF semi > 0 THEN SubSeq(s, 1, semi - 1) ELSE s
<1> HIDE DEF semi
<1>3. line \in Text
  <2>1. semi > 0 => semi - 1 \in Nat /\ semi - 1 <= Len(s)
    BY <1>1, <1>2
  <2>2. semi > 0 => SubSeq(s, 1, semi - 1) \in Text
    BY <2>1, FirstConcat, ConcatNothing
  <2> QED
    BY <2>2
<1> HIDE DEF line
<1>4. strip(line) \in Text
  BY <1>3, StripType
<1> QED
  BY <1>4 DEF Size, line, semi

\* A content length is a number.
LEMMA LengthType == \A h : ContentLength(h) \in Nat
<1>1. \A w \in {"CL0", "CL1", "CL3"} : Length[w] \in Nat
  BY DEF Length
<1>2. DOMAIN Length = {"CL0", "CL1", "CL3"}
  BY DEF Length
<1>3. \A f : (IF f \in DOMAIN Length THEN Length[f] ELSE 0) \in Nat
  <2> HIDE DEF Length
  <2> QED
    BY <1>1, <1>2
<1> QED
  BY <1>3 DEF ContentLength

\* The function that FoldLeft takes the value of.
Folding(digits, S, f) ==
  f = [s \in SUBSET S |-> IF s = {} THEN 0 ELSE 16 * f[s \ {Max(s)}] + Digit[digits[Max(s)]]]

\* So is a digit, ...
LEMMA DigitType == \A d \in DOMAIN Digit : Digit[d] \in Nat
  BY DEF Digit

\* ... there is a function that folds digits, ...
LEMMA FoldExists ==
  ASSUME NEW m \in Nat, NEW digits, \A i \in 1..m : Digit[digits[i]] \in Nat
  PROVE  \E f \in [SUBSET (1..m) -> Nat] : Folding(digits, 1..m, f)
<1> DEFINE D == SUBSET (1..m)
           top == [s \in D |-> IF s = {} THEN 0 ELSE Max(s)]
           less == [s \in D |-> IF s = {} THEN {} ELSE s \ {Max(s)}]
           step == [s \in D |-> [n \in Nat |-> IF s = {} THEN 0 ELSE 16 * n + Digit[digits[Max(s)]]]]
<1>1. ASSUME NEW s \in D, s # {} PROVE Max(s) \in s /\ Max(s) \in 1..m /\ \A y \in s : y <= Max(s)
  BY <1>1, Greatest
<1>2. top \in [D -> Nat] /\ less \in [D -> D]
  <2>1. ASSUME NEW s \in D PROVE (IF s = {} THEN 0 ELSE Max(s)) \in Nat
    <3>1. s # {} => Max(s) \in 1..m
      BY <1>1
    <3> QED
      BY <3>1
  <2>2. ASSUME NEW s \in D PROVE (IF s = {} THEN {} ELSE s \ {Max(s)}) \in D
    OBVIOUS
  <2> QED
    BY <2>1, <2>2
<1>3. step \in [D -> [Nat -> Nat]]
  <2> SUFFICES ASSUME NEW s \in D, NEW n \in Nat, s # {}
               PROVE  16 * n + Digit[digits[Max(s)]] \in Nat
    OBVIOUS
  <2>1. Digit[digits[Max(s)]] \in Nat
    BY <1>1
  <2> QED
    BY <2>1
<1>4. ASSUME NEW s \in D
      PROVE  top[less[s]] < top[s] \/ \A a, b \in Nat : step[s][a] = step[s][b]
  <2>1. CASE s = {}
    BY <2>1
  <2>2. CASE s # {}
    <3> DEFINE t == s \ {Max(s)}
    <3>1. less[s] = t /\ t \in D /\ top[s] = Max(s)
      BY <2>2
    <3>2. CASE t = {}
      <4>1. top[t] = 0
        BY <3>2
      <4> QED
        BY <1>1, <2>2, <3>1, <4>1
    <3>3. CASE t # {}
      <4>1. Max(t) \in t /\ top[t] = Max(t)
        BY <1>1, <3>1, <3>3
      <4>2. Max(t) \in s /\ Max(t) # Max(s) /\ Max(t) <= Max(s) /\ Max(t) \in Nat /\ Max(s) \in Nat
        BY <1>1, <2>2, <4>1
      <4> HIDE DEF t
      <4>3. Max(t) < Max(s)
        BY <4>2
      <4> QED
        BY <3>1, <4>1, <4>3
    <3> QED
      BY <3>2, <3>3
  <2> QED
    BY <2>1, <2>2
<1>5. \A s \in D : \A n \in Nat :
         /\ step[s][n] = IF s = {} THEN 0 ELSE 16 * n + Digit[digits[Max(s)]]
         /\ s # {} => less[s] = s \ {Max(s)}
         /\ less[s] \in D
  BY <1>2
<1> HIDE DEF top, less, step
<1>6. Descends(D, Nat, top, less, step)
  BY <1>2, <1>3, <1>4 DEF Descends
<1>7. PICK f \in [D -> Nat] : \A s \in D : f[s] = step[s][f[less[s]]]
  <2> HIDE DEF D
  <2> QED
    BY <1>6, Recursion
<1>8. \A s \in D : f[s] = IF s = {} THEN 0 ELSE 16 * f[s \ {Max(s)}] + Digit[digits[Max(s)]]
  <2> SUFFICES ASSUME NEW s \in D
               PROVE  f[s] = IF s = {} THEN 0 ELSE 16 * f[s \ {Max(s)}] + Digit[digits[Max(s)]]
    OBVIOUS
  <2>1. f[s] = step[s][f[less[s]]] /\ f[less[s]] \in Nat
    BY <1>5, <1>7
  <2>2. step[s][f[less[s]]] = IF s = {} THEN 0 ELSE 16 * f[less[s]] + Digit[digits[Max(s)]]
    BY <1>5, <2>1
  <2> QED
    BY <1>5, <2>1, <2>2
<1> QED
  BY <1>7, <1>8 DEF Folding

\* ... and so is what they make.
LEMMA HexType == ASSUME NEW digits \in Text, IsHex(digits) PROVE Hex(digits) \in Nat
<1> DEFINE m == Len(digits)
           D == SUBSET (1..m)
           f == CHOOSE f : Folding(digits, 1..m, f)
<1>1. DOMAIN digits = 1..m /\ m \in Nat
  BY DEF Text
<1>2. Hex(digits) = (CHOOSE g : Folding(digits, DOMAIN digits, g))[DOMAIN digits]
  BY DEF Hex, FoldLeft, MapThenFoldSet, Folding
<1>3. \A i \in 1..m : Digit[digits[i]] \in Nat
  BY <1>1, DigitType DEF IsHex, Range
<1> HIDE DEF m
<1>4. Folding(digits, 1..m, f)
  <2>1. \E g : Folding(digits, 1..m, g)
    BY <1>1, <1>3, FoldExists
  <2> QED
    BY <2>1
<1> HIDE DEF f
<1>5. \A s \in D : f[s] = IF s = {} THEN 0 ELSE 16 * f[s \ {Max(s)}] + Digit[digits[Max(s)]]
  BY <1>4 DEF Folding
<1>6. \A s \in D : s # {} => Max(s) \in s /\ Max(s) \in 1..m /\ \A y \in s : y <= Max(s)
  BY <1>1, Greatest
<1> DEFINE top == [s \in D |-> IF s = {} THEN 0 ELSE Max(s)]
           T == {s \in D : f[s] \in Nat}
<1>7. top \in [D -> Nat]
  BY <1>6
<1>8. ASSUME NEW s \in D, \A t \in D : top[t] < top[s] => t \in T
      PROVE  s \in T
  <2>1. CASE s = {}
    <3>1. f[s] = 0
      BY <1>5, <2>1
    <3> QED
      BY <3>1
  <2>2. CASE s # {}
    <3> DEFINE t == s \ {Max(s)}
    <3>1. t \in D /\ top[s] = Max(s) /\ Max(s) \in 1..m
      BY <1>6, <2>2
    <3>2. top[t] < top[s]
      <4>1. CASE t = {}
        <5>1. top[t] = 0
          BY <4>1
        <5> QED
          BY <1>1, <3>1, <5>1
      <4>2. CASE t # {}
        <5>1. Max(t) \in t /\ top[t] = Max(t)
          BY <1>6, <3>1, <4>2
        <5>2. Max(t) \in s /\ Max(t) # Max(s) /\ Max(t) <= Max(s) /\ Max(t) \in Nat /\ Max(s) \in Nat
          BY <1>6, <2>2, <5>1
        <5> HIDE DEF t
        <5>3. Max(t) < Max(s)
          BY <5>2
        <5> QED
          BY <3>1, <5>1, <5>3
      <4> QED
        BY <4>1, <4>2
    <3>3. f[t] \in Nat
      BY <1>8, <3>1, <3>2
    <3>4. Digit[digits[Max(s)]] \in Nat
      BY <1>3, <3>1
    <3>5. f[s] = 16 * f[t] + Digit[digits[Max(s)]]
      BY <1>5, <2>2
    <3>6. f[s] \in Nat
      BY <3>3, <3>4, <3>5
    <3> QED
      BY <3>6
  <2> QED
    BY <2>1, <2>2
<1>9. D \subseteq T
  <2> HIDE DEF T, D, top
  <2> QED
    BY <1>7, <1>8, Descent
<1>10. f[1..m] \in Nat
  BY <1>9
<1> QED
  BY <1>1, <1>2, <1>10 DEF f

-----------------------------------------------------------------------------
(* What the reference reads.                                               *)

Bodies == [state : {"partial", "bad", "whole"}, body : Text, rest : Text]
Handled == [header : Text, body : Text]
Outcomes == [requests : Seq(Handled), failed : BOOLEAN]

\* The bodies that the reference reads, and their parts.
LEMMA BodyTypes ==
  /\ Partial \in Bodies /\ Partial.state = "partial" /\ Len(Partial.rest) = 0
  /\ Bad \in Bodies /\ Bad.state = "bad" /\ Len(Bad.rest) = 0
  /\ \A b, r \in Text : /\ Whole(b, r) \in Bodies /\ Whole(b, r).state = "whole"
                        /\ Whole(b, r).body = b /\ Whole(b, r).rest = r
  /\ \A d \in Text, b \in Bodies : /\ With(d, b) \in Bodies /\ With(d, b).state = b.state
                                   /\ With(d, b).body = d \o b.body /\ With(d, b).rest = b.rest
<1>1. <<>> \in Text /\ Len(<<>>) = 0
  BY DEF Text
<1>2. \A d, e \in Text : d \o e \in Text
  BY Concat
<1> QED
  BY <1>1, <1>2 DEF Bodies, Partial, Bad, Whole, With

\* What is in front of a body, twice.
LEMMA WithWith ==
  ASSUME NEW d \in Text, NEW e \in Text, NEW b \in Bodies
  PROVE  With(d, With(e, b)) = With(d \o e, b)
<1>1. b.body \in Text
  BY DEF Bodies
<1>2. d \o (e \o b.body) = (d \o e) \o b.body
  BY <1>1, ConcatAssociates
<1> QED
  BY <1>2 DEF With, Bodies

\* What the reference says of a stream.
LEMMA OutcomeTypes ==
  /\ Nothing \in Outcomes /\ Failure \in Outcomes
  /\ \A rs \in Seq(Handled), o \in Outcomes : Then(rs, o) \in Outcomes
<1>1. Outcomes = [requests : Seq(Handled), failed : BOOLEAN]
  BY DEF Outcomes
<1>2. <<>> \in Seq(Handled) /\ \A r, q \in Seq(Handled) : r \o q \in Seq(Handled)
  OBVIOUS
<1>3. \A rs \in Seq(Handled), o \in Outcomes : Then(rs, o) \in Outcomes
  BY <1>1, <1>2 DEF Then
<1>4. Nothing \in Outcomes /\ Failure \in Outcomes
  BY <1>1, <1>2 DEF Nothing, Failure
<1> QED
  BY <1>3, <1>4

\* What is said of a stream is said after the requests before it.
LEMMA ThenThen ==
  ASSUME NEW r \in Seq(Handled), NEW q \in Seq(Handled), NEW o \in Outcomes
  PROVE  Then(r, Then(q, o)) = Then(r \o q, o)
<1> DEFINE p == o.requests
<1>1. p \in Seq(Handled)
  BY DEF Outcomes
<1> HIDE DEF p, Handled
<1>2. r \o (q \o p) = (r \o q) \o p
  BY <1>1
<1> QED
  BY <1>2 DEF Then, p

\* The control line at the beginning of a stream.
LEMMA LineParts ==
  ASSUME NEW s \in Text, LineEnds(s) # {}
  PROVE  /\ LineOf(s) \in Text /\ AfterLine(s) \in Text /\ Len(AfterLine(s)) < Len(s)
         /\ Len(AfterLine(s)) \in Nat /\ Len(s) \in Nat
         /\ IsHex(Size(LineOf(s))) => Hex(Size(LineOf(s))) \in Nat
<1>1. LineEnds(s) \subseteq 1..Len(s) /\ Len(s) \in Nat
  BY DEF LineEnds, Text
<1>2. Min(LineEnds(s)) \in 1..Len(s)
  <2>1. LineEnds(s) \subseteq Nat
    BY <1>1
  <2> QED
    BY <1>1, <2>1, Least
<1> DEFINE m == Min(LineEnds(s))
<1>3. m \in Nat /\ 1 <= m /\ m <= Len(s)
  BY <1>1, <1>2
<1> HIDE DEF m
<1>4. From(s, m + 1) \in Text /\ Len(From(s, m + 1)) = Len(s) - m
  BY <1>3, FromIs
<1>5. AfterLine(s) \in Text /\ Len(AfterLine(s)) = Len(s) - m
  BY <1>4 DEF AfterLine, m
<1>6. LineOf(s) \in Text
  <2>1. m - 1 \in Nat /\ m - 1 <= Len(s)
    BY <1>1, <1>3
  <2>2. SubSeq(s, 1, m - 1) \in Text
    BY <2>1, FirstConcat, ConcatNothing
  <2> QED
    BY <2>2, StripType DEF LineOf, m
<1>7. IsHex(Size(LineOf(s))) => Hex(Size(LineOf(s))) \in Nat
  BY <1>6, SizeType, HexType
<1> QED
  BY <1>1, <1>3, <1>5, <1>6, <1>7

\* Behind the last chunk.
LEMMA LastOfType == ASSUME NEW s \in Text PROVE LastOf(s) \in Bodies /\ Len(LastOf(s).rest) <= Len(s)
<1>1. CASE TrailerEnds(s) = {}
  <2>1. Len(s) \in Nat
    BY DEF Text
  <2> QED
    BY <1>1, <2>1, BodyTypes DEF LastOf
<1>2. CASE TrailerEnds(s) # {}
  <2>1. TrailerEnds(s) \subseteq 1..Len(s) /\ Len(s) \in Nat
    BY TrailerEndsStay, ConcatNothing DEF Text
  <2>2. Min(TrailerEnds(s)) \in 1..Len(s)
    <3>1. TrailerEnds(s) \subseteq Nat
      BY <2>1
    <3> QED
      BY <1>2, <2>1, <3>1, Least
  <2> DEFINE m == Min(TrailerEnds(s))
  <2>3. m \in Nat /\ m <= Len(s)
    BY <2>1, <2>2
  <2> HIDE DEF m
  <2>4. From(s, m + 1) \in Text /\ Len(From(s, m + 1)) = Len(s) - m
    BY <2>3, FromIs
  <2>5. LastOf(s) = Whole(<<>>, From(s, m + 1))
    BY <1>2 DEF LastOf, m
  <2>6. LastOf(s) \in Bodies /\ LastOf(s).rest = From(s, m + 1)
    BY <2>4, <2>5, BodyTypes, ConcatNothing
  <2> QED
    BY <2>1, <2>3, <2>4, <2>6
<1> QED
  BY <1>1, <1>2

\* ChunkedBodyOf, in parts: where it goes on, and what it makes of that.
Sized(s) == LineEnds(s) # {} /\ LineOf(s) # <<>> /\ IsHex(Size(LineOf(s)))
InText(s) == Hex(Size(LineOf(s))) # 0 /\ ~(Len(AfterLine(s)) < Hex(Size(LineOf(s))))
ChunkNext(s) == IF LineEnds(s) # {} /\ LineOf(s) = <<>> THEN AfterLine(s)
                ELSE IF Sized(s) /\ InText(s) THEN From(AfterLine(s), Hex(Size(LineOf(s))) + 1)
                ELSE s
ChunkStep(s, b) ==
  IF LineEnds(s) = {} THEN Partial
  ELSE IF LineOf(s) = <<>> THEN b
  ELSE IF ~IsHex(Size(LineOf(s))) THEN Bad
  ELSE IF Hex(Size(LineOf(s))) = 0 THEN LastOf(AfterLine(s))
  ELSE IF Len(AfterLine(s)) < Hex(Size(LineOf(s))) THEN Partial
  ELSE With(SubSeq(AfterLine(s), 1, Hex(Size(LineOf(s)))), b)

\* Where it goes on is shorter, or does not matter.
LEMMA ChunkNextIs ==
  ASSUME NEW s \in Text
  PROVE  /\ ChunkNext(s) \in Text /\ Len(ChunkNext(s)) <= Len(s)
         /\ Len(ChunkNext(s)) < Len(s) \/ \A a, b : ChunkStep(s, a) = ChunkStep(s, b)
<1>0. Len(s) \in Nat
  BY DEF Text
<1>1. CASE LineEnds(s) # {} /\ LineOf(s) = <<>>
  BY <1>0, <1>1, LineParts DEF ChunkNext
<1>2. CASE Sized(s) /\ InText(s)
  <2> DEFINE n == Hex(Size(LineOf(s)))
             t == AfterLine(s)
  <2>1. n \in Nat /\ t \in Text /\ Len(t) < Len(s) /\ Len(t) \in Nat
    BY <1>2, LineParts DEF Sized
  <2>2. n <= Len(t) /\ ChunkNext(s) = From(t, n + 1)
    BY <1>2, <2>1 DEF Sized, InText, ChunkNext
  <2> HIDE DEF n, t
  <2>3. From(t, n + 1) \in Text /\ Len(From(t, n + 1)) = Len(t) - n
    BY <2>1, <2>2, FromIs
  <2> QED
    BY <1>0, <2>1, <2>2, <2>3
<1>3. CASE ~(LineEnds(s) # {} /\ LineOf(s) = <<>>) /\ ~(Sized(s) /\ InText(s))
  <2>1. ChunkNext(s) = s
    BY <1>3 DEF ChunkNext
  <2>2. \A a, b : ChunkStep(s, a) = ChunkStep(s, b)
    BY <1>3 DEF ChunkStep, Sized, InText
  <2> QED
    BY <1>0, <2>1, <2>2
<1> QED
  BY <1>1, <1>2, <1>3

\* What it makes of that is a body, ...
LEMMA ChunkStepType ==
  ASSUME NEW s \in Text, NEW b \in Bodies
  PROVE  ChunkStep(s, b) \in Bodies
<1>1. CASE LineEnds(s) = {} \/ LineOf(s) = <<>> \/ ~IsHex(Size(LineOf(s)))
  BY <1>1, BodyTypes DEF ChunkStep
<1>2. CASE Sized(s)
  <2> DEFINE n == Hex(Size(LineOf(s)))
             t == AfterLine(s)
  <2>1. n \in Nat /\ t \in Text /\ Len(t) \in Nat
    BY <1>2, LineParts DEF Sized
  <2>2. ChunkStep(s, b) = IF n = 0 THEN LastOf(t) ELSE IF Len(t) < n THEN Partial ELSE With(SubSeq(t, 1, n), b)
    BY <1>2 DEF Sized, ChunkStep
  <2> HIDE DEF n, t
  <2>3. ~(Len(t) < n) => SubSeq(t, 1, n) \in Text
    BY <2>1, FirstConcat, ConcatNothing
  <2> QED
    BY <2>1, <2>2, <2>3, LastOfType, BodyTypes
<1> QED
  BY <1>1, <1>2 DEF Sized

\* ... with no more behind it than there is.
LEMMA ChunkStepRest ==
  ASSUME NEW s \in Text, NEW b \in Bodies, Len(b.rest) <= Len(ChunkNext(s))
  PROVE  Len(ChunkStep(s, b).rest) <= Len(s)
<1>0. Len(s) \in Nat /\ Len(b.rest) \in Nat /\ ChunkNext(s) \in Text /\ Len(ChunkNext(s)) <= Len(s)
  BY ChunkNextIs DEF Text, Bodies
<1>1. Len(b.rest) <= Len(s)
  <2>1. Len(ChunkNext(s)) \in Nat
    BY <1>0 DEF Text
  <2> QED
    BY <1>0, <2>1
<1>2. CASE LineEnds(s) = {} \/ LineOf(s) = <<>> \/ ~IsHex(Size(LineOf(s)))
  BY <1>0, <1>1, <1>2, BodyTypes DEF ChunkStep
<1>3. CASE Sized(s)
  <2> DEFINE n == Hex(Size(LineOf(s)))
             t == AfterLine(s)
  <2>1. n \in Nat /\ t \in Text /\ Len(t) \in Nat /\ Len(t) < Len(s)
    BY <1>3, LineParts DEF Sized
  <2>2. ChunkStep(s, b) = IF n = 0 THEN LastOf(t) ELSE IF Len(t) < n THEN Partial ELSE With(SubSeq(t, 1, n), b)
    BY <1>3 DEF Sized, ChunkStep
  <2> HIDE DEF n, t
  <2>3. ~(Len(t) < n) => SubSeq(t, 1, n) \in Text
    BY <2>1, FirstConcat, ConcatNothing
  <2>4. LastOf(t) \in Bodies /\ Len(LastOf(t).rest) <= Len(t)
    BY <2>1, LastOfType
  <2>5. Len(LastOf(t).rest) \in Nat
    BY <2>4 DEF Bodies, Text
  <2>6. Len(LastOf(t).rest) <= Len(s)
    BY <1>0, <2>1, <2>4, <2>5
  <2> QED
    BY <1>0, <1>1, <2>2, <2>3, <2>6, BodyTypes
<1> QED
  BY <1>2, <1>3 DEF Sized

\* The definition of ChunkedBodyOf.
ReadsChunks(f) ==
  f = [s \in Seq(Symbols) |->
         LET size == Hex(Size(LineOf(s)))
         IN  IF LineEnds(s) = {} THEN Partial
             ELSE IF LineOf(s) = <<>> THEN f[AfterLine(s)]
             ELSE IF ~IsHex(Size(LineOf(s))) THEN Bad
             ELSE IF size = 0 THEN LastOf(AfterLine(s))
             ELSE IF Len(AfterLine(s)) < size THEN Partial
             ELSE With(SubSeq(AfterLine(s), 1, size), f[From(AfterLine(s), size + 1)])]

\* The definition in parts is the same.
LEMMA ChunksRead == \A f : ReadsChunks(f) <=> f = [s \in Text |-> ChunkStep(s, f[ChunkNext(s)])]
<1> SUFFICES ASSUME NEW f PROVE ReadsChunks(f) <=> f = [s \in Text |-> ChunkStep(s, f[ChunkNext(s)])]
  OBVIOUS
<1>1. ASSUME NEW s \in Text
      PROVE  ChunkStep(s, f[ChunkNext(s)]) =
               IF LineEnds(s) = {} THEN Partial
               ELSE IF LineOf(s) = <<>> THEN f[AfterLine(s)]
               ELSE IF ~IsHex(Size(LineOf(s))) THEN Bad
               ELSE IF Hex(Size(LineOf(s))) = 0 THEN LastOf(AfterLine(s))
               ELSE IF Len(AfterLine(s)) < Hex(Size(LineOf(s))) THEN Partial
               ELSE With(SubSeq(AfterLine(s), 1, Hex(Size(LineOf(s)))),
                         f[From(AfterLine(s), Hex(Size(LineOf(s))) + 1)])
  BY DEF ChunkStep, ChunkNext, Sized, InText
<1> QED
  BY <1>1 DEF ReadsChunks, Text

\* There is such a function, so that ChunkedBodyOf is one.
LEMMA ChunkedReader == ChunkedBodyOf = [s \in Text |-> ChunkStep(s, ChunkedBodyOf[ChunkNext(s)])]
<1> DEFINE len == [s \in Text |-> Len(s)]
           next == [s \in Text |-> ChunkNext(s)]
           step == [s \in Text |-> [b \in Bodies |-> ChunkStep(s, b)]]
<1>1. len \in [Text -> Nat] /\ next \in [Text -> Text] /\ step \in [Text -> [Bodies -> Bodies]]
  BY ChunkNextIs, ChunkStepType DEF Text
<1>2. \A s \in Text : len[s] = Len(s) /\ next[s] = ChunkNext(s) /\ \A b \in Bodies : step[s][b] = ChunkStep(s, b)
  OBVIOUS
<1> HIDE DEF len, next, step
<1>3. ASSUME NEW s \in Text
      PROVE  len[next[s]] < len[s] \/ \A a, b \in Bodies : step[s][a] = step[s][b]
  <2>1. ChunkNext(s) \in Text
    BY ChunkNextIs
  <2> QED
    BY <1>2, <2>1, ChunkNextIs
<1>4. Descends(Text, Bodies, len, next, step) /\ Bodies # {}
  BY <1>1, <1>3, BodyTypes DEF Descends
<1>5. PICK f \in [Text -> Bodies] : \A s \in Text : f[s] = step[s][f[next[s]]]
  BY <1>4, Recursion
<1>6. \A s \in Text : f[s] = ChunkStep(s, f[ChunkNext(s)])
  BY <1>1, <1>2, <1>5, ChunkNextIs
<1>7. f = [s \in Text |-> ChunkStep(s, f[ChunkNext(s)])]
  BY <1>5, <1>6
<1>8. ReadsChunks(f)
  BY <1>7, ChunksRead
<1>9. ChunkedBodyOf = CHOOSE g : ReadsChunks(g)
  BY DEF ChunkedBodyOf, ReadsChunks
<1>10. ReadsChunks(ChunkedBodyOf)
  BY <1>8, <1>9
<1> QED
  BY <1>10, ChunksRead

\* ChunkedBodyOf of a stream.
LEMMA ChunkedIs ==
  \A s \in Text : /\ ChunkedBodyOf[s] = ChunkStep(s, ChunkedBodyOf[ChunkNext(s)])
                  /\ ChunkedBodyOf[s] \in Bodies /\ Len(ChunkedBodyOf[s].rest) <= Len(s)
<1>1. \A s \in Text : ChunkedBodyOf[s] = ChunkStep(s, ChunkedBodyOf[ChunkNext(s)])
  <2> DEFINE c == ChunkedBodyOf
  <2>1. c = [s \in Text |-> ChunkStep(s, c[ChunkNext(s)])]
    BY ChunkedReader
  <2> HIDE DEF c
  <2>2. \A s \in Text : c[s] = ChunkStep(s, c[ChunkNext(s)])
    BY <2>1
  <2> QED
    BY <2>2 DEF c
<1> DEFINE c == ChunkedBodyOf
           len == [s \in Text |-> Len(s)]
           T == {s \in Text : c[s] \in Bodies /\ Len(c[s].rest) <= Len(s)}
<1>2. len \in [Text -> Nat] /\ \A s \in Text : len[s] = Len(s)
  BY DEF Text
<1> HIDE DEF len
<1>3. ASSUME NEW s \in Text, \A t \in Text : len[t] < len[s] => t \in T
      PROVE  s \in T
  <2> DEFINE t == ChunkNext(s)
  <2>1. t \in Text /\ c[s] = ChunkStep(s, c[t])
    BY <1>1, ChunkNextIs
  <2>2. CASE Len(t) < Len(s)
    <3>1. c[t] \in Bodies /\ Len(c[t].rest) <= Len(t)
      BY <1>2, <1>3, <2>1, <2>2
    <3> HIDE DEF c
    <3>2. ChunkStep(s, c[t]) \in Bodies /\ Len(ChunkStep(s, c[t]).rest) <= Len(s)
      BY <3>1, ChunkStepType, ChunkStepRest
    <3> QED
      BY <2>1, <3>2
  <2>3. CASE ~(Len(t) < Len(s))
    <3> HIDE DEF c
    <3>1. \A a, b : ChunkStep(s, a) = ChunkStep(s, b)
      BY <2>3, ChunkNextIs
    <3>2. ChunkStep(s, c[t]) = ChunkStep(s, Partial)
      BY <3>1
    <3>3. Len(Partial.rest) <= Len(t)
      BY <2>1, BodyTypes DEF Text
    <3>4. ChunkStep(s, Partial) \in Bodies /\ Len(ChunkStep(s, Partial).rest) <= Len(s)
      BY <3>3, BodyTypes, ChunkStepType, ChunkStepRest
    <3> QED
      BY <2>1, <3>2, <3>4
  <2> QED
    BY <2>2, <2>3
<1> HIDE DEF T
<1>4. Text \subseteq T
  BY <1>2, <1>3, Descent
<1> QED
  BY <1>1, <1>4 DEF T

\* The header at the beginning of a stream, and the body behind it.
LEMMA HeaderParts ==
  ASSUME NEW s \in Text, HeaderEnds(s) # {}
  PROVE  /\ HeaderOf(s) \in Text /\ AfterHeader(s) \in Text /\ Len(AfterHeader(s)) < Len(s)
         /\ Len(AfterHeader(s)) \in Nat /\ Len(s) \in Nat
<1>1. HeaderEnds(s) \subseteq 1..Len(s) /\ Len(s) \in Nat
  BY DEF HeaderEnds, Text
<1>2. Min(HeaderEnds(s)) \in 1..Len(s)
  <2>1. HeaderEnds(s) \subseteq Nat
    BY <1>1
  <2> QED
    BY <1>1, <2>1, Least
<1> DEFINE m == Min(HeaderEnds(s))
<1>3. m \in Nat /\ 1 <= m /\ m <= Len(s)
  BY <1>1, <1>2
<1> HIDE DEF m
<1>4. From(s, m + 1) \in Text /\ Len(From(s, m + 1)) = Len(s) - m
  BY <1>3, FromIs
<1>5. AfterHeader(s) \in Text /\ Len(AfterHeader(s)) = Len(s) - m
  BY <1>4 DEF AfterHeader, m
<1>6. SubSeq(s, 1, m) \in Text
  BY <1>3, FirstConcat, ConcatNothing
<1>7. HeaderOf(s) \in Text
  BY <1>6, LstripType DEF HeaderOf, m
<1> QED
  BY <1>1, <1>3, <1>5, <1>7

\* A body of a known length.
LEMMA FixedIs ==
  ASSUME NEW s \in Text, NEW n \in Nat
  PROVE  /\ FixedBodyOf(s, n) \in Bodies /\ Len(FixedBodyOf(s, n).rest) <= Len(s)
         /\ ~(Len(s) < n) => SubSeq(s, 1, n) \in Text /\ From(s, n + 1) \in Text
<1>1. Len(s) \in Nat
  BY DEF Text
<1>2. CASE Len(s) < n
  BY <1>1, <1>2, BodyTypes DEF FixedBodyOf
<1>3. CASE ~(Len(s) < n)
  <2>1. SubSeq(s, 1, n) \in Text
    BY <1>1, <1>3, FirstConcat, ConcatNothing
  <2>2. From(s, n + 1) \in Text /\ Len(From(s, n + 1)) = Len(s) - n
    BY <1>1, <1>3, FromIs
  <2>3. FixedBodyOf(s, n) = Whole(SubSeq(s, 1, n), From(s, n + 1))
    BY <1>3 DEF FixedBodyOf
  <2>4. FixedBodyOf(s, n) \in Bodies /\ FixedBodyOf(s, n).rest = From(s, n + 1)
    BY <2>1, <2>2, <2>3, BodyTypes
  <2> QED
    BY <1>1, <1>3, <2>1, <2>2, <2>4
<1> QED
  BY <1>2, <1>3

\* A body of either kind.
LEMMA BodyOfType ==
  ASSUME NEW s \in Text, NEW h
  PROVE  BodyOf(h, s) \in Bodies /\ Len(BodyOf(h, s).rest) <= Len(s)
<1>1. CASE Chunked(h)
  BY <1>1, ChunkedIs DEF BodyOf
<1>2. CASE ~Chunked(h)
  <2>1. BodyOf(h, s) = FixedBodyOf(s, ContentLength(h)) /\ ContentLength(h) \in Nat
    BY <1>2, LengthType DEF BodyOf
  <2> QED
    BY <2>1, FixedIs
<1> QED
  BY <1>1, <1>2

\* Requests, in parts: where it goes on, and what it makes of that.
RequestBody(s) == BodyOf(HeaderOf(s), AfterHeader(s))
ReadsOn(s) == /\ HeaderEnds(s) # {} /\ HeaderOf(s) # <<>> /\ ~Raises(HeaderOf(s))
              /\ RequestBody(s).state # "bad" /\ RequestBody(s).state # "partial"
RequestNext(s) == IF HeaderEnds(s) # {} /\ HeaderOf(s) = <<>> THEN AfterHeader(s)
                  ELSE IF ReadsOn(s) THEN RequestBody(s).rest
                  ELSE s
RequestStep(s, o) ==
  IF HeaderEnds(s) = {} THEN Nothing
  ELSE IF HeaderOf(s) = <<>> THEN o
  ELSE IF Raises(HeaderOf(s)) \/ RequestBody(s).state = "bad" THEN Failure
  ELSE IF RequestBody(s).state = "partial" THEN Nothing
  ELSE Then(<<[header |-> HeaderOf(s), body |-> RequestBody(s).body]>>, o)

\* Where it goes on is shorter, or does not matter.
LEMMA RequestNextIs ==
  ASSUME NEW s \in Text
  PROVE  /\ RequestNext(s) \in Text
         /\ Len(RequestNext(s)) < Len(s) \/ \A a, b : RequestStep(s, a) = RequestStep(s, b)
<1>1. CASE HeaderEnds(s) # {} /\ HeaderOf(s) = <<>>
  BY <1>1, HeaderParts DEF RequestNext
<1>2. CASE ReadsOn(s)
  <2> DEFINE t == AfterHeader(s)
             b == RequestBody(s)
  <2>1. t \in Text /\ Len(t) < Len(s) /\ Len(t) \in Nat /\ Len(s) \in Nat
    BY <1>2, HeaderParts DEF ReadsOn
  <2>2. b \in Bodies /\ Len(b.rest) <= Len(t)
    BY <2>1, BodyOfType DEF RequestBody
  <2>3. RequestNext(s) = b.rest
    BY <1>2 DEF RequestNext, ReadsOn
  <2> HIDE DEF b, t
  <2>4. b.rest \in Text /\ Len(b.rest) \in Nat
    BY <2>2 DEF Bodies, Text
  <2> QED
    BY <2>1, <2>2, <2>3, <2>4
<1>3. CASE ~(HeaderEnds(s) # {} /\ HeaderOf(s) = <<>>) /\ ~ReadsOn(s)
  <2>1. RequestNext(s) = s
    BY <1>3 DEF RequestNext
  <2>2. \A a, b : RequestStep(s, a) = RequestStep(s, b)
    BY <1>3 DEF RequestStep, ReadsOn
  <2> QED
    BY <2>1, <2>2
<1> QED
  BY <1>1, <1>2, <1>3

\* One request that was handled.
LEMMA OneRequest ==
  ASSUME NEW h \in Text, NEW b \in Text
  PROVE  <<[header |-> h, body |-> b]>> \in Seq(Handled)
<1>1. [header |-> h, body |-> b] \in Handled
  BY DEF Handled
<1>2. \A r \in Handled : <<r>> \in Seq(Handled)
  OBVIOUS
<1> QED
  BY <1>1, <1>2, Zenon

\* What it makes of that is an outcome.
LEMMA RequestStepType ==
  ASSUME NEW s \in Text, NEW o \in Outcomes
  PROVE  RequestStep(s, o) \in Outcomes
<1>1. CASE HeaderEnds(s) = {} \/ HeaderOf(s) = <<>>
  BY <1>1, OutcomeTypes DEF RequestStep
<1>2. CASE HeaderEnds(s) # {} /\ HeaderOf(s) # <<>>
  <2>1. HeaderOf(s) \in Text /\ RequestBody(s).body \in Text
    <3>1. HeaderOf(s) \in Text /\ AfterHeader(s) \in Text
      BY <1>2, HeaderParts
    <3>2. RequestBody(s) \in Bodies
      BY <3>1, BodyOfType DEF RequestBody
    <3> QED
      BY <3>1, <3>2 DEF Bodies
  <2>2. Then(<<[header |-> HeaderOf(s), body |-> RequestBody(s).body]>>, o) \in Outcomes
    BY <2>1, OneRequest, OutcomeTypes
  <2> QED
    BY <1>2, <2>2, OutcomeTypes DEF RequestStep
<1> QED
  BY <1>1, <1>2

\* The definition of Requests.
ReadsRequests(f) ==
  f = [s \in Seq(Symbols) |->
         LET body == BodyOf(HeaderOf(s), AfterHeader(s))
         IN  IF HeaderEnds(s) = {} THEN Nothing
             ELSE IF HeaderOf(s) = <<>> THEN f[AfterHeader(s)]
             ELSE IF Raises(HeaderOf(s)) \/ body.state = "bad" THEN Failure
             ELSE IF body.state = "partial" THEN Nothing
             ELSE Then(<<[header |-> HeaderOf(s), body |-> body.body]>>, f[body.rest])]

\* The definition in parts is the same.
LEMMA RequestsRead == \A f : ReadsRequests(f) <=> f = [s \in Text |-> RequestStep(s, f[RequestNext(s)])]
<1> SUFFICES ASSUME NEW f PROVE ReadsRequests(f) <=> f = [s \in Text |-> RequestStep(s, f[RequestNext(s)])]
  OBVIOUS
<1>1. ASSUME NEW s \in Text
      PROVE  RequestStep(s, f[RequestNext(s)]) =
               IF HeaderEnds(s) = {} THEN Nothing
               ELSE IF HeaderOf(s) = <<>> THEN f[AfterHeader(s)]
               ELSE IF Raises(HeaderOf(s)) \/ RequestBody(s).state = "bad" THEN Failure
               ELSE IF RequestBody(s).state = "partial" THEN Nothing
               ELSE Then(<<[header |-> HeaderOf(s), body |-> RequestBody(s).body]>>, f[RequestBody(s).rest])
  BY DEF RequestStep, RequestNext, ReadsOn
<1> QED
  BY <1>1 DEF ReadsRequests, RequestBody, Text

\* There is such a function, so that Requests is one.
LEMMA RequestsReader == Requests = [s \in Text |-> RequestStep(s, Requests[RequestNext(s)])]
<1> DEFINE len == [s \in Text |-> Len(s)]
           next == [s \in Text |-> RequestNext(s)]
           step == [s \in Text |-> [o \in Outcomes |-> RequestStep(s, o)]]
<1>1. len \in [Text -> Nat] /\ next \in [Text -> Text] /\ step \in [Text -> [Outcomes -> Outcomes]]
  BY RequestNextIs, RequestStepType DEF Text
<1>2. \A s \in Text : len[s] = Len(s) /\ next[s] = RequestNext(s) /\ \A o \in Outcomes : step[s][o] = RequestStep(s, o)
  OBVIOUS
<1> HIDE DEF len, next, step
<1>3. ASSUME NEW s \in Text
      PROVE  len[next[s]] < len[s] \/ \A a, b \in Outcomes : step[s][a] = step[s][b]
  <2>1. RequestNext(s) \in Text
    BY RequestNextIs
  <2> QED
    BY <1>2, <2>1, RequestNextIs
<1>4. Descends(Text, Outcomes, len, next, step) /\ Outcomes # {}
  BY <1>1, <1>3, OutcomeTypes DEF Descends
<1>5. PICK f \in [Text -> Outcomes] : \A s \in Text : f[s] = step[s][f[next[s]]]
  BY <1>4, Recursion
<1>6. \A s \in Text : f[s] = RequestStep(s, f[RequestNext(s)])
  BY <1>1, <1>2, <1>5, RequestNextIs
<1>7. f = [s \in Text |-> RequestStep(s, f[RequestNext(s)])]
  BY <1>5, <1>6
<1>8. ReadsRequests(f)
  BY <1>7, RequestsRead
<1>9. Requests = CHOOSE g : ReadsRequests(g)
  BY DEF Requests, ReadsRequests
<1>10. ReadsRequests(Requests)
  BY <1>8, <1>9
<1> QED
  BY <1>10, RequestsRead

\* Requests of a stream.
LEMMA RequestsIs ==
  \A s \in Text : /\ Requests[s] = RequestStep(s, Requests[RequestNext(s)])
                  /\ Requests[s] \in Outcomes
<1> DEFINE q == Requests
           len == [s \in Text |-> Len(s)]
           T == {s \in Text : q[s] \in Outcomes}
<1>1. q = [s \in Text |-> RequestStep(s, q[RequestNext(s)])]
  BY RequestsReader
<1> HIDE DEF q
<1>2. \A s \in Text : q[s] = RequestStep(s, q[RequestNext(s)])
  BY <1>1
<1>3. len \in [Text -> Nat] /\ \A s \in Text : len[s] = Len(s)
  BY DEF Text
<1> HIDE DEF len
<1>4. ASSUME NEW s \in Text, \A t \in Text : len[t] < len[s] => t \in T
      PROVE  s \in T
  <2> DEFINE t == RequestNext(s)
  <2>1. t \in Text /\ q[s] = RequestStep(s, q[t])
    BY <1>2, RequestNextIs
  <2>2. CASE Len(t) < Len(s)
    <3>1. q[t] \in Outcomes
      BY <1>3, <1>4, <2>1, <2>2
    <3> QED
      BY <2>1, <3>1, RequestStepType
  <2>3. CASE \A a, b : RequestStep(s, a) = RequestStep(s, b)
    <3>1. RequestStep(s, q[t]) = RequestStep(s, Nothing)
      BY <2>3
    <3> QED
      BY <2>1, <3>1, OutcomeTypes, RequestStepType
  <2> QED
    BY <2>2, <2>3, RequestNextIs
<1> HIDE DEF T
<1>5. Text \subseteq T
  BY <1>3, <1>4, Descent
<1> QED
  BY <1>2, <1>5 DEF T, q

-----------------------------------------------------------------------------
(* What a parser that is not done makes of the symbols to come, y.         *)

Parsers == [header_plus : Text, header : Text, body_rcv : {"none", "fixed", "chunked"},
            remain : Nat, chunk_remainder : Nat, control_line : Text,
            all_chunks_received : BOOLEAN, trailer : Text, buf : Text]

\* A request and its body, as far as the body came.
Outcome(header, b) ==
  IF b.state = "bad" THEN Failure
  ELSE IF b.state = "partial" THEN Nothing
  ELSE Then(<<[header |-> header, body |-> b.body]>>, Requests[b.rest])

\* The rest of a chunk, of n symbols, and what is behind it.
ChunkBody(b, y, n) == IF Len(y) < n THEN Partial
                      ELSE With(b \o SubSeq(y, 1, n), ChunkedBodyOf[From(y, n + 1)])
BodyMeaning(p, y) ==
  IF p.body_rcv = "fixed" THEN With(p.buf, FixedBodyOf(y, p.remain))
  ELSE IF p.chunk_remainder > 0 THEN ChunkBody(p.buf, y, p.chunk_remainder)
  ELSE IF p.all_chunks_received THEN With(p.buf, LastOf(p.trailer \o y))
  ELSE With(p.buf, ChunkedBodyOf[p.control_line \o y])

Meaning(p, y) == IF p.body_rcv = "none" THEN Requests[p.header_plus \o y]
                 ELSE Outcome(p.header, BodyMeaning(p, y))

\* What a parser keeps back has no end in it yet, and it keeps back no more
\* than it needs.
Waiting(p) ==
  /\ HeaderEnds(p.header_plus) = {} /\ LineEnds(p.control_line) = {} /\ TrailerEnds(p.trailer) = {}
  /\ p.body_rcv = "fixed" => p.remain > 0
  /\ p.chunk_remainder > 0 => ~p.all_chunks_received /\ p.control_line = <<>>
  /\ ~p.all_chunks_received => p.trailer = <<>>
  /\ p.header = <<>> <=> p.body_rcv = "none"

\* In nothing, nothing ends.
LEMMA NothingEnds == HeaderEnds(<<>>) = {} /\ LineEnds(<<>>) = {} /\ TrailerEnds(<<>>) = {}
<1>1. DOMAIN <<>> = {}
  OBVIOUS
<1> QED
  BY <1>1 DEF HeaderEnds, LineEnds, TrailerEnds

\* A parser that has just been made reads a stream from its beginning.
LEMMA NewMeaning ==
  /\ NewParser \in Parsers /\ Waiting(NewParser)
  /\ \A y \in Text : Meaning(NewParser, y) = Requests[y]
<1>1. <<>> \in Text
  BY DEF Text
<1>2. NewParser \in Parsers
  BY <1>1 DEF NewParser, Parsers
<1>3. Waiting(NewParser)
  BY NothingEnds DEF NewParser, Waiting
<1>4. \A y \in Text : Meaning(NewParser, y) = Requests[y]
  BY ConcatNothing DEF NewParser, Meaning
<1> QED
  BY <1>2, <1>3, <1>4

\* How a body ends decides what it means; a whole one goes with what is behind it.
LEMMA OutcomeIs ==
  /\ \A h, b : b.state = "bad" => Outcome(h, b) = Failure
  /\ \A h, b : b.state = "partial" => Outcome(h, b) = Nothing
  /\ \A h \in Text, b \in Text, r \in Text :
       Outcome(h, Whole(b, r)) = Then(<<[header |-> h, body |-> b]>>, Requests[r])
<1>1. \A h, b : b.state = "bad" => Outcome(h, b) = Failure
  BY DEF Outcome
<1>2. \A h, b : b.state = "partial" => Outcome(h, b) = Nothing
  BY DEF Outcome
<1>3. ASSUME NEW h \in Text, NEW b \in Text, NEW r \in Text
      PROVE  Outcome(h, Whole(b, r)) = Then(<<[header |-> h, body |-> b]>>, Requests[r])
  <2> DEFINE w == Whole(b, r)
  <2>1. w.state = "whole" /\ w.body = b /\ w.rest = r
    BY BodyTypes
  <2> HIDE DEF w
  <2>2. Outcome(h, w) = Then(<<[header |-> h, body |-> b]>>, Requests[r])
    BY <2>1 DEF Outcome
  <2> QED
    BY <2>2 DEF w
<1> QED
  BY <1>1, <1>2, <1>3

\* Nothing in front of a body.
LEMMA WithNothing == ASSUME NEW b \in Bodies PROVE With(<<>>, b) = b
<1>1. b.body \in Text
  BY DEF Bodies
<1>2. <<>> \o b.body = b.body
  BY <1>1, ConcatNothing
<1> QED
  BY <1>2 DEF With, Bodies

\* Something in front of a whole one.
LEMMA WithWhole ==
  ASSUME NEW d \in Text, NEW b \in Text, NEW r \in Text
  PROVE  With(d, Whole(b, r)) = Whole(d \o b, r)
<1> DEFINE v == Whole(b, r)
           w == With(d, v)
<1>1. v \in Bodies /\ v.state = "whole" /\ v.body = b /\ v.rest = r
  BY BodyTypes
<1> HIDE DEF v
<1>2. w \in Bodies /\ w.state = "whole" /\ w.body = d \o b /\ w.rest = r
  BY <1>1, BodyTypes
<1> HIDE DEF w
<1>3. w = Whole(d \o b, r)
  BY <1>2 DEF Bodies, Whole
<1> QED
  BY <1>3 DEF v, w

\* Behind all of d.
LEMMA Past ==
  ASSUME NEW d \in Text, NEW x \in Text, NEW k \in Nat, k <= Len(x)
  PROVE  /\ SubSeq(d \o x, 1, Len(d) + k) = d \o SubSeq(x, 1, k)
         /\ From(d \o x, Len(d) + k + 1) = From(x, k + 1)
         /\ SubSeq(x, 1, k) \in Text /\ From(x, k + 1) \in Text
<1>1. /\ d \o x \in Text /\ Len(d \o x) = Len(d) + Len(x) /\ Len(d) \in Nat /\ Len(x) \in Nat
      /\ \A i \in 1..Len(d) : (d \o x)[i] = d[i]
      /\ \A i \in 1..Len(x) : (d \o x)[Len(d) + i] = x[i]
  BY Concat
<1> DEFINE n == Len(d) + k
           t == d \o x
           a == SubSeq(t, 1, n)
           f == SubSeq(x, 1, k)
           b == d \o f
<1>2. n \in Nat /\ n <= Len(t) /\ Len(d) <= n /\ n - Len(d) = k
  BY <1>1
<1> HIDE DEF n
<1>3. a \in Text /\ Len(a) = n /\ \A i \in 1..n : a[i] = t[i]
  <2> HIDE DEF t
  <2>1. t \in Text
    BY <1>1 DEF t
  <2>2. SubSeq(t, 0 + 1, n) \in Text /\ Len(SubSeq(t, 0 + 1, n)) = n - 0 /\ \A i \in 1..n - 0 : SubSeq(t, 0 + 1, n)[i] = t[0 + i]
    BY <1>2, <2>1, Part
  <2> QED
    BY <1>2, <2>2, <2>1 DEF Text
<1>4. f \in Text /\ Len(f) = k /\ \A i \in 1..k : f[i] = x[i]
  <2>1. SubSeq(x, 0 + 1, k) \in Text /\ Len(SubSeq(x, 0 + 1, k)) = k - 0 /\ \A i \in 1..k - 0 : SubSeq(x, 0 + 1, k)[i] = x[0 + i]
    BY Part
  <2> QED
    BY <2>1
<1> HIDE DEF f
<1>5. b \in Text /\ Len(b) = Len(d) + Len(f) /\ (\A i \in 1..Len(d) : b[i] = d[i])
      /\ \A i \in 1..Len(f) : b[Len(d) + i] = f[i]
  BY <1>4, Concat
<1> HIDE DEF a, b, t
<1>6. ASSUME NEW i \in 1..Len(a) PROVE a[i] = b[i]
  <2>1. CASE i <= Len(d)
    <3>1. i \in 1..Len(d) /\ i \in 1..n
      BY <1>1, <1>2, <1>3, <2>1
    <3>2. t[i] = d[i]
      BY <1>1, <3>1 DEF t
    <3> QED
      BY <1>3, <1>5, <3>1, <3>2
  <2>2. CASE i > Len(d)
    <3> DEFINE m == i - Len(d)
    <3>1. m \in 1..k /\ m \in 1..Len(x) /\ i = Len(d) + m /\ i \in 1..n /\ m \in 1..Len(f)
      BY <1>1, <1>2, <1>3, <1>4, <2>2
    <3> HIDE DEF m
    <3>2. t[Len(d) + m] = x[m]
      BY <1>1, <3>1 DEF t
    <3>3. b[Len(d) + m] = f[m] /\ f[m] = x[m]
      BY <1>4, <1>5, <3>1
    <3> QED
      BY <1>3, <3>1, <3>2, <3>3
  <2> QED
    BY <1>1, <1>2, <1>3, <2>1, <2>2
<1>7. a = b
  <2>1. Len(a) = Len(b)
    BY <1>1, <1>2, <1>3, <1>4, <1>5
  <2> QED
    BY <1>3, <1>5, <1>6, <2>1, SameText
<1>8. From(t, n + 1) = From(x, k + 1)
  <2>1. Len(d) <= n /\ n <= Len(d \o x)
    BY <1>2 DEF t
  <2>2. From(x, Len(x) - (Len(d \o x) - n) + 1) = From(d \o x, n + 1)
    BY <1>2, <2>1, LeftOver
  <2>3. Len(x) - (Len(d \o x) - n) = k
    BY <1>1, <1>2
  <2> QED
    BY <2>2, <2>3 DEF t
<1>9. From(x, k + 1) \in Text
  BY FromIs
<1> QED
  BY <1>4, <1>7, <1>8, <1>9 DEF a, b, f, n, t

\* s is what was kept back, and what came.
Joined(h, d, s) == s = h \o d

\* An end that is found in what came: what is left of the data.
LEMMA CutRest ==
  ASSUME NEW h \in Text, NEW d \in Text, NEW s \in Text, Joined(h, d, s),
         NEW end \in Nat, Len(h) < end, end <= Len(s)
  PROVE  /\ From(s, end + 1) \in Text /\ Len(From(s, end + 1)) <= Len(d)
         /\ From(d, Len(d) - (Len(s) - end) + 1) = From(s, end + 1)
<1>1. Len(s) = Len(h) + Len(d) /\ Len(h) \in Nat /\ Len(d) \in Nat
  BY Concat DEF Joined
<1>2. /\ From(d, Len(d) - (Len(s) - end) + 1) = From(s, end + 1)
      /\ From(s, end + 1) \in Text /\ Len(From(s, end + 1)) = Len(h) + Len(d) - end
  BY <1>1, LeftOver DEF Joined
<1> QED
  BY <1>1, <1>2

\* More may come.
LEMMA JoinedMore ==
  ASSUME NEW h \in Text, NEW d \in Text, NEW s \in Text, Joined(h, d, s), NEW x \in Text
  PROVE  h \o (d \o x) = s \o x /\ s \o x \in Text
<1>1. h \o (d \o x) = s \o x
  BY ConcatAssociates, SMTT(40) DEF Joined
<1> QED
  BY <1>1, Concat

\* A stream with a header in it.
LEMMA RequestOf ==
  ASSUME NEW t \in Text, HeaderEnds(t) # {}
  PROVE  Requests[t] = IF HeaderOf(t) = <<>> THEN Requests[AfterHeader(t)]
                       ELSE IF Raises(HeaderOf(t)) THEN Failure
                       ELSE Outcome(HeaderOf(t), BodyOf(HeaderOf(t), AfterHeader(t)))
<1>1. Requests[t] = RequestStep(t, Requests[RequestNext(t)])
  BY RequestsIs
<1>2. CASE HeaderOf(t) = <<>>
  BY <1>1, <1>2 DEF RequestStep, RequestNext
<1>3. CASE HeaderOf(t) # <<>> /\ ~Raises(HeaderOf(t))
  <2>1. Outcome(HeaderOf(t), RequestBody(t)) = RequestStep(t, Requests[RequestNext(t)])
    BY <1>3 DEF Outcome, RequestStep, RequestNext, ReadsOn
  <2> QED
    BY <1>1, <1>3, <2>1 DEF RequestBody
<1>4. CASE HeaderOf(t) # <<>> /\ Raises(HeaderOf(t))
  BY <1>1, <1>4 DEF RequestStep
<1> QED
  BY <1>2, <1>3, <1>4

\* And one with a control line in it.
LEMMA ChunkedOf ==
  ASSUME NEW t \in Text, LineEnds(t) # {}
  PROVE  ChunkedBodyOf[t] =
           IF LineOf(t) = <<>> THEN ChunkedBodyOf[AfterLine(t)]
           ELSE IF ~IsHex(Size(LineOf(t))) THEN Bad
           ELSE IF Hex(Size(LineOf(t))) = 0 THEN LastOf(AfterLine(t))
           ELSE IF Len(AfterLine(t)) < Hex(Size(LineOf(t))) THEN Partial
           ELSE With(SubSeq(AfterLine(t), 1, Hex(Size(LineOf(t)))),
                     ChunkedBodyOf[From(AfterLine(t), Hex(Size(LineOf(t))) + 1)])
<1>1. ChunkedBodyOf[t] = ChunkStep(t, ChunkedBodyOf[ChunkNext(t)])
  BY ChunkedIs
<1> QED
  BY <1>1 DEF ChunkStep, ChunkNext, Sized, InText

\* What received() finds in the header is what the reference finds in the stream.
LEMMA HeaderRead ==
  ASSUME NEW h \in Text, NEW d \in Text, HeaderEnds(h) = {},
         NEW s \in Text, Joined(h, d, s), NEW end, end = find_double_newline(s), end # 0,
         NEW header, header = lstrip(SubSeq(s, 1, end)),
         NEW rest, rest = From(d, Len(d) - (Len(s) - end) + 1)
  PROVE  /\ header \in Text /\ rest \in Text /\ Len(rest) <= Len(d)
         /\ \A x \in Text : Requests[h \o (d \o x)] =
                              IF header = <<>> THEN Requests[rest \o x]
                              ELSE IF Raises(header) THEN Failure
                              ELSE Outcome(header, BodyOf(header, rest \o x))
<1>1. /\ end \in Nat /\ Len(h) < end /\ end <= Len(s)
      /\ \A x \in Text : HeaderEnds(s \o x) # {} /\ Min(HeaderEnds(s \o x)) = end
  BY HeaderFound DEF Joined
<1>2. end \in Nat /\ Len(h) < end /\ end <= Len(s)
  BY <1>1
<1>3. rest \in Text /\ Len(rest) <= Len(d) /\ rest = From(s, end + 1)
  BY <1>2, CutRest
<1>4. header \in Text
  <2>1. SubSeq(s, 1, end) \in Text
    BY <1>2, FirstConcat, ConcatNothing
  <2> QED
    BY <2>1, LstripType
<1>5. ASSUME NEW x \in Text
      PROVE  Requests[h \o (d \o x)] =
               IF header = <<>> THEN Requests[rest \o x]
               ELSE IF Raises(header) THEN Failure
               ELSE Outcome(header, BodyOf(header, rest \o x))
  <2> DEFINE t == s \o x
  <2>0. h \o (d \o x) = t /\ t \in Text
    BY SMTT(30), JoinedMore
  <2>3. SubSeq(t, 1, end) = SubSeq(s, 1, end)
    BY <1>2, FirstConcat
  <2>4. From(t, end + 1) = From(s, end + 1) \o x
    BY <1>2, FromConcat
  <2>1. HeaderEnds(t) # {} /\ Min(HeaderEnds(t)) = end
    BY <1>1
  <2>2. HeaderOf(t) = header /\ AfterHeader(t) = rest \o x
    BY <1>3, <2>1, <2>3, <2>4 DEF HeaderOf, AfterHeader
  <2> HIDE DEF t
  <2> QED
    BY <2>0, <2>1, <2>2, RequestOf
<1> QED
  BY <1>3, <1>4, <1>5

\* And in a control line.
LEMMA ControlRead ==
  ASSUME NEW h \in Text, NEW d \in Text, LineEnds(h) = {},
         NEW s \in Text, Joined(h, d, s), NEW pos, pos = find(s, "n"), pos # 0,
         NEW line, line = strip(SubSeq(s, 1, pos - 1)),
         NEW rest, rest = From(s, pos + 1)
  PROVE  /\ line \in Text /\ rest \in Text /\ Len(rest) <= Len(d) /\ pos \in Nat
         /\ \A x \in Text : ChunkedBodyOf[h \o (d \o x)] =
                              IF line = <<>> THEN ChunkedBodyOf[rest \o x]
                              ELSE IF ~IsHex(Size(line)) THEN Bad
                              ELSE IF Hex(Size(line)) = 0 THEN LastOf(rest \o x)
                              ELSE IF Len(rest \o x) < Hex(Size(line)) THEN Partial
                              ELSE With(SubSeq(rest \o x, 1, Hex(Size(line))),
                                        ChunkedBodyOf[From(rest \o x, Hex(Size(line)) + 1)])
<1>1. /\ pos \in Nat /\ Len(h) < pos /\ pos <= Len(s)
      /\ \A x \in Text : LineEnds(s \o x) # {} /\ Min(LineEnds(s \o x)) = pos
  BY LineFound DEF Joined
<1>2. pos \in Nat /\ Len(h) < pos /\ pos <= Len(s)
  BY <1>1
<1>3. rest \in Text /\ Len(rest) <= Len(d) /\ rest = From(s, pos + 1)
  BY <1>2, CutRest
<1>4. line \in Text
  <2> DEFINE i == pos - 1
  <2>1. i \in Nat /\ i <= Len(s)
    BY <1>2 DEF Text
  <2> HIDE DEF i
  <2>2. SubSeq(s, 1, i) \in Text
    BY <2>1, FirstConcat, ConcatNothing
  <2> QED
    BY <2>2, StripType DEF i
<1>5. ASSUME NEW x \in Text
      PROVE  ChunkedBodyOf[h \o (d \o x)] =
               IF line = <<>> THEN ChunkedBodyOf[rest \o x]
               ELSE IF ~IsHex(Size(line)) THEN Bad
               ELSE IF Hex(Size(line)) = 0 THEN LastOf(rest \o x)
               ELSE IF Len(rest \o x) < Hex(Size(line)) THEN Partial
               ELSE With(SubSeq(rest \o x, 1, Hex(Size(line))),
                         ChunkedBodyOf[From(rest \o x, Hex(Size(line)) + 1)])
  <2> DEFINE t == s \o x
  <2>0. h \o (d \o x) = t /\ t \in Text
    BY SMTT(30), JoinedMore
  <2>3. SubSeq(t, 1, pos - 1) = SubSeq(s, 1, pos - 1)
    <3> DEFINE i == pos - 1
    <3>1. i \in Nat /\ i <= Len(s)
      BY <1>2 DEF Text
    <3> HIDE DEF i
    <3>2. SubSeq(t, 1, i) = SubSeq(s, 1, i)
      BY <3>1, FirstConcat
    <3> QED
      BY <3>2 DEF i
  <2>4. From(t, pos + 1) = From(s, pos + 1) \o x
    BY <1>2, FromConcat
  <2>1. LineEnds(t) # {} /\ Min(LineEnds(t)) = pos
    BY <1>1
  <2>2. LineOf(t) = line /\ AfterLine(t) = rest \o x
    BY <1>3, <2>1, <2>3, <2>4 DEF LineOf, AfterLine
  <2> HIDE DEF t
  <2> QED
    BY <2>0, <2>1, <2>2, ChunkedOf
<1> QED
  BY <1>2, <1>3, <1>4, <1>5

\* And in the trailer.
LEMMA TrailerRead ==
  ASSUME NEW h \in Text, NEW d \in Text, TrailerEnds(h) = {},
         NEW s \in Text, Joined(h, d, s), NEW end, end = TrailerEnd(s), end # 0,
         NEW rest, rest = Suffix(d, Len(s) - end)
  PROVE  /\ rest \in Text /\ Len(rest) <= Len(d)
         /\ \A x \in Text : LastOf(h \o (d \o x)) = Whole(<<>>, rest \o x)
<1>1. /\ end \in Nat /\ Len(h) < end /\ end <= Len(s)
      /\ \A x \in Text : TrailerEnds(s \o x) # {} /\ Min(TrailerEnds(s \o x)) = end
  BY TrailerFound DEF Joined
<1>2. end \in Nat /\ Len(h) < end /\ end <= Len(s)
  BY <1>1
<1>3. rest = From(d, Len(d) - (Len(s) - end) + 1)
  BY DEF Suffix
<1>4. rest \in Text /\ Len(rest) <= Len(d) /\ rest = From(s, end + 1)
  BY <1>2, <1>3, CutRest
<1>5. ASSUME NEW x \in Text PROVE LastOf(h \o (d \o x)) = Whole(<<>>, rest \o x)
  <2> DEFINE t == s \o x
  <2>1. TrailerEnds(t) # {} /\ Min(TrailerEnds(t)) = end
    BY <1>1
  <2>0. h \o (d \o x) = t
    BY SMTT(30), JoinedMore
  <2>2. From(t, end + 1) = From(s, end + 1) \o x
    BY <1>2, FromConcat
  <2> HIDE DEF t
  <2> QED
    BY <1>4, <2>0, <2>1, <2>2 DEF LastOf
<1> QED
  BY <1>3, <1>4, <1>5

-----------------------------------------------------------------------------
(* The invariant: the requests that were handled, and what the parser will *)
(* make of the data it has and of whatever comes, are the requests in the  *)
(* stream so far with that behind it.                                      *)

After(y) == IF failed THEN Failure ELSE Meaning(preq, y)
StreamMeans == \A x \in Text : Requests[SubSeq(stream, 1, received) \o x] = Then(requests, After(data \o x))
IInv == TypeOK /\ Waiting(preq) /\ (failed => data = <<>>) /\ StreamMeans

\* TypeOK in the words of this module, ...
LEMMA Types ==
  /\ TypeOK <=> /\ stream \in Streams /\ received \in 0..Len(stream)
                /\ data \in Text /\ Len(data) <= received /\ preq \in Parsers
                /\ (preq.header = <<>>) <=> (preq.body_rcv = "none")
                /\ failed \in BOOLEAN /\ requests \in Seq(Handled)
  /\ \A s \in Streams : s \in Text
BY StreamsAssumption DEF TypeOK, Text, Parsers, Handled

\* ... in the next state, too.
LEMMA TypesNext ==
  TypeOK' <=> /\ stream' \in Streams /\ received' \in 0..Len(stream')
              /\ data' \in Text /\ Len(data') <= received' /\ preq' \in Parsers
              /\ (preq'.header = <<>>) <=> (preq'.body_rcv = "none")
              /\ failed' \in BOOLEAN /\ requests' \in Seq(Handled)
BY DEF TypeOK, Text, Parsers, Handled

\* Nothing is said again.
LEMMA ThenNothing == ASSUME NEW o \in Outcomes PROVE Then(<<>>, o) = o
<1>1. o \in [requests : Seq(Handled), failed : BOOLEAN]
  BY DEF Outcomes
<1>2. <<>> \o o.requests = o.requests
  BY <1>1
<1> QED
  BY <1>1, <1>2 DEF Then

\* A turn of the loop that completes no request keeps the invariant if the
\* parser makes the same of what is left.
LEMMA GoesOn ==
  ASSUME IInv, failed = FALSE, NEW q \in Parsers, Waiting(q), NEW rest \in Text, Len(rest) <= Len(data),
         GoOn(q, rest), \A x \in Text : Meaning(preq, data \o x) = Meaning(q, rest \o x)
  PROVE  IInv'
<1> USE DEF GoOn
<1>1. /\ stream \in Streams /\ received \in 0..Len(stream) /\ Len(data) <= received /\ data \in Text
      /\ requests \in Seq(Handled)
  BY Types DEF IInv
<1>2. TypeOK'
  <2>1. Len(rest) <= received
    BY <1>1, Types DEF Text
  <2>2. (q.header = <<>>) <=> (q.body_rcv = "none")
    BY DEF Waiting
  <2> QED
    BY <1>1, <2>1, <2>2, TypesNext
<1>3. StreamMeans'
  BY DEF IInv, StreamMeans, After
<1> QED
  BY <1>2, <1>3 DEF IInv

\* One that completes a request keeps it if what was to come began with it.
LEMMA Completes ==
  ASSUME IInv, failed = FALSE, NEW header \in Text, NEW body \in Text, NEW rest \in Text,
         Len(rest) <= Len(data), Completed(header, body, rest),
         \A x \in Text : Meaning(preq, data \o x)
                         = Then(<<[header |-> header, body |-> body]>>, Requests[rest \o x])
  PROVE  IInv'
<1> DEFINE r == [header |-> header, body |-> body]
<1>0. r \in Handled
  BY DEF Handled
<1>1. /\ stream \in Streams /\ received \in 0..Len(stream) /\ Len(data) <= received /\ data \in Text
      /\ requests \in Seq(Handled)
  BY Types DEF IInv
<1>2. /\ requests' = Append(requests, r) /\ preq' = NewParser /\ data' = rest
      /\ stream' = stream /\ received' = received /\ failed' = FALSE
  BY DEF Completed
<1>3. \A x \in Text : Meaning(preq, data \o x) = Then(<<r>>, Requests[rest \o x])
  OBVIOUS
<1> HIDE DEF r
<1>4. TypeOK'
  <2>1. Len(rest) <= received
    BY <1>1, Types DEF Text
  <2>2. (NewParser.header = <<>>) <=> (NewParser.body_rcv = "none")
    BY DEF NewParser
  <2>4. Append(requests, r) \in Seq(Handled)
    BY <1>0, <1>1
  <2> QED
    BY <1>1, <1>2, <2>1, <2>2, <2>4, NewMeaning, TypesNext
<1>5. ASSUME NEW x \in Text
      PROVE  Requests[SubSeq(stream, 1, received) \o x]
             = Then(Append(requests, r), Meaning(NewParser, rest \o x))
  <2>1. Requests[SubSeq(stream, 1, received) \o x] = Then(requests, Then(<<r>>, Requests[rest \o x]))
    BY <1>3 DEF IInv, StreamMeans, After
  <2>2. rest \o x \in Text
    BY Concat
  <2>3. Requests[rest \o x] \in Outcomes
    BY <2>2, RequestsIs
  <2> DEFINE o == Requests[rest \o x]
  <2>4. o \in Outcomes
    BY <2>3
  <2> HIDE DEF o
  <2> DEFINE q == <<r>>
  <2>5. q \in Seq(Handled) /\ requests \o q = Append(requests, r)
    BY <1>0, <1>1
  <2> HIDE DEF q
  <2>6. Then(requests, Then(q, o)) = Then(requests \o q, o)
    BY <1>1, <2>4, <2>5, ThenThen
  <2>7. Meaning(NewParser, rest \o x) = o
    BY <2>2, NewMeaning DEF o
  <2> QED
    BY <2>1, <2>5, <2>6, <2>7 DEF o, q
<1>6. StreamMeans'
  BY <1>2, <1>5 DEF StreamMeans, After
<1> QED
  BY <1>2, <1>4, <1>6, NewMeaning DEF IInv

\* One that raises keeps it if no more requests were to come.
LEMMA Fails ==
  ASSUME IInv, failed = FALSE, Raised, \A x \in Text : Meaning(preq, data \o x) = Failure
  PROVE  IInv'
<1> USE DEF Raised
<1>1. <<>> \in Text /\ Len(<<>>) = 0
  BY DEF Text
<1>2. TypeOK'
  <2>1. /\ stream \in Streams /\ received \in 0..Len(stream) /\ Len(stream) \in Nat
        /\ requests \in Seq(Handled) /\ preq \in Parsers
        /\ (preq.header = <<>>) <=> (preq.body_rcv = "none")
    BY Types DEF IInv, Text
  <2> QED
    BY <1>1, <2>1, TypesNext
<1>3. StreamMeans'
  BY DEF IInv, StreamMeans, After
<1> QED
  BY <1>2, <1>3 DEF IInv

-----------------------------------------------------------------------------
(* The turns of the loop.                                                  *)

\* A step of the loop has data and an open channel.
LEMMA Turn ==
  ASSUME IInv, data # <<>>
  PROVE  /\ failed = FALSE /\ preq \in Parsers /\ Waiting(preq) /\ data \in Text /\ Len(data) \in Nat
         /\ Len(<<>>) <= Len(data) /\ <<>> \in Text
         /\ \A x \in Text : <<>> \o x = x
<1>1. preq \in Parsers /\ Waiting(preq) /\ data \in Text /\ failed = FALSE
  BY Types DEF IInv
<1> QED
  BY <1>1, ConcatNothing DEF Text

\* A parser that has just parsed a header.
Fresh(q, h, rcv, length) ==
  /\ q \in Parsers /\ q.header_plus = <<>> /\ q.header = h /\ q.body_rcv = rcv /\ q.remain = length
  /\ q.chunk_remainder = 0 /\ q.control_line = <<>> /\ q.all_chunks_received = FALSE
  /\ q.trailer = <<>> /\ q.buf = <<>>

\* HeaderFinished makes such parsers.
LEMMA FreshIs ==
  ASSUME NEW h \in Text, NEW length \in Nat
  PROVE  LET p == [NewParser EXCEPT !.header = h]
         IN  /\ Fresh([p EXCEPT !.body_rcv = "chunked"], h, "chunked", 0)
             /\ Fresh([p EXCEPT !.body_rcv = "fixed", !.remain = length], h, "fixed", length)
<1> DEFINE n == NewParser
           p == [n EXCEPT !.header = h]
<1>1. /\ n \in Parsers /\ n.header_plus = <<>> /\ n.remain = 0
      /\ n.chunk_remainder = 0 /\ n.control_line = <<>> /\ n.all_chunks_received = FALSE
      /\ n.trailer = <<>> /\ n.buf = <<>>
  BY NewMeaning DEF NewParser
<1> HIDE DEF n
<1>2. /\ p \in Parsers /\ p.header_plus = <<>> /\ p.header = h /\ p.remain = 0
      /\ p.chunk_remainder = 0 /\ p.control_line = <<>> /\ p.all_chunks_received = FALSE
      /\ p.trailer = <<>> /\ p.buf = <<>>
  BY <1>1 DEF Parsers
<1> HIDE DEF p
<1>3. Fresh([p EXCEPT !.body_rcv = "chunked"], h, "chunked", 0)
  BY <1>2 DEF Fresh, Parsers
<1>4. Fresh([p EXCEPT !.body_rcv = "fixed", !.remain = length], h, "fixed", length)
  BY <1>2 DEF Fresh, Parsers
<1> QED
  BY <1>3, <1>4 DEF p, n

\* What it makes of the body behind the header.
LEMMA FreshChunked ==
  ASSUME NEW header \in Text, header # <<>>, Chunked(header), NEW q, Fresh(q, header, "chunked", 0)
  PROVE  /\ q \in Parsers /\ Waiting(q)
         /\ \A y \in Text : Meaning(q, y) = Outcome(header, BodyOf(header, y))
<1>1. <<>> \in Text
  BY DEF Text
<1>3. q \in Parsers /\ Waiting(q)
  BY <1>1, NothingEnds DEF Fresh, Waiting
<1>4. ASSUME NEW y \in Text PROVE Meaning(q, y) = Outcome(header, BodyOf(header, y))
  <2>1. Meaning(q, y) = Outcome(header, With(<<>>, ChunkedBodyOf[<<>> \o y]))
    BY DEF Fresh, Meaning, BodyMeaning
  <2>2. <<>> \o y = y
    BY ConcatNothing
  <2>3. With(<<>>, ChunkedBodyOf[y]) = ChunkedBodyOf[y]
    BY ChunkedIs, WithNothing
  <2> QED
    BY <2>1, <2>2, <2>3 DEF BodyOf
<1> QED
  BY <1>3, <1>4

\* The same for a body of a known length.
LEMMA FreshFixed ==
  ASSUME NEW header \in Text, header # <<>>, ~Chunked(header), ContentLength(header) > 0,
         NEW q, Fresh(q, header, "fixed", ContentLength(header))
  PROVE  /\ q \in Parsers /\ Waiting(q)
         /\ \A y \in Text : Meaning(q, y) = Outcome(header, BodyOf(header, y))
<1>1. <<>> \in Text /\ ContentLength(header) \in Nat
  BY LengthType DEF Text
<1>3. q \in Parsers /\ Waiting(q)
  BY <1>1, NothingEnds DEF Fresh, Waiting
<1>4. ASSUME NEW y \in Text PROVE Meaning(q, y) = Outcome(header, BodyOf(header, y))
  <2>1. Meaning(q, y) = Outcome(header, With(<<>>, FixedBodyOf(y, ContentLength(header))))
    BY DEF Fresh, Meaning, BodyMeaning
  <2>2. With(<<>>, FixedBodyOf(y, ContentLength(header))) = FixedBodyOf(y, ContentLength(header))
    BY <1>1, FixedIs, WithNothing
  <2> QED
    BY <2>1, <2>2 DEF BodyOf
<1> QED
  BY <1>3, <1>4

\* Without a body, the request is complete.
LEMMA FreshNone ==
  ASSUME NEW header \in Text, ~Chunked(header), ~(ContentLength(header) > 0), NEW y \in Text
  PROVE  Outcome(header, BodyOf(header, y)) = Then(<<[header |-> header, body |-> <<>>]>>, Requests[y])
<1>1. <<>> \in Text /\ ContentLength(header) = 0 /\ Len(y) \in Nat
  BY LengthType DEF Text
<1>2. SubSeq(y, 1, 0) = <<>> /\ From(y, 1) = y
  BY DEF Text, From
<1>3. FixedBodyOf(y, 0) = Whole(<<>>, y)
  <2>1. ~(Len(y) < 0)
    BY <1>1
  <2>2. FixedBodyOf(y, 0) = Whole(SubSeq(y, 1, 0), From(y, 0 + 1))
    BY <2>1 DEF FixedBodyOf
  <2>3. 0 + 1 = 1
    OBVIOUS
  <2>4. From(y, 0 + 1) = y
    BY <1>2, <2>3
  <2> QED
    BY <1>2, <2>2, <2>4
<1>4. BodyOf(header, y) = Whole(<<>>, y)
  BY <1>1, <1>3 DEF BodyOf
<1> QED
  BY <1>1, <1>4, OutcomeIs

\* The header: unfinished, blank lines, one that raises, and a finished one.
LEMMA HeaderStep == ASSUME IInv, ReceivedHeader PROVE IInv'
<1> DEFINE h == preq.header_plus
           s == h \o data
           end == find_double_newline(s)
           header == lstrip(SubSeq(s, 1, end))
           rest == Behind(s, end)
<1>1. HeaderUnfinished(s, end) \/ BlankLines(s, end, header) \/ BadHeader(end, header) \/ HeaderFinished(s, end, header)
  BY DEF ReceivedHeader
<1>2. data # <<>> /\ preq.body_rcv = "none"
  BY <1>1 DEF HeaderUnfinished, BlankLines, BadHeader, HeaderFinished, InHeader
<1>3. /\ failed = FALSE /\ preq \in Parsers /\ Waiting(preq) /\ data \in Text /\ Len(data) \in Nat
      /\ Len(<<>>) <= Len(data) /\ <<>> \in Text
  BY <1>2, Turn
<1>4. \A x \in Text : <<>> \o x = x
  BY ConcatNothing
<1>5. h \in Text /\ HeaderEnds(h) = {}
  BY <1>3 DEF Parsers, Waiting
<1>6. s \in Text /\ Joined(h, data, s)
  BY <1>3, <1>5, Concat DEF Joined
<1>7. end = find_double_newline(s) /\ header = lstrip(SubSeq(s, 1, end)) /\ rest = Behind(s, end)
  OBVIOUS
<1>8. rest = From(data, Len(data) - (Len(s) - end) + 1)
  BY DEF Behind
<1>9. \A x \in Text : Meaning(preq, data \o x) = Requests[h \o (data \o x)]
  BY <1>2 DEF Meaning
<1> HIDE DEF h, s, end, header, rest
<1>10. end # 0 => header \in Text /\ rest \in Text /\ Len(rest) <= Len(data)
  BY <1>3, <1>5, <1>6, <1>7, <1>8, HeaderRead
<1>11. ASSUME end # 0, NEW x \in Text
       PROVE  Meaning(preq, data \o x) = IF header = <<>> THEN Requests[rest \o x]
                                         ELSE IF Raises(header) THEN Failure
                                         ELSE Outcome(header, BodyOf(header, rest \o x))
  <2>1. Requests[h \o (data \o x)] = IF header = <<>> THEN Requests[rest \o x]
                                     ELSE IF Raises(header) THEN Failure
                                     ELSE Outcome(header, BodyOf(header, rest \o x))
    BY <1>3, <1>5, <1>6, <1>7, <1>8, <1>11, HeaderRead
  <2> QED
    BY <1>9, <2>1
<1>12. \A x \in Text : rest \in Text => rest \o x \in Text
  BY Concat
<1>13. CASE HeaderUnfinished(s, end)
  <2> DEFINE q == [preq EXCEPT !.header_plus = s]
  <2>1. end = 0 /\ GoOn(q, <<>>)
    BY <1>13 DEF HeaderUnfinished, Pending, GoOn
  <2>2. HeaderEnds(s) = {}
    BY <1>3, <1>5, <1>6, <1>7, <2>1, HeaderFound DEF Joined
  <2>3. q \in Parsers /\ Waiting(q) /\ q.header_plus = s /\ q.body_rcv = "none"
    BY <1>2, <1>3, <1>6, <2>2 DEF Parsers, Waiting
  <2> HIDE DEF q
  <2>4. ASSUME NEW x \in Text PROVE Meaning(preq, data \o x) = Meaning(q, <<>> \o x)
    <3>1. h \o (data \o x) = s \o x
      BY SMTT(30), <1>3, <1>5, <1>6, JoinedMore
    <3>2. Meaning(q, x) = Requests[s \o x]
      BY <2>3 DEF Meaning
    <3> QED
      BY <1>4, <1>9, <3>1, <3>2
  <2> QED
    BY <1>3, <2>1, <2>3, <2>4, GoesOn
<1>14. CASE BlankLines(s, end, header)
  <2>1. end # 0 /\ header = <<>> /\ GoOn(NewParser, rest)
    BY <1>7, <1>14 DEF BlankLines
  <2>2. ASSUME NEW x \in Text PROVE Meaning(preq, data \o x) = Meaning(NewParser, rest \o x)
    BY <1>10, <1>11, <1>12, <2>1, NewMeaning
  <2> QED
    BY <1>3, <1>10, <2>1, <2>2, NewMeaning, GoesOn
<1>15. CASE BadHeader(end, header)
  <2>1. end # 0 /\ header # <<>> /\ Raises(header) /\ Raised
    BY <1>15 DEF BadHeader
  <2>2. \A x \in Text : Meaning(preq, data \o x) = Failure
    BY <1>11, <2>1
  <2> QED
    BY <1>3, <2>1, <2>2, Fails
<1>16. CASE HeaderFinished(s, end, header)
  <2> DEFINE p == [NewParser EXCEPT !.header = header]
  <2>1. end # 0 /\ header # <<>> /\ ~Raises(header)
    BY <1>16 DEF HeaderFinished
  <2>2. ASSUME NEW x \in Text
        PROVE  /\ Meaning(preq, data \o x) = Outcome(header, BodyOf(header, rest \o x))
               /\ rest \o x \in Text
    BY <1>10, <1>11, <1>12, <2>1
  <2>3. CASE Chunked(header)
    <3> DEFINE q == [p EXCEPT !.body_rcv = "chunked"]
    <3>1. GoOn(q, rest)
      BY <1>7, <1>16, <2>3 DEF HeaderFinished
    <3>4. Fresh(q, header, "chunked", 0)
      BY <1>10, <2>1, FreshIs, LengthType
    <3> HIDE DEF q
    <3>2. q \in Parsers /\ Waiting(q) /\ \A y \in Text : Meaning(q, y) = Outcome(header, BodyOf(header, y))
      BY <1>10, <2>1, <2>3, <3>4, FreshChunked
    <3>3. ASSUME NEW x \in Text PROVE Meaning(preq, data \o x) = Meaning(q, rest \o x)
      BY <2>2, <3>2
    <3> QED
      BY <1>3, <1>10, <2>1, <3>1, <3>2, <3>3, GoesOn
  <2>4. CASE ~Chunked(header) /\ ContentLength(header) > 0
    <3> DEFINE q == [p EXCEPT !.body_rcv = "fixed", !.remain = ContentLength(header)]
    <3>1. GoOn(q, rest)
      BY <1>7, <1>16, <2>4 DEF HeaderFinished
    <3>4. Fresh(q, header, "fixed", ContentLength(header))
      BY <1>10, <2>1, FreshIs, LengthType
    <3> HIDE DEF q
    <3>2. q \in Parsers /\ Waiting(q) /\ \A y \in Text : Meaning(q, y) = Outcome(header, BodyOf(header, y))
      BY <1>10, <2>1, <2>4, <3>4, FreshFixed
    <3>3. ASSUME NEW x \in Text PROVE Meaning(preq, data \o x) = Meaning(q, rest \o x)
      BY <2>2, <3>2
    <3> QED
      BY <1>3, <1>10, <2>1, <3>1, <3>2, <3>3, GoesOn
  <2>5. CASE ~Chunked(header) /\ ~(ContentLength(header) > 0)
    <3>1. Completed(header, <<>>, rest)
      BY <1>7, <1>16, <2>5 DEF HeaderFinished
    <3>2. ASSUME NEW x \in Text
          PROVE  Meaning(preq, data \o x) = Then(<<[header |-> header, body |-> <<>>]>>, Requests[rest \o x])
      BY <1>10, <2>1, <2>2, <2>5, FreshNone
    <3> QED
      BY <1>3, <1>10, <2>1, <3>1, <3>2, Completes
  <2> QED
    BY <2>3, <2>4, <2>5
<1> QED
  BY <1>1, <1>13, <1>14, <1>15, <1>16

\* A body of a known length that has begun, with more than data to come.
LEMMA FixedMore ==
  ASSUME NEW h \in Text, NEW b \in Text, NEW d \in Text, NEW k \in Nat, NEW x \in Text
  PROVE  Outcome(h, With(b, FixedBodyOf(d \o x, Len(d) + k))) = Outcome(h, With(b \o d, FixedBodyOf(x, k)))
<1> DEFINE n == Len(d) + k
<1>1. Len(d) \in Nat /\ Len(x) \in Nat /\ Len(d \o x) = Len(d) + Len(x)
      /\ d \o x \in Text /\ b \o d \in Text
  BY Concat DEF Text
<1>2. CASE Len(x) < k
  <2>1. FixedBodyOf(d \o x, n) = Partial /\ FixedBodyOf(x, k) = Partial
    BY <1>1, <1>2 DEF FixedBodyOf
  <2>2. With(b, Partial).state = "partial" /\ With(b \o d, Partial).state = "partial"
    BY <1>1, BodyTypes
  <2>3. Outcome(h, With(b, Partial)) = Nothing /\ Outcome(h, With(b \o d, Partial)) = Nothing
    BY <2>2, OutcomeIs
  <2> QED
    BY <2>1, <2>3
<1>3. CASE ~(Len(x) < k)
  <2>1. /\ SubSeq(d \o x, 1, Len(d) + k) = d \o SubSeq(x, 1, k)
        /\ From(d \o x, Len(d) + k + 1) = From(x, k + 1)
        /\ SubSeq(x, 1, k) \in Text /\ From(x, k + 1) \in Text
    <3>1. k <= Len(x)
      BY <1>1, <1>3
    <3> QED
      BY <3>1, Past
  <2> DEFINE c == SubSeq(x, 1, k)
             r == From(x, k + 1)
  <2>2. FixedBodyOf(x, k) = Whole(c, r)
    BY <1>3 DEF FixedBodyOf
  <2>3. FixedBodyOf(d \o x, n) = Whole(d \o c, r)
    <3>1. ~(Len(d \o x) < n)
      BY <1>1, <1>3
    <3>2. SubSeq(d \o x, 1, n) = d \o c /\ From(d \o x, n + 1) = r
      BY <2>1
    <3> QED
      BY <3>1, <3>2 DEF FixedBodyOf
  <2>4. c \in Text /\ r \in Text
    BY <2>1
  <2> HIDE DEF c, r
  <2>5. b \o (d \o c) = (b \o d) \o c
    BY <2>4, ConcatAssociates, SMTT(40)
  <2>7. d \o c \in Text
    BY <2>4, Concat
  <2>6. With(b, Whole(d \o c, r)) = Whole(b \o (d \o c), r)
    BY <2>4, <2>7, WithWhole
  <2>8. With(b \o d, Whole(c, r)) = Whole((b \o d) \o c, r)
    BY <1>1, <2>4, WithWhole
  <2> QED
    BY <2>2, <2>3, <2>5, <2>6, <2>8
<1> QED
  BY <1>2, <1>3

\* A body of a known length: all of it has come, or more of it is to come.
LEMMA FixedStep == ASSUME IInv, FixedBody PROVE IInv'
<1> DEFINE n == preq.remain
           b == preq.buf
           h == preq.header
<1>1. data # <<>> /\ preq.body_rcv = "fixed"
  BY DEF FixedBody
<1>2. /\ failed = FALSE /\ preq \in Parsers /\ Waiting(preq) /\ data \in Text /\ Len(data) \in Nat
      /\ Len(<<>>) <= Len(data) /\ <<>> \in Text
  BY <1>1, Turn
<1>3. n \in Nat /\ n > 0 /\ b \in Text /\ h \in Text
  BY <1>1, <1>2 DEF Parsers, Waiting
<1>4. \A y : Meaning(preq, y) = Outcome(h, With(b, FixedBodyOf(y, n)))
  BY <1>1 DEF Meaning, BodyMeaning
<1>5. CASE Enough(Len(data))
  <2> DEFINE rest == From(data, n + 1)
             part == SubSeq(data, 1, n)
             body == b \o part
  <2>1. n <= Len(data)
    BY <1>5 DEF Enough
  <2>2. Completed(h, body, rest)
    BY <1>5 DEF FixedBody
  <2>3. part \in Text /\ rest \in Text /\ Len(rest) = Len(data) - n
    BY <1>2, <1>3, <2>1, FirstConcat, FromIs, ConcatNothing
  <2>4. Len(rest) <= Len(data) /\ body \in Text
    <3>1. Len(rest) <= Len(data)
      BY <1>2, <1>3, <2>3
    <3> HIDE DEF b, part
    <3>2. body \in Text
      BY <1>3, <2>3, Concat
    <3> QED
      BY <3>1, <3>2
  <2>5. ASSUME NEW x \in Text
        PROVE  Meaning(preq, data \o x) = Then(<<[header |-> h, body |-> body]>>, Requests[rest \o x])
    <3>1. SubSeq(data \o x, 1, n) = part /\ From(data \o x, n + 1) = rest \o x
      <4>1. SubSeq(data \o x, 1, n) = part
        BY <1>2, <1>3, <2>1, FirstConcat
      <4>2. From(data \o x, n + 1) = rest \o x
        BY <1>2, <1>3, <2>1, FromConcat
      <4> QED
        BY <4>1, <4>2
    <3>2. rest \o x \in Text /\ Len(data \o x) = Len(data) + Len(x) /\ Len(x) \in Nat
      BY <1>2, <2>3, Concat
    <3>3. FixedBodyOf(data \o x, n) = Whole(part, rest \o x)
      <4>1. ~(Len(data \o x) < n)
        BY <1>2, <1>3, <2>1, <3>2
      <4> HIDE DEF n, rest, part
      <4> QED
        BY <3>1, <4>1 DEF FixedBodyOf
    <3> HIDE DEF n, b, h, rest, part
    <3>4. With(b, Whole(part, rest \o x)) = Whole(b \o part, rest \o x)
      BY <1>3, <2>3, <3>2, WithWhole
    <3>5. Outcome(h, Whole(body, rest \o x)) = Then(<<[header |-> h, body |-> body]>>, Requests[rest \o x])
      BY <1>3, <2>4, <3>2, OutcomeIs
    <3> QED
      BY <1>4, <3>3, <3>4, <3>5
  <2> HIDE DEF n, b, h, rest, body
  <2> QED
    BY <1>2, <1>3, <2>2, <2>3, <2>4, <2>5, Completes
<1>6. CASE ~Enough(Len(data))
  <2> DEFINE k == n - Len(data)
             c == b \o data
             q == [preq EXCEPT !.buf = c, !.remain = k]
  <2>1. Len(data) < n
    BY <1>2, <1>3, <1>6 DEF Enough
  <2>2. GoOn(q, <<>>)
    BY <1>6 DEF FixedBody, Pending, GoOn
  <2>3. k \in Nat /\ k > 0 /\ n = Len(data) + k /\ c \in Text
    <3>1. k \in Nat /\ k > 0 /\ n = Len(data) + k
      BY <1>2, <1>3, <2>1
    <3> HIDE DEF b
    <3>2. c \in Text
      BY <1>2, <1>3, Concat
    <3> QED
      BY <3>1, <3>2
  <2> HIDE DEF k, c
  <2>4. q \in Parsers /\ q.buf = c /\ q.remain = k /\ q.body_rcv = "fixed" /\ q.header = h
    BY <1>1, <1>2, <2>3 DEF Parsers
  <2>5. Waiting(q)
    BY <1>1, <1>2, <2>3 DEF Waiting, Parsers
  <2> HIDE DEF q
  <2>6. \A y : Meaning(q, y) = Outcome(h, With(c, FixedBodyOf(y, k)))
    BY <2>4 DEF Meaning, BodyMeaning
  <2>7. ASSUME NEW x \in Text PROVE Meaning(preq, data \o x) = Meaning(q, <<>> \o x)
    <3> HIDE DEF n, b, h
    <3>1. Outcome(h, With(b, FixedBodyOf(data \o x, n))) = Outcome(h, With(c, FixedBodyOf(x, k)))
      <4>1. Outcome(h, With(b, FixedBodyOf(data \o x, Len(data) + k))) = Outcome(h, With(b \o data, FixedBodyOf(x, k)))
        BY <1>2, <1>3, <2>3, FixedMore
      <4> QED
        BY <2>3, <4>1 DEF c
    <3>2. <<>> \o x = x
      BY ConcatNothing
    <3> QED
      BY <1>4, <2>6, <3>1, <3>2
  <2> QED
    BY <1>2, <2>2, <2>4, <2>5, <2>7, GoesOn
<1> QED
  BY <1>5, <1>6

\* A chunk that has begun, with more than data to come.
LEMMA ChunkMore ==
  ASSUME NEW b \in Text, NEW d \in Text, NEW k \in Nat, NEW x \in Text
  PROVE  ChunkBody(b, d \o x, Len(d) + k) = ChunkBody(b \o d, x, k)
<1> DEFINE n == Len(d) + k
<1>1. Len(d) \in Nat /\ Len(x) \in Nat /\ Len(d \o x) = Len(d) + Len(x)
      /\ d \o x \in Text /\ b \o d \in Text
  BY Concat DEF Text
<1>2. CASE Len(x) < k
  <2>1. ChunkBody(b, d \o x, n) = Partial /\ ChunkBody(b \o d, x, k) = Partial
    BY <1>1, <1>2 DEF ChunkBody
  <2> QED
    BY <2>1
<1>3. CASE ~(Len(x) < k)
  <2>1. /\ SubSeq(d \o x, 1, Len(d) + k) = d \o SubSeq(x, 1, k)
        /\ From(d \o x, Len(d) + k + 1) = From(x, k + 1)
        /\ SubSeq(x, 1, k) \in Text /\ From(x, k + 1) \in Text
    <3>1. k <= Len(x)
      BY <1>1, <1>3
    <3> QED
      BY <3>1, Past
  <2> DEFINE c == SubSeq(x, 1, k)
             r == From(x, k + 1)
  <2>2. ChunkBody(b \o d, x, k) = With((b \o d) \o c, ChunkedBodyOf[r])
    BY <1>3 DEF ChunkBody
  <2>3. ChunkBody(b, d \o x, n) = With(b \o (d \o c), ChunkedBodyOf[r])
    <3>1. ~(Len(d \o x) < n)
      BY <1>1, <1>3
    <3>2. SubSeq(d \o x, 1, n) = d \o c /\ From(d \o x, n + 1) = r
      BY <2>1
    <3> QED
      BY <3>1, <3>2 DEF ChunkBody
  <2>4. c \in Text
    BY <2>1
  <2> HIDE DEF c, r
  <2>5. b \o (d \o c) = (b \o d) \o c
    BY <2>4, ConcatAssociates
  <2> QED
    BY <2>2, <2>3, <2>5
<1> QED
  BY <1>2, <1>3

\* In a chunk: all of it has come, or more of it is to come.
LEMMA ChunkDataStep == ASSUME IInv, ChunkData PROVE IInv'
<1> DEFINE n == preq.chunk_remainder
           b == preq.buf
           h == preq.header
           w == Written
           part == SubSeq(data, 1, w)
           c == b \o part
           k == n - w
           rest == From(data, w + 1)
           q == [preq EXCEPT !.buf = c, !.chunk_remainder = k]
<1>1. data # <<>> /\ preq.body_rcv = "chunked" /\ n > 0 /\ GoOn(q, rest)
  BY DEF ChunkData, InChunks
<1>2. /\ failed = FALSE /\ preq \in Parsers /\ Waiting(preq) /\ data \in Text /\ Len(data) \in Nat
      /\ Len(<<>>) <= Len(data) /\ <<>> \in Text
  BY <1>1, Turn
<1>3. n \in Nat /\ b \in Text /\ h \in Text /\ preq.all_chunks_received = FALSE /\ preq.control_line = <<>>
  BY <1>1, <1>2 DEF Parsers, Waiting
<1>4. \A y : Meaning(preq, y) = Outcome(h, ChunkBody(b, y, n))
  BY <1>1 DEF Meaning, BodyMeaning
<1>5. w = IF n <= Len(data) THEN n ELSE Len(data)
  <2>1. w \in {n, Len(data)} /\ w <= n /\ w <= Len(data)
    <3> DEFINE S == {n, Len(data)}
    <3>1. w = Min(S) /\ S \subseteq Nat /\ S # {}
      BY <1>2, <1>3 DEF Written
    <3>2. n \in S /\ Len(data) \in S
      OBVIOUS
    <3> HIDE DEF w, n, S
    <3>3. w \in S /\ \A y \in S : w <= y
      BY <3>1, Least
    <3> QED
      BY <3>2, <3>3 DEF S
  <2> QED
    BY <1>2, <1>3, <2>1
<1>6. w \in Nat /\ w <= Len(data) /\ w <= n /\ k \in Nat
  BY <1>2, <1>3, <1>5
<1> HIDE DEF w
<1>7. part \in Text /\ rest \in Text /\ Len(rest) = Len(data) - w
  BY <1>2, <1>6, FirstConcat, FromIs, ConcatNothing
<1>8. Len(rest) <= Len(data)
  BY <1>2, <1>6, <1>7
<1>9. c \in Text
  <2> HIDE DEF b, part
  <2> QED
    BY <1>3, <1>7, Concat
<1> HIDE DEF k, c
<1>10. /\ q \in Parsers /\ q.buf = c /\ q.chunk_remainder = k /\ q.body_rcv = "chunked" /\ q.header = h
       /\ q.all_chunks_received = FALSE /\ q.control_line = <<>>
  BY <1>1, <1>2, <1>3, <1>6, <1>9 DEF Parsers
<1>11. Waiting(q)
  BY <1>1, <1>2, <1>3, <1>6, <1>9 DEF Waiting, Parsers
<1> HIDE DEF q, n, b, h, rest
<1>12. ASSUME NEW x \in Text PROVE Meaning(preq, data \o x) = Meaning(q, rest \o x)
  <2>1. /\ SubSeq(data \o x, 1, w) = part /\ From(data \o x, w + 1) = rest \o x
        /\ Len(data \o x) = Len(data) + Len(x) /\ Len(x) \in Nat
    <3>1. SubSeq(data \o x, 1, w) = part
      BY <1>2, <1>6, FirstConcat
    <3>2. From(data \o x, w + 1) = rest \o x
      BY <1>2, <1>6, FromConcat DEF rest
    <3>3. Len(data \o x) = Len(data) + Len(x) /\ Len(x) \in Nat
      BY <1>2, Concat
    <3> QED
      BY <3>1, <3>2, <3>3
  <2>2. CASE n <= Len(data)
    <3>1. w = n /\ k = 0
      BY <1>3, <1>5, <1>6, <2>2 DEF k
    <3>2. Meaning(q, rest \o x) = Outcome(h, With(c, ChunkedBodyOf[<<>> \o (rest \o x)]))
      BY <1>10, <3>1 DEF Meaning, BodyMeaning
    <3>3. rest \o x \in Text
      BY <1>7, Concat
    <3>4. <<>> \o (rest \o x) = rest \o x
      BY <3>3, ConcatNothing
    <3>5. ~(Len(data \o x) < n)
      BY <1>2, <1>3, <2>1, <2>2
    <3>6. ChunkBody(b, data \o x, n) = With(c, ChunkedBodyOf[rest \o x])
      BY <2>1, <3>1, <3>5 DEF ChunkBody, c
    <3> QED
      BY <1>4, <3>2, <3>4, <3>6
  <2>3. CASE ~(n <= Len(data))
    <3>1. w = Len(data) /\ k > 0 /\ n = Len(data) + k
      BY <1>2, <1>3, <1>5, <1>6, <2>3 DEF k
    <3>2. part = data /\ rest = <<>>
      BY <1>2, <3>1 DEF rest, Text, From
    <3>3. Meaning(q, x) = Outcome(h, ChunkBody(b \o data, x, k))
      BY <1>10, <3>1, <3>2 DEF Meaning, BodyMeaning, c
    <3>4. ChunkBody(b, data \o x, Len(data) + k) = ChunkBody(b \o data, x, k)
      BY <1>2, <1>3, <1>6, ChunkMore
    <3>5. rest \o x = x
      BY <3>2, ConcatNothing
    <3> QED
      BY <1>4, <3>1, <3>3, <3>4, <3>5
  <2> QED
    BY <2>2, <2>3
<1> QED
  BY <1>1, <1>2, <1>7, <1>8, <1>10, <1>11, <1>12, GoesOn

\* The data of a chunk that begins in y, behind the data b.
LEMMA ChunkBegins ==
  ASSUME NEW h, NEW b \in Text, NEW y \in Text, NEW n \in Nat
  PROVE  Outcome(h, With(b, IF Len(y) < n THEN Partial
                            ELSE With(SubSeq(y, 1, n), ChunkedBodyOf[From(y, n + 1)])))
         = Outcome(h, ChunkBody(b, y, n))
<1>1. Len(y) \in Nat
  BY DEF Text
<1>2. CASE Len(y) < n
  <2>1. With(b, Partial).state = "partial" /\ Partial.state = "partial"
    BY BodyTypes
  <2>2. Outcome(h, With(b, Partial)) = Nothing /\ Outcome(h, Partial) = Nothing
    BY <2>1, OutcomeIs
  <2> QED
    BY <1>2, <2>2 DEF ChunkBody
<1>3. CASE ~(Len(y) < n)
  <2> DEFINE d == SubSeq(y, 1, n)
             r == From(y, n + 1)
  <2>1. n <= Len(y)
    BY <1>1, <1>3
  <2>2. d \in Text /\ r \in Text
    BY <2>1, FirstConcat, FromIs, ConcatNothing
  <2>3. ChunkBody(b, y, n) = With(b \o d, ChunkedBodyOf[r])
    BY <1>3 DEF ChunkBody
  <2> HIDE DEF d, r
  <2>4. With(b, With(d, ChunkedBodyOf[r])) = With(b \o d, ChunkedBodyOf[r])
    BY <2>2, ChunkedIs, WithWith
  <2> QED
    BY <1>3, <2>3, <2>4 DEF d, r
<1> QED
  BY <1>2, <1>3

\* A control line: unfinished, one that is a size or blank, and one that is not.
LEMMA ControlStep == ASSUME IInv, ReceivedControl PROVE IInv'
<1> DEFINE l == preq.control_line
           b == preq.buf
           h == preq.header
           s == l \o data
           pos == find(s, "n")
           line == strip(SubSeq(s, 1, pos - 1))
           rest == From(s, pos + 1)
           size == IF line = <<>> THEN 0 ELSE Hex(Size(line))
           last == line # <<>> /\ size = 0
           q == [preq EXCEPT !.control_line = <<>>, !.chunk_remainder = size, !.all_chunks_received = last]
<1>1. ControlUnfinished(s) \/ ControlLine(s, pos, line) \/ BadControlLine(pos, line)
  BY DEF ReceivedControl
<1>2. /\ data # <<>> /\ preq.body_rcv = "chunked" /\ preq.chunk_remainder = 0
      /\ ~preq.all_chunks_received
  BY <1>1 DEF ControlUnfinished, ControlLine, BadControlLine, InControl, InChunks
<1>3. /\ failed = FALSE /\ preq \in Parsers /\ Waiting(preq) /\ data \in Text /\ Len(data) \in Nat
      /\ Len(<<>>) <= Len(data) /\ <<>> \in Text
  BY <1>2, Turn
<1>4. l \in Text /\ LineEnds(l) = {} /\ b \in Text /\ h \in Text /\ preq.trailer = <<>>
  BY <1>2, <1>3 DEF Parsers, Waiting
<1>5. s \in Text /\ Joined(l, data, s)
  BY <1>3, <1>4, Concat DEF Joined
<1>6. \A y : Meaning(preq, y) = Outcome(h, With(b, ChunkedBodyOf[l \o y]))
  BY <1>2 DEF Meaning, BodyMeaning
<1>7. pos = find(s, "n") /\ line = strip(SubSeq(s, 1, pos - 1)) /\ rest = From(s, pos + 1)
  OBVIOUS
<1>8. ControlUnfinished(s) => pos = 0 /\ GoOn([preq EXCEPT !.control_line = s], <<>>)
  BY DEF ControlUnfinished, Pending, GoOn
<1>9. ControlLine(s, pos, line) => pos # 0 /\ (line = <<>> \/ IsHex(Size(line))) /\ GoOn(q, rest)
  BY DEF ControlLine
<1>10. BadControlLine(pos, line) => pos # 0 /\ line # <<>> /\ ~IsHex(Size(line)) /\ Raised
  BY DEF BadControlLine
<1>11. size = IF line = <<>> THEN 0 ELSE Hex(Size(line))
  OBVIOUS
<1>12. last \in BOOLEAN /\ (last <=> line # <<>> /\ size = 0)
  OBVIOUS
<1> HIDE DEF l, b, h, s, pos, line, rest, size, last
<1>18. data \in Text /\ l \in Text /\ LineEnds(l) = {} /\ s \in Text /\ Joined(l, data, s)
  BY <1>3, <1>4, <1>5
<1>13. pos # 0 => line \in Text /\ rest \in Text /\ Len(rest) <= Len(data)
  BY <1>3, <1>4, <1>5, <1>7, ControlRead
<1>14. ASSUME pos # 0, NEW x \in Text
       PROVE  ChunkedBodyOf[l \o (data \o x)] =
                IF line = <<>> THEN ChunkedBodyOf[rest \o x]
                ELSE IF ~IsHex(Size(line)) THEN Bad
                ELSE IF Hex(Size(line)) = 0 THEN LastOf(rest \o x)
                ELSE IF Len(rest \o x) < Hex(Size(line)) THEN Partial
                ELSE With(SubSeq(rest \o x, 1, Hex(Size(line))),
                          ChunkedBodyOf[From(rest \o x, Hex(Size(line)) + 1)])
  BY <1>7, <1>14, <1>18, ControlRead
<1>15. CASE ControlUnfinished(s)
  <2> DEFINE p == [preq EXCEPT !.control_line = s]
  <2>1. pos = 0 /\ GoOn(p, <<>>)
    BY <1>8, <1>15
  <2>2. LineEnds(s) = {}
    BY <1>3, <1>4, <1>5, <1>7, <2>1, LineFound DEF Joined
  <2>3. /\ p \in Parsers /\ p.control_line = s /\ p.body_rcv = "chunked" /\ p.buf = b /\ p.header = h
        /\ p.chunk_remainder = 0 /\ ~p.all_chunks_received
    BY <1>2, <1>3, <1>5 DEF Parsers, b, h
  <2>4. Waiting(p)
    BY <1>2, <1>3, <1>5, <2>2 DEF Parsers, Waiting
  <2> HIDE DEF p
  <2>5. ASSUME NEW x \in Text PROVE Meaning(preq, data \o x) = Meaning(p, <<>> \o x)
    <3>1. l \o (data \o x) = s \o x
      BY SMTT(30), <1>18, JoinedMore
    <3>2. Meaning(p, x) = Outcome(h, With(b, ChunkedBodyOf[s \o x]))
      BY <2>3 DEF Meaning, BodyMeaning
    <3>3. <<>> \o x = x
      BY ConcatNothing
    <3> QED
      BY <1>6, <3>1, <3>2, <3>3
  <2> QED
    BY <1>3, <2>1, <2>3, <2>4, <2>5, GoesOn
<1>16. CASE ControlLine(s, pos, line)
  <2>1. pos # 0 /\ (line = <<>> \/ IsHex(Size(line))) /\ GoOn(q, rest)
    BY <1>9, <1>16
  <2>2. size \in Nat
    BY <1>11, <1>13, <2>1, SizeType, HexType
  <2>3. /\ q \in Parsers /\ q.control_line = <<>> /\ q.body_rcv = "chunked" /\ q.buf = b /\ q.header = h
        /\ q.chunk_remainder = size /\ q.all_chunks_received = last /\ q.trailer = <<>>
    BY <1>2, <1>3, <1>4, <1>12, <2>2 DEF Parsers, b, h
  <2>4. Waiting(q)
    <3>1. q.header_plus = preq.header_plus
      BY <1>3 DEF Parsers
    <3> HIDE DEF q
    <3> QED
      BY <1>2, <1>3, <1>12, <2>2, <2>3, <3>1, NothingEnds DEF Waiting, h
  <2> HIDE DEF q
  <2>5. ASSUME NEW x \in Text PROVE Meaning(preq, data \o x) = Meaning(q, rest \o x)
    <3> DEFINE y == rest \o x
    <3>1. y \in Text /\ <<>> \o y = y
      BY <1>13, <2>1, Concat, ConcatNothing
    <3>2. Meaning(preq, data \o x) = Outcome(h, With(b, ChunkedBodyOf[l \o (data \o x)]))
      BY <1>6
    <3>3. ChunkedBodyOf[l \o (data \o x)] =
            IF line = <<>> THEN ChunkedBodyOf[y]
            ELSE IF ~IsHex(Size(line)) THEN Bad
            ELSE IF Hex(Size(line)) = 0 THEN LastOf(y)
            ELSE IF Len(y) < Hex(Size(line)) THEN Partial
            ELSE With(SubSeq(y, 1, Hex(Size(line))), ChunkedBodyOf[From(y, Hex(Size(line)) + 1)])
      BY <1>14, <2>1
    <3> HIDE DEF y
    <3>4. CASE line = <<>>
      <4>1. size = 0 /\ ~last
        BY <1>11, <1>12, <3>4
      <4>2. Meaning(q, y) = Outcome(h, With(b, ChunkedBodyOf[<<>> \o y]))
        BY <2>3, <4>1 DEF Meaning, BodyMeaning
      <4> QED
        BY <3>1, <3>2, <3>3, <3>4, <4>2 DEF y
    <3>5. CASE line # <<>> /\ size = 0
      <4>1. Hex(Size(line)) = 0 /\ last
        BY <1>11, <1>12, <3>5
      <4>2. Meaning(q, y) = Outcome(h, With(b, LastOf(<<>> \o y)))
        BY <2>3, <3>5, <4>1 DEF Meaning, BodyMeaning
      <4> QED
        BY <2>1, <3>1, <3>2, <3>3, <3>5, <4>1, <4>2 DEF y
    <3>6. CASE line # <<>> /\ size # 0
      <4>1. Hex(Size(line)) = size
        BY <1>11, <3>6
      <4>2. Meaning(q, y) = Outcome(h, ChunkBody(b, y, size))
        BY <2>2, <2>3, <3>6 DEF Meaning, BodyMeaning
      <4>3. ChunkedBodyOf[l \o (data \o x)] =
              IF Len(y) < size THEN Partial ELSE With(SubSeq(y, 1, size), ChunkedBodyOf[From(y, size + 1)])
        BY <2>1, <3>3, <3>6, <4>1
      <4>4. Outcome(h, With(b, IF Len(y) < size THEN Partial
                               ELSE With(SubSeq(y, 1, size), ChunkedBodyOf[From(y, size + 1)])))
            = Outcome(h, ChunkBody(b, y, size))
        BY <1>4, <2>2, <3>1, ChunkBegins
      <4> QED
        BY <3>2, <4>2, <4>3, <4>4 DEF y
    <3> QED
      BY <3>4, <3>5, <3>6
  <2> QED
    BY <1>3, <1>13, <2>1, <2>3, <2>4, <2>5, GoesOn
<1>17. CASE BadControlLine(pos, line)
  <2>1. pos # 0 /\ line # <<>> /\ ~IsHex(Size(line)) /\ Raised
    BY <1>10, <1>17
  <2>2. ASSUME NEW x \in Text PROVE Meaning(preq, data \o x) = Failure
    <3>1. ChunkedBodyOf[l \o (data \o x)] = Bad
      BY <1>14, <2>1
    <3>2. With(b, Bad).state = "bad"
      BY <1>4, BodyTypes
    <3>3. Outcome(h, With(b, Bad)) = Failure
      BY <3>2, OutcomeIs
    <3> QED
      BY <1>6, <3>1, <3>3
  <2> QED
    BY <1>3, <2>1, <2>2, Fails
<1> QED
  BY <1>1, <1>15, <1>16, <1>17

\* The trailer: unfinished, or the end of the request.
LEMMA TrailerStep == ASSUME IInv, Trailer PROVE IInv'
<1> DEFINE t == preq.trailer
           b == preq.buf
           h == preq.header
           s == t \o data
           end == TrailerEnd(s)
           rest == Suffix(data, Len(s) - end)
           q == [preq EXCEPT !.trailer = s]
<1>1. /\ data # <<>> /\ preq.body_rcv = "chunked" /\ preq.chunk_remainder = 0
      /\ preq.all_chunks_received
  BY DEF Trailer, InTrailer, InChunks
<1>2. IF end = 0 THEN GoOn(q, <<>>) ELSE Completed(h, b, rest)
  BY DEF Trailer, Pending, GoOn
<1>3. /\ failed = FALSE /\ preq \in Parsers /\ Waiting(preq) /\ data \in Text /\ Len(data) \in Nat
      /\ Len(<<>>) <= Len(data) /\ <<>> \in Text
  BY <1>1, Turn
<1>4. t \in Text /\ TrailerEnds(t) = {} /\ b \in Text /\ h \in Text
  BY <1>3 DEF Parsers, Waiting
<1>5. s \in Text /\ Joined(t, data, s)
  BY <1>3, <1>4, Concat DEF Joined
<1>6. \A y : Meaning(preq, y) = Outcome(h, With(b, LastOf(t \o y)))
  BY <1>1 DEF Meaning, BodyMeaning
<1>7. end = TrailerEnd(s) /\ rest = Suffix(data, Len(s) - end)
  OBVIOUS
<1> HIDE DEF t, b, h, s, end, rest
<1>8. data \in Text /\ t \in Text /\ TrailerEnds(t) = {} /\ s \in Text /\ Joined(t, data, s)
  BY <1>3, <1>4, <1>5
<1>9. CASE end = 0
  <2>1. TrailerEnds(s) = {}
    BY <1>7, <1>8, <1>9, TrailerFound DEF Joined
  <2>2. /\ q \in Parsers /\ q.trailer = s /\ q.body_rcv = "chunked" /\ q.buf = b /\ q.header = h
        /\ q.chunk_remainder = 0 /\ q.all_chunks_received
    BY <1>1, <1>3, <1>5 DEF Parsers, b, h
  <2>3. Waiting(q)
    BY <1>1, <1>3, <1>5, <2>1 DEF Parsers, Waiting
  <2> HIDE DEF q
  <2>4. ASSUME NEW x \in Text PROVE Meaning(preq, data \o x) = Meaning(q, <<>> \o x)
    <3>1. t \o (data \o x) = s \o x
      BY SMTT(30), <1>8, JoinedMore
    <3>2. Meaning(q, x) = Outcome(h, With(b, LastOf(s \o x)))
      BY <2>2 DEF Meaning, BodyMeaning
    <3>3. <<>> \o x = x
      BY ConcatNothing
    <3> QED
      BY <1>6, <3>1, <3>2, <3>3
  <2> QED
    BY <1>2, <1>3, <1>9, <2>2, <2>3, <2>4, GoesOn
<1>10. CASE end # 0
  <2>1. rest \in Text /\ Len(rest) <= Len(data)
    BY <1>7, <1>8, <1>10, TrailerRead
  <2>2. ASSUME NEW x \in Text
        PROVE  Meaning(preq, data \o x) = Then(<<[header |-> h, body |-> b]>>, Requests[rest \o x])
    <3>1. LastOf(t \o (data \o x)) = Whole(<<>>, rest \o x)
      BY <1>7, <1>8, <1>10, TrailerRead
    <3>2. rest \o x \in Text
      BY <2>1, Concat
    <3>3. With(b, Whole(<<>>, rest \o x)) = Whole(b \o <<>>, rest \o x)
      BY ZenonT(30), <1>3, <1>4, <3>2, WithWhole
    <3>4. b \o <<>> = b
      BY <1>4, ConcatNothing
    <3>5. Outcome(h, Whole(b, rest \o x)) = Then(<<[header |-> h, body |-> b]>>, Requests[rest \o x])
      BY <1>4, <3>2, OutcomeIs
    <3> QED
      BY <1>6, <3>1, <3>3, <3>4, <3>5
  <2> QED
    BY <1>2, <1>3, <1>4, <1>10, <2>1, <2>2, Completes
<1> QED
  BY <1>9, <1>10

\* What recv() returns was to come.
LEMMA RecvStep == ASSUME IInv, NEW n \in 1..Len(stream), Recv(n) PROVE IInv'
<1>1. /\ data = <<>> /\ failed = FALSE /\ stream \in Text /\ stream \in Streams
      /\ received \in 0..Len(stream) /\ preq \in Parsers /\ requests \in Seq(Handled)
      /\ (preq.header = <<>>) <=> (preq.body_rcv = "none")
      /\ Len(stream) \in Nat
  BY Types DEF IInv, Recv, Text
<1> DEFINE r == received
           m == received + n
           w == SubSeq(stream, 1, r)
           d == SubSeq(stream, r + 1, m)
           v == SubSeq(stream, 1, m)
<1>2. r \in Nat /\ m \in Nat /\ r <= m /\ m <= Len(stream) /\ m - r = n /\ n \in Nat /\ r <= Len(stream)
  BY <1>1 DEF Recv
<1>3. /\ data' = d /\ received' = m /\ stream' = stream /\ preq' = preq
      /\ requests' = requests /\ failed' = FALSE
  BY <1>1 DEF Recv
<1> HIDE DEF r, m
<1>4. d \in Text /\ Len(d) = n /\ \A i \in 1..n : d[i] = stream[r + i]
  BY <1>1, <1>2, Part
<1>5. v \in Text /\ Len(v) = m /\ \A i \in 1..m : v[i] = stream[i]
  <2>1. SubSeq(stream, 0 + 1, m) \in Text /\ Len(SubSeq(stream, 0 + 1, m)) = m - 0
        /\ \A i \in 1..m - 0 : SubSeq(stream, 0 + 1, m)[i] = stream[0 + i]
    BY <1>1, <1>2, Part
  <2> QED
    BY <1>1, <1>2, <2>1 DEF Text
<1>6. w \in Text /\ Len(w) = r /\ \A i \in 1..r : w[i] = stream[i]
  <2>1. SubSeq(stream, 0 + 1, r) \in Text /\ Len(SubSeq(stream, 0 + 1, r)) = r - 0
        /\ \A i \in 1..r - 0 : SubSeq(stream, 0 + 1, r)[i] = stream[0 + i]
    BY <1>1, <1>2, Part
  <2> QED
    BY <1>1, <1>2, <2>1 DEF Text
<1> HIDE DEF d, v, w
<1>7. v = w \o d
  <2> DEFINE c == w \o d
  <2>1. c \in Text /\ Len(c) = Len(w) + Len(d) /\ (\A i \in 1..Len(w) : c[i] = w[i])
        /\ \A i \in 1..Len(d) : c[Len(w) + i] = d[i]
    BY <1>4, <1>6, Concat
  <2> HIDE DEF c
  <2>2. Len(v) = Len(c)
    BY <1>2, <1>4, <1>5, <1>6, <2>1
  <2>3. ASSUME NEW i \in 1..Len(v) PROVE v[i] = c[i]
    <3>1. CASE i <= r
      <4>1. i \in 1..r /\ i \in 1..m
        BY <1>2, <1>5, <3>1
      <4> QED
        BY <1>5, <1>6, <2>1, <4>1
    <3>2. CASE i > r
      <4> DEFINE k == i - r
      <4>1. k \in 1..n /\ i = r + k /\ i \in 1..m
        BY <1>2, <1>5, <3>2
      <4> HIDE DEF k
      <4>2. c[r + k] = d[k] /\ d[k] = stream[r + k]
        BY <1>4, <1>6, <2>1, <4>1
      <4> QED
        BY <1>5, <4>1, <4>2
    <3> QED
      BY <1>2, <1>5, <3>1, <3>2
  <2>4. v = c
    BY <1>5, <2>1, <2>2, <2>3, SameText
  <2> QED
    BY <2>4 DEF c
<1>8. ASSUME NEW x \in Text
      PROVE  Requests[v \o x] = Then(requests, Meaning(preq, d \o x))
  <2>1. d \o x \in Text
    BY <1>4, Concat
  <2>2. Requests[w \o (d \o x)] = Then(requests, Meaning(preq, <<>> \o (d \o x)))
    BY <1>1, <2>1 DEF IInv, StreamMeans, After, w, r
  <2>3. w \o (d \o x) = v \o x
    BY <1>4, <1>6, <1>7, ConcatAssociates
  <2>4. <<>> \o (d \o x) = d \o x
    BY <2>1, ConcatNothing
  <2> QED
    BY <2>2, <2>3, <2>4
<1>9. StreamMeans'
  BY <1>3, <1>8 DEF StreamMeans, After, v
<1>10. TypeOK'
  <2>1. m \in 0..Len(stream) /\ Len(d) <= m
    BY <1>1, <1>2, <1>4
  <2> QED
    BY <1>1, <1>3, <1>4, <2>1, TypesNext
<1>11. Waiting(preq)
  BY DEF IInv
<1> QED
  BY <1>3, <1>9, <1>10, <1>11 DEF IInv

\* Nothing was handled of nothing.
LEMMA Beginning == ASSUME Init PROVE IInv
<1>1. stream \in Streams /\ received = 0 /\ data = <<>> /\ preq = NewParser /\ requests = <<>> /\ failed = FALSE
  BY DEF Init
<1>2. stream \in Text /\ <<>> \in Text /\ Len(<<>>) = 0 /\ Len(stream) \in Nat
  BY <1>1, Types DEF Text
<1>3. TypeOK
  <2>1. (NewParser.header = <<>>) <=> (NewParser.body_rcv = "none")
    BY DEF NewParser
  <2>2. <<>> \in Seq(Handled)
    OBVIOUS
  <2>3. received \in 0..Len(stream) /\ data \in Text /\ Len(data) <= received
    BY <1>1, <1>2
  <2>5. preq \in Parsers
    BY <1>1, NewMeaning
  <2>6. requests \in Seq(Handled) /\ failed \in BOOLEAN
    BY <1>1, <2>2
  <2>4. (preq.header = <<>>) <=> (preq.body_rcv = "none")
    BY <1>1, <2>1
  <2> QED
    BY <1>1, <2>3, <2>4, <2>5, <2>6, Types
<1>4. SubSeq(stream, 1, 0) = <<>>
  BY <1>2 DEF Text
<1>5. ASSUME NEW x \in Text PROVE Requests[<<>> \o x] = Then(<<>>, Meaning(NewParser, <<>> \o x))
  <2>1. <<>> \o x = x
    BY ConcatNothing
  <2>2. Meaning(NewParser, x) = Requests[x] /\ Requests[x] \in Outcomes
    BY NewMeaning, RequestsIs
  <2> QED
    BY <2>1, <2>2, ThenNothing
<1>6. StreamMeans
  BY <1>1, <1>4, <1>5 DEF StreamMeans, After
<1> QED
  BY <1>1, <1>3, <1>6, NewMeaning DEF IInv

\* Every step keeps the invariant.
LEMMA Steps == ASSUME IInv, [Next]_vars PROVE IInv'
<1>1. CASE ReceivedHeader
  BY <1>1, HeaderStep
<1>2. CASE FixedBody
  BY <1>2, FixedStep
<1>3. CASE ChunkData
  BY <1>3, ChunkDataStep
<1>4. CASE ReceivedControl
  BY <1>4, ControlStep
<1>5. CASE Trailer
  BY <1>5, TrailerStep
<1>6. CASE \E n \in 1..Len(stream) : Recv(n)
  BY <1>6, RecvStep
<1>7. CASE UNCHANGED vars
  BY <1>7 DEF vars, IInv, TypeOK, StreamMeans, After
<1> QED
  BY <1>1, <1>2, <1>3, <1>4, <1>5, <1>6, <1>7 DEF Next, Receive

\* When all of the data is consumed, nothing more is to be made of it: what the
\* parser keeps back is no request, and what was handled is all there is.
LEMMA AllMade == ASSUME IInv PROVE SplitIndependent
<1> SUFFICES ASSUME data = <<>>
             PROVE  LET whole == Requests[SubSeq(stream, 1, received)]
                    IN  requests = whole.requests /\ failed = whole.failed
  BY DEF SplitIndependent
<1> DEFINE w == SubSeq(stream, 1, received)
<1>1. /\ stream \in Text /\ received \in 0..Len(stream) /\ preq \in Parsers /\ Waiting(preq)
      /\ failed \in BOOLEAN /\ requests \in Seq(Handled) /\ <<>> \in Text /\ Len(<<>>) = 0
  BY Types DEF IInv, Text
<1>2. w \in Text
  BY <1>1, FirstConcat
<1> HIDE DEF w
<1>3. Requests[w] = Then(requests, After(<<>>))
  <2>1. Requests[w \o <<>>] = Then(requests, After(<<>> \o <<>>))
    BY <1>1 DEF IInv, StreamMeans, w
  <2> QED
    BY <1>1, <1>2, <2>1, ConcatNothing
<1>4. CASE failed
  <2>1. After(<<>>) = Failure
    BY <1>4 DEF After
  <2>2. requests \o <<>> = requests
    BY <1>1
  <2>3. Then(requests, Failure) = [requests |-> requests, failed |-> TRUE]
    BY <2>2 DEF Then, Failure
  <2>4. Requests[w].requests = requests /\ Requests[w].failed = TRUE
    BY <1>3, <2>1, <2>3
  <2>5. failed = TRUE
    BY <1>1, <1>4
  <2> QED
    BY <2>4, <2>5 DEF w
<1>5. CASE ~failed
  <2>1. After(<<>>) = Meaning(preq, <<>>)
    BY <1>5 DEF After
  <2>2. Meaning(preq, <<>>) = Nothing
    <3>1. CASE preq.body_rcv = "none"
      <4> DEFINE h == preq.header_plus
      <4>1. h \in Text /\ HeaderEnds(h) = {}
        BY <1>1 DEF Parsers, Waiting
      <4>2. Meaning(preq, <<>>) = Requests[h \o <<>>]
        BY <3>1 DEF Meaning
      <4> HIDE DEF h
      <4>3. h \o <<>> = h
        BY <4>1, ConcatNothing
      <4>4. Requests[h] = Nothing
        BY <4>1, RequestsIs DEF RequestStep
      <4> QED
        BY <4>2, <4>3, <4>4
    <3>2. CASE preq.body_rcv # "none"
      <4> DEFINE b == preq.buf
                 m == BodyMeaning(preq, <<>>)
      <4>1. Meaning(preq, <<>>) = Outcome(preq.header, m)
        BY <3>2 DEF Meaning
      <4>2. b \in Text
        BY <1>1 DEF Parsers
      <4>3. Partial.state = "partial" /\ With(b, Partial).state = "partial"
        <5> HIDE DEF b
        <5> QED
          BY <4>2, BodyTypes
      <4>4. m = Partial \/ m = With(b, Partial)
        <5>1. CASE preq.body_rcv = "fixed"
          <6>1. preq.remain \in Nat /\ preq.remain > 0
            BY <1>1, <5>1 DEF Parsers, Waiting
          <6>2. FixedBodyOf(<<>>, preq.remain) = Partial
            BY <1>1, <6>1 DEF FixedBodyOf
          <6> QED
            BY <5>1, <6>2 DEF BodyMeaning
        <5>2. CASE preq.body_rcv # "fixed" /\ preq.chunk_remainder > 0
          <6>1. ChunkBody(b, <<>>, preq.chunk_remainder) = Partial
            BY <1>1, <5>2 DEF ChunkBody
          <6> QED
            BY <5>2, <6>1 DEF BodyMeaning
        <5>3. CASE /\ preq.body_rcv # "fixed" /\ ~(preq.chunk_remainder > 0)
                   /\ preq.all_chunks_received
          <6> DEFINE t == preq.trailer
          <6>1. t \in Text /\ TrailerEnds(t) = {}
            BY <1>1 DEF Parsers, Waiting
          <6>2. t \o <<>> = t
            BY <6>1, ConcatNothing
          <6>3. LastOf(t) = Partial
            BY <6>1 DEF LastOf
          <6> QED
            BY <5>3, <6>2, <6>3 DEF BodyMeaning
        <5>4. CASE /\ preq.body_rcv # "fixed" /\ ~(preq.chunk_remainder > 0)
                   /\ ~preq.all_chunks_received
          <6> DEFINE l == preq.control_line
          <6>1. l \in Text /\ LineEnds(l) = {}
            BY <1>1 DEF Parsers, Waiting
          <6>2. l \o <<>> = l
            BY <6>1, ConcatNothing
          <6>3. ChunkedBodyOf[l] = Partial
            BY <6>1, ChunkedIs DEF ChunkStep
          <6> QED
            BY <5>4, <6>2, <6>3 DEF BodyMeaning
        <5> QED
          BY <5>1, <5>2, <5>3, <5>4
      <4> HIDE DEF m, b
      <4>5. m.state = "partial"
        BY <4>3, <4>4
      <4> QED
        BY <4>1, <4>5, OutcomeIs
    <3> QED
      BY <3>1, <3>2
  <2>3. requests \o <<>> = requests
    BY <1>1
  <2>4. Then(requests, Nothing) = [requests |-> requests, failed |-> FALSE]
    BY <2>3 DEF Then, Nothing
  <2>5. Requests[w].requests = requests /\ Requests[w].failed = FALSE
    BY <1>3, <2>1, <2>2, <2>4
  <2>6. failed = FALSE
    BY <1>1, <1>5
  <2> QED
    BY <2>5, <2>6 DEF w
<1> QED
  BY <1>4, <1>5

-----------------------------------------------------------------------------
(* The theorems.                                                           *)

\* The invariant holds in every state, for any streams.
THEOREM StreamIsRead == Spec => []IInv
<1>1. Init => IInv
  BY Beginning
<1>2. IInv /\ [Next]_vars => IInv'
  BY Steps
<1> QED
  BY <1>1, <1>2, PTL DEF Spec

\* The attributes of a parser (HTTPRequestParser and its body receiver) have
\* their types, and a body is received behind a parsed header only.
THEOREM TypeCorrect == Spec => []TypeOK
<1>1. IInv => TypeOK
  BY DEF IInv
<1> QED
  BY <1>1, StreamIsRead, PTL

\* However recv() cuts a stream, received() of ServerChannelBase finds in it the
\* requests that are in the whole stream, and closes the channel when there is
\* one in it that cannot be parsed.
THEOREM ReadWhole == Spec => []SplitIndependent
<1>1. IInv => SplitIndependent
  BY AllMade
<1> QED
  BY <1>1, StreamIsRead, PTL
=============================================================================
