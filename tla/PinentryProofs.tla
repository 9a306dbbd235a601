--------------------------- MODULE PinentryProofs ---------------------------
(***************************************************************************)
(* What module Pinentry promises, for all prompts and entries, however     *)
(* much pinentry chats and however often it crashes.                       *)
(***************************************************************************)
EXTENDS Pinentry, SetInduction, SequenceTheorems

-----------------------------------------------------------------------------
(* The conversions of the texts.                                           *)

\* The parts of a concatenation.
LEMMA Concatenation ==
  ASSUME NEW S, NEW a \in Seq(S), NEW b \in Seq(S), NEW c, c = a \o b
  PROVE  /\ c \in Seq(S)
         /\ Len(a) \in Nat /\ Len(b) \in Nat /\ Len(c) = Len(a) + Len(b)
         /\ \A k \in 1..Len(a) : c[k] = a[k]
         /\ \A k \in 1..Len(b) : c[Len(a) + k] = b[k]
BY ConcatProperties

\* What follows an escaped character's percent sign.
LEMMA TwoBehind ==
  ASSUME NEW x \in Characters, NEW b \in Seq(Characters), Len(b) = 2, NEW d, d = <<x>> \o b
  PROVE  d \in Seq(Characters) /\ Len(d) = 3 /\ d[1] = x /\ d[2] = b[1] /\ d[3] = b[2]
<1> DEFINE a == <<x>>
<1>1. Len(a) = 1 /\ a[1] = x
  OBVIOUS
<1>2. a \in Seq(Characters)
  OBVIOUS
<1>3. d = a \o b
  OBVIOUS
<1> HIDE DEF a
<1>4. /\ a \o b \in Seq(Characters) /\ Len(a \o b) = Len(a) + Len(b)
      /\ \A i \in 1..Len(a) + Len(b) : (a \o b)[i] = IF i <= Len(a) THEN a[i] ELSE b[i - Len(a)]
  BY <1>2, ConcatProperties, Zenon
<1> QED
  BY <1>1, <1>3, <1>4

\* What an escaped character is made of.
LEMMA EscapeType ==
  ASSUME NEW c \in Characters
  PROVE  /\ Escape(c) \in Seq(Characters)
         /\ \A k \in 1..Len(Escape(c)) : Escape(c)[k] \notin {"LF", "CR"}
         /\ c \in DOMAIN Escapes =>
              /\ Len(Escape(c)) = 3 /\ Escape(c)[1] = "%"
              /\ Escape(c)[2] \in UpperHexDigits /\ Escape(c)[3] \in UpperHexDigits
              /\ Decoded(<<Escape(c)[2], Escape(c)[3]>>) = c
         /\ c \notin DOMAIN Escapes => c # "%" /\ Len(Escape(c)) = 1 /\ Escape(c)[1] = c
<1>1. DOMAIN Escapes = {"LF", "CR", "%"} /\ {"LF", "CR", "%", "0", "A", "D", "2", "5"} \subseteq Characters
  BY TextsAssumption DEF Escapes, UpperHexDigits
<1>2. Escapes["LF"] = <<"0", "A">> /\ Escapes["CR"] = <<"0", "D">> /\ Escapes["%"] = <<"2", "5">>
  BY DEF Escapes
<1>3. ASSUME c \in DOMAIN Escapes
      PROVE  /\ Escape(c) \in Seq(Characters) /\ Len(Escape(c)) = 3
             /\ Escape(c)[1] = "%"
             /\ Escape(c)[2] = Escapes[c][1] /\ Escape(c)[3] = Escapes[c][2]
  <2>1. <<"%">> \in Seq(Characters) /\ Len(<<"%">>) = 1
    BY <1>1
  <2>2. Escapes[c] \in Seq(Characters) /\ Len(Escapes[c]) = 2
    <3>1. Escapes["LF"] \in Seq(Characters) /\ Escapes["CR"] \in Seq(Characters)
          /\ Escapes["%"] \in Seq(Characters)
      BY <1>1, <1>2
    <3>2. Len(Escapes["LF"]) = 2 /\ Len(Escapes["CR"]) = 2 /\ Len(Escapes["%"]) = 2
      BY <1>2
    <3> QED
      BY <1>1, <1>3, <3>1, <3>2
  <2>3. Escape(c) = <<"%">> \o Escapes[c]
    BY <1>3 DEF Escape
  <2> HIDE DEF Escape
  <2> QED
    BY <1>1, <2>2, <2>3, TwoBehind
<1>4. ASSUME c \in DOMAIN Escapes
      PROVE  /\ Escapes[c][1] \in UpperHexDigits /\ Escapes[c][2] \in UpperHexDigits
             /\ <<Escapes[c][1], Escapes[c][2]>> = Escapes[c]
             /\ \A d \in DOMAIN Escapes : Escapes[d] = Escapes[c] => d = c
  BY <1>1, <1>2, <1>4 DEF UpperHexDigits
<1>5. ASSUME c \in DOMAIN Escapes PROVE Decoded(<<Escape(c)[2], Escape(c)[3]>>) = c
  <2>1. Decoded(Escapes[c]) = c
    BY <1>4, <1>5 DEF Decoded
  <2> QED
    BY <1>3, <1>4, <1>5, <2>1
<1>6. ASSUME c \notin DOMAIN Escapes
      PROVE  Escape(c) = <<c>>
  BY <1>6 DEF Escape
<1>7. CASE c \in DOMAIN Escapes
  <2>1. "LF" \notin UpperHexDigits /\ "CR" \notin UpperHexDigits
    BY DEF UpperHexDigits
  <2> QED
    <3>1. ASSUME NEW k \in 1..Len(Escape(c)) PROVE Escape(c)[k] \notin {"LF", "CR"}
      <4>1. Len(Escape(c)) = 3
        BY <1>3, <1>7
      <4>2. k = 1 \/ k = 2 \/ k = 3
        BY <4>1
      <4> QED
        BY <1>3, <1>4, <1>7, <2>1, <4>2
    <3> QED
      BY <1>3, <1>4, <1>5, <1>7, <3>1
<1>8. CASE c \notin DOMAIN Escapes
  <2>1. <<c>> \in Seq(Characters) /\ Len(<<c>>) = 1 /\ <<c>>[1] = c
    OBVIOUS
  <2>1a. Escape(c) \in Seq(Characters) /\ Len(Escape(c)) = 1 /\ Escape(c)[1] = c
    BY <1>6, <1>8, <2>1
  <2>2. c \notin {"LF", "CR", "%"}
    BY <1>1, <1>8
  <2>3. ASSUME NEW k \in 1..Len(Escape(c)) PROVE Escape(c)[k] \notin {"LF", "CR"}
    BY <2>1a, <2>2
  <2> QED
    BY <1>8, <2>1a, <2>2, <2>3
<1> QED
  BY <1>7, <1>8

\* f holds the escaped form of every beginning of the text s.
EscapedForms(f, s) ==
  f = [i \in 0..Len(s) |-> IF i = 0 THEN <<>> ELSE f[i - 1] \o Escape(s[i])]

\* The recursive function of AssuanEscape is there.
LEMMA EscapeDefined ==
  ASSUME NEW s \in Seq(Characters)
  PROVE  \E f : EscapedForms(f, s) /\ AssuanEscape(s) = f[Len(s)]
<1> DEFINE Upto(f, n) ==
      f = [i \in 0..n |-> IF i = 0 THEN <<>> ELSE f[i - 1] \o Escape(s[i])]
<1> DEFINE T == {n \in Nat : \E f : Upto(f, n)}
<1>1. 0 \in T
  <2>1. Upto([i \in 0..0 |-> <<>>], 0)
    OBVIOUS
  <2> QED
    BY <2>1
<1>2. ASSUME NEW n \in Nat, n \in T PROVE n + 1 \in T
  <2>1. PICK f : Upto(f, n)
    BY <1>2
  <2> DEFINE g == [i \in 0..n + 1 |-> IF i = n + 1 THEN f[n] \o Escape(s[n + 1]) ELSE f[i]]
  <2>2. Upto(g, n + 1)
    BY <2>1
  <2> HIDE DEF g
  <2> QED
    BY <2>2
<1>3. Len(s) \in T
  <2> HIDE DEF T
  <2> QED
    BY <1>1, <1>2, SetInduction
<1>4. Upto(CHOOSE f : Upto(f, Len(s)), Len(s))
  BY <1>3
<1>5. AssuanEscape(s) = (CHOOSE f : Upto(f, Len(s)))[Len(s)]
  BY DEF AssuanEscape
<1> QED
  BY <1>4, <1>5 DEF EscapedForms

\* One character more.
LEMMA EscapedStep ==
  ASSUME NEW s \in Seq(Characters), NEW f, EscapedForms(f, s), NEW n \in Nat, n + 1 <= Len(s)
  PROVE  f[n + 1] = f[n] \o Escape(s[n + 1]) /\ s[n + 1] \in Characters
BY DEF EscapedForms

\* Every escaped form is a text without line ends.
LEMMA EscapedFormsType ==
  ASSUME NEW s \in Seq(Characters), NEW f, EscapedForms(f, s), NEW n \in 0..Len(s)
  PROVE  /\ f[n] \in Seq(Characters)
         /\ \A k \in 1..Len(f[n]) : f[n][k] \notin {"LF", "CR"}
<1> DEFINE Plain(t) == t \in Seq(Characters) /\ \A k \in 1..Len(t) : t[k] \notin {"LF", "CR"}
<1> DEFINE T == {i \in Nat : i <= Len(s) => Plain(f[i])}
<1>1. 0 \in T
  BY DEF EscapedForms
<1>2. ASSUME NEW i \in Nat, i \in T PROVE i + 1 \in T
  <2> SUFFICES ASSUME i + 1 <= Len(s) PROVE Plain(f[i + 1])
    OBVIOUS
  <2>1. f[i + 1] = f[i] \o Escape(s[i + 1])
    BY DEF EscapedForms
  <2>2. s[i + 1] \in Characters
    OBVIOUS
  <2>3. Plain(f[i])
    BY <1>2
  <2>4. Plain(Escape(s[i + 1]))
    BY <2>2, EscapeType
  <2>5. f[i + 1] \in Seq(Characters)
    BY <2>1, <2>3, <2>4, ConcatProperties
  <2>6. ASSUME NEW k \in 1..Len(f[i + 1]) PROVE f[i + 1][k] \notin {"LF", "CR"}
    <3> DEFINE e == Escape(s[i + 1])
    <3>1. f[i + 1] = f[i] \o e /\ f[i] \in Seq(Characters) /\ e \in Seq(Characters)
          /\ (\A j \in 1..Len(e) : e[j] \notin {"LF", "CR"})
      BY <2>1, <2>3, <2>4
    <3> HIDE DEF e
    <3>2. /\ Len(f[i]) \in Nat /\ Len(e) \in Nat /\ Len(f[i + 1]) = Len(f[i]) + Len(e)
          /\ \A j \in 1..Len(f[i]) : f[i + 1][j] = f[i][j]
          /\ \A j \in 1..Len(e) : f[i + 1][Len(f[i]) + j] = e[j]
      BY <3>1, Concatenation
    <3>3. CASE k <= Len(f[i])
      <4>1. k \in 1..Len(f[i])
        BY <3>2, <3>3
      <4> QED
        BY <2>3, <3>2, <4>1
    <3>4. CASE k > Len(f[i])
      <4>1. k - Len(f[i]) \in 1..Len(e) /\ Len(f[i]) + (k - Len(f[i])) = k
        BY <3>2, <3>4
      <4> QED
        BY <3>1, <3>2, <4>1
    <3> QED
      BY <3>2, <3>3, <3>4
  <2> QED
    BY <2>5, <2>6
<1>3. n \in T
  <2> HIDE DEF T
  <2> QED
    BY <1>1, <1>2, SetInduction
<1> QED
  BY <1>3

\* What AssuanEscape returns is a text that an Assuan line can carry.
LEMMA EscapeIsText ==
  ASSUME NEW s \in Seq(Characters)
  PROVE  /\ AssuanEscape(s) \in Seq(Characters)
         /\ \A k \in 1..Len(AssuanEscape(s)) : AssuanEscape(s)[k] \notin {"LF", "CR"}
<1>1. PICK f : EscapedForms(f, s) /\ AssuanEscape(s) = f[Len(s)]
  BY EscapeDefined
<1> QED
  BY <1>1, EscapedFormsType

\* The escaped form of a beginning is a beginning of the escaped form.
LEMMA EscapedFormsPrefix ==
  ASSUME NEW s \in Seq(Characters), NEW f, EscapedForms(f, s), NEW m \in 0..Len(s)
  PROVE  /\ Len(f[m]) <= Len(f[Len(s)])
         /\ \A k \in 1..Len(f[m]) : f[Len(s)][k] = f[m][k]
<1> DEFINE Begins(n) == Len(f[m]) <= Len(f[n]) /\ \A k \in 1..Len(f[m]) : f[n][k] = f[m][k]
<1> DEFINE T == {n \in Nat : m <= n /\ n <= Len(s) => Begins(n)}
<1>1. Len(f[m]) \in Nat
  BY EscapedFormsType, LenProperties
<1>2. 0 \in T
  BY <1>1
<1>3. ASSUME NEW n \in Nat, n \in T PROVE n + 1 \in T
  <2> SUFFICES ASSUME m <= n, n + 1 <= Len(s) PROVE Begins(n + 1)
    BY <1>1
  <2> DEFINE e == Escape(s[n + 1])
  <2>1. n + 1 \in 1..Len(s) /\ s[n + 1] \in Characters
    OBVIOUS
  <2>2. f[n + 1] = f[n] \o e
    BY EscapedStep
  <2>3. f[n] \in Seq(Characters)
    BY EscapedFormsType
  <2>4. e \in Seq(Characters)
    BY <2>1, EscapeType
  <2>5. Len(f[m]) <= Len(f[n]) /\ \A k \in 1..Len(f[m]) : f[n][k] = f[m][k]
    BY <1>3
  <2> HIDE DEF e
  <2>6. /\ Len(f[n]) \in Nat /\ Len(e) \in Nat /\ Len(f[n + 1]) = Len(f[n]) + Len(e)
        /\ \A k \in 1..Len(f[n]) : f[n + 1][k] = f[n][k]
    BY <2>2, <2>3, <2>4, Concatenation
  <2> QED
    BY <1>1, <2>5, <2>6
<1>4. Len(s) \in T
  <2> HIDE DEF T
  <2> QED
    BY <1>2, <1>3, SetInduction
<1> QED
  BY <1>4

\* g[i] is what the text s means from its i-th character on.
MeaningFrom(g, s, i) ==
  IF i > Len(s) THEN <<>>
  ELSE IF i + 2 <= Len(s) /\ IsEscape(s, i)
       THEN <<Decoded(<<s[i + 1], s[i + 2]>>)>> \o g[i + 3]
       ELSE <<s[i]>> \o g[i + 1]
Meanings(g, s, m) == g = [i \in m..Len(s) + 1 |-> MeaningFrom(g, s, i)]

\* The meanings of the shorter rests give that of the next longer one.
LEMMA MeaningsExtend ==
  ASSUME NEW s \in Seq(Characters), NEW m \in Nat, m >= 1, m <= Len(s),
         NEW g, Meanings(g, s, m + 1)
  PROVE  \E h : Meanings(h, s, m)
<1> DEFINE h == [i \in m..Len(s) + 1 |-> IF i = m THEN MeaningFrom(g, s, m) ELSE g[i]]
<1>1. \A i \in m + 1..Len(s) + 1 : h[i] = g[i]
  OBVIOUS
<1>2. \A i \in m + 1..Len(s) + 1 : g[i] = MeaningFrom(g, s, i)
  BY DEF Meanings
<1>3. h[m] = MeaningFrom(g, s, m)
  OBVIOUS
<1>4. h = [i \in m..Len(s) + 1 |-> h[i]]
  OBVIOUS
<1> HIDE DEF h
<1>5. ASSUME NEW i \in m..Len(s) + 1 PROVE MeaningFrom(h, s, i) = MeaningFrom(g, s, i)
  <2>1. i <= Len(s) => h[i + 1] = g[i + 1]
    BY <1>1
  <2>2. i + 2 <= Len(s) => h[i + 3] = g[i + 3]
    BY <1>1
  <2> QED
    BY <2>1, <2>2 DEF MeaningFrom
<1>6. ASSUME NEW i \in m..Len(s) + 1 PROVE h[i] = MeaningFrom(h, s, i)
  BY <1>1, <1>2, <1>3, <1>5
<1>7. Meanings(h, s, m)
  BY <1>4, <1>6 DEF Meanings
<1> QED
  BY <1>7

\* The recursive function of AssuanUnescape is there.
LEMMA UnescapeDefined ==
  ASSUME NEW s \in Seq(Characters)
  PROVE  \E g : Meanings(g, s, 1) /\ AssuanUnescape(s) = g[1]
<1> DEFINE T == {n \in Nat : n <= Len(s) => \E g : Meanings(g, s, Len(s) + 1 - n)}
<1>1. 0 \in T
  <2> DEFINE g == [i \in Len(s) + 1..Len(s) + 1 |-> <<>>]
  <2>1. Meanings(g, s, Len(s) + 1)
    BY DEF Meanings, MeaningFrom
  <2> QED
    BY <2>1
<1>2. ASSUME NEW n \in Nat, n \in T PROVE n + 1 \in T
  <2> SUFFICES ASSUME n + 1 <= Len(s) PROVE \E h : Meanings(h, s, Len(s) - n)
    OBVIOUS
  <2>1. PICK m \in Nat : m = Len(s) - n /\ m >= 1 /\ m <= Len(s) /\ m + 1 = Len(s) + 1 - n
    OBVIOUS
  <2>2. PICK g : Meanings(g, s, m + 1)
    BY <1>2, <2>1
  <2> QED
    BY <2>1, <2>2, MeaningsExtend
<1>3. Len(s) \in T
  <2> HIDE DEF T
  <2> QED
    BY <1>1, <1>2, SetInduction
<1>4. \E g : Meanings(g, s, 1)
  BY <1>3
<1>5. Meanings(CHOOSE g : Meanings(g, s, 1), s, 1)
  BY <1>4
<1>6. AssuanUnescape(s) = (CHOOSE g : Meanings(g, s, 1))[1]
  BY DEF AssuanUnescape, UnescapedUpTo, Meanings, MeaningFrom
<1> QED
  BY <1>5, <1>6

\* What is escaped is unescaped again: whatever it is made of, a text arrives
\* as it was sent.
THEOREM EscapedTextArrives ==
  ASSUME NEW s \in Seq(Characters)
  PROVE  AssuanUnescape(AssuanEscape(s)) = s
<1>1. PICK f : EscapedForms(f, s) /\ AssuanEscape(s) = f[Len(s)]
  BY EscapeDefined
<1> DEFINE e == AssuanEscape(s)
<1>2. e \in Seq(Characters) /\ Len(e) \in Nat
  BY EscapeIsText
<1> HIDE DEF e
<1>3. PICK g : Meanings(g, e, 1) /\ AssuanUnescape(e) = g[1]
  BY <1>2, UnescapeDefined
<1> DEFINE Right(i) == g[Len(f[i]) + 1] = SubSeq(s, i + 1, Len(s))
<1> DEFINE T == {n \in Nat : \A m \in Nat : m + n = Len(s) => Right(m)}
<1>4. 0 \in T
  <2>1. g[Len(e) + 1] = <<>>
    BY <1>2, <1>3 DEF Meanings, MeaningFrom
  <2>2. SubSeq(s, Len(s) + 1, Len(s)) = <<>>
    BY SubSeqEmpty
  <2>3. Right(Len(s))
    BY <1>1, <2>1, <2>2 DEF e
  <2> HIDE DEF Right
  <2> QED
    BY <2>3
<1>5. ASSUME NEW n \in Nat, n + 1 <= Len(s), Right(n + 1) PROVE Right(n)
  <2> DEFINE c == s[n + 1]
  <2> DEFINE p == Len(f[n])
  <2>1. c \in Characters /\ f[n + 1] = f[n] \o Escape(c)
    BY <1>1, <1>5, EscapedStep
  <2>2. f[n] \in Seq(Characters)
    BY <1>1, <1>5, EscapedFormsType
  <2>3. Escape(c) \in Seq(Characters)
    BY <2>1, EscapeType
  <2>4. /\ p \in Nat /\ Len(Escape(c)) \in Nat /\ Len(f[n + 1]) = p + Len(Escape(c))
        /\ \A k \in 1..Len(Escape(c)) : f[n + 1][p + k] = Escape(c)[k]
    <3> DEFINE a == f[n]
               b == Escape(c)
               d == f[n + 1]
    <3>1. a \in Seq(Characters) /\ b \in Seq(Characters) /\ d = a \o b
      BY <2>1, <2>2, <2>3
    <3> HIDE DEF a, b, d
    <3>2. /\ Len(a) \in Nat /\ Len(b) \in Nat /\ Len(d) = Len(a) + Len(b)
          /\ \A k \in 1..Len(b) : d[Len(a) + k] = b[k]
      BY <3>1, Concatenation
    <3> QED
      BY <3>2 DEF a, b, d
  <2>5. /\ Len(f[n + 1]) <= Len(e)
        /\ \A k \in 1..Len(f[n + 1]) : e[k] = f[n + 1][k]
    BY <1>1, <1>5, EscapedFormsPrefix DEF e
  <2>6. \A k \in 1..Len(Escape(c)) : e[p + k] = Escape(c)[k]
    <3> HIDE DEF c, p
    <3>1. \A k \in 1..Len(Escape(c)) : p + k \in 1..Len(f[n + 1])
      BY <2>4
    <3> QED
      BY <2>4, <2>5, <3>1
  <2>7. SubSeq(s, n + 1, Len(s)) = <<c>> \o SubSeq(s, n + 1 + 1, Len(s))
    BY <1>5, SubSeqRecursiveFirst
  <2>8. g[p + 1] = MeaningFrom(g, e, p + 1)
    <3> HIDE DEF c, p
    <3>1. p + 1 \in 1..Len(e) + 1
      BY <1>2, <2>4, <2>5
    <3> QED
      BY <1>3, <3>1 DEF Meanings
  <2> HIDE DEF c, p
  <2>9. CASE c \in DOMAIN Escapes
    <3>1. /\ Len(Escape(c)) = 3 /\ Escape(c)[1] = "%"
          /\ Escape(c)[2] \in UpperHexDigits /\ Escape(c)[3] \in UpperHexDigits
          /\ Decoded(<<Escape(c)[2], Escape(c)[3]>>) = c
      BY <2>1, <2>9, EscapeType
    <3>2. e[p + 1] = "%" /\ e[p + 1 + 1] = Escape(c)[2] /\ e[p + 1 + 2] = Escape(c)[3]
      BY <2>4, <2>6, <3>1
    <3>3. IsEscape(e, p + 1) /\ p + 1 + 2 <= Len(e)
      BY <2>4, <2>5, <3>1, <3>2 DEF IsEscape
    <3>4. g[p + 1] = <<c>> \o g[p + 1 + 3]
      <4>1. ~ (p + 1 > Len(e))
        BY <1>2, <2>4, <3>3
      <4>2. MeaningFrom(g, e, p + 1) = <<Decoded(<<e[p + 1 + 1], e[p + 1 + 2]>>)>> \o g[p + 1 + 3]
        BY <3>3, <4>1, Zenon DEF MeaningFrom
      <4>3. Decoded(<<e[p + 1 + 1], e[p + 1 + 2]>>) = c
        BY <3>1, <3>2, Zenon
      <4> QED
        BY <2>8, <4>2, <4>3
    <3>5. g[p + 1 + 3] = SubSeq(s, n + 1 + 1, Len(s))
      BY <1>5, <2>4, <3>1 DEF p
    <3> QED
      BY <2>7, <3>4, <3>5 DEF p
  <2>10. CASE c \notin DOMAIN Escapes
    <3>1. c # "%" /\ Len(Escape(c)) = 1 /\ Escape(c)[1] = c
      BY <2>1, <2>10, EscapeType
    <3>2. e[p + 1] = c
      BY <2>4, <2>6, <3>1
    <3>3. ~ IsEscape(e, p + 1) /\ p + 1 <= Len(e)
      BY <2>4, <2>5, <3>1, <3>2 DEF IsEscape
    <3>4. g[p + 1] = <<c>> \o g[p + 1 + 1]
      BY <1>2, <2>4, <2>8, <3>2, <3>3 DEF MeaningFrom
    <3>5. g[p + 1 + 1] = SubSeq(s, n + 1 + 1, Len(s))
      BY <1>5, <2>4, <3>1 DEF p
    <3> QED
      BY <2>7, <3>4, <3>5 DEF p
  <2> QED
    BY <2>9, <2>10
<1>6. ASSUME NEW n \in Nat, n \in T PROVE n + 1 \in T
  <2> HIDE DEF Right
  <2>1. ASSUME NEW m \in Nat, m + (n + 1) = Len(s) PROVE Right(m)
    <3>1. m + 1 <= Len(s) /\ m + 1 \in Nat /\ (m + 1) + n = Len(s)
      BY <2>1
    <3>2. Right(m + 1)
      BY <1>6, <3>1
    <3> QED
      BY <1>5, <3>1, <3>2
  <2> QED
    BY <2>1
<1>7. Len(s) \in T
  <2> HIDE DEF T
  <2> QED
    BY <1>4, <1>6, SetInduction
<1>8. g[Len(f[0]) + 1] = SubSeq(s, 1, Len(s))
  <2>1. \A m \in Nat : m + Len(s) = Len(s) => Right(m)
    BY <1>7
  <2>2. Right(0)
    <3> HIDE DEF Right
    <3> QED
      BY <2>1
  <2> QED
    BY <2>2
<1>9. Len(f[0]) = 0
  BY <1>1 DEF EscapedForms
<1> QED
  BY <1>3, <1>8, <1>9, SubSeqFull DEF e

-----------------------------------------------------------------------------
(* The inductive invariant.                                                *)

Setup == {"greeting", "configure", "reply"}
Closing == {"bye", "farewell", "wait"}

DescriptionLine == Line("SETDESC", AssuanEscape(prompt.description))
MessageLine == Line("SETERROR", AssuanEscape(prompt.message))
SetupLines == {Line("OPTION", <<>>), Line("SETTITLE", <<>>), Line("SETPROMPT", <<>>),
               DescriptionLine, MessageLine}
AskLines == {Line("GETPIN", <<>>), Line("CAN", <<>>)}
ClientLines == SetupLines \cup AskLines \cup {Line("BYE", <<>>)}

IdleLines == {Line("S", <<>>), Line("comment", <<>>)}
DataLines == {Line("D", AssuanEscape(e)) : e \in Entries}
PinentryLines ==
  Replies \cup IdleLines \cup DataLines \cup {Line("INQUIRE", <<>>), Line("ERR", <<"cancelled">>)}

Actions == {Nothing, Cancelled} \cup {Entry(e) : e \in Entries}
Results == Actions \cup {Failed, Down}

Scalars ==
  /\ pc \in {"start", "done", "answer"} \cup Setup \cup Closing
  /\ runs \in 0..2
  /\ proc \in {"none", "running", "leaving", "hung", "exited"}
  /\ dialog \in {"closed", "open", "inquiry"}
  /\ entered \in Actions /\ outcome \in Results /\ answer \in Results
  /\ chatter \in 0..MaxChatter /\ crashes \in 0..MaxCrashes

Lines ==
  /\ prompt \in Prompts
  /\ todo \in Seq(SetupLines)
  /\ toPinentry \in Seq(ClientLines)
  /\ toClient \in Seq(PinentryLines)
  /\ shown \in [description : Seq(Characters), message : Seq(Characters)]

\* A process that has been told to leave, or has left without, can be told apart.
Endings ==
  /\ pc \in {"start", "done"} => proc \in {"none", "exited"}
  /\ proc = "leaving" \/ (\E i \in 1..Len(toPinentry) : toPinentry[i].is = "BYE") =>
       pc \in {"farewell", "wait", "start", "done"}
  /\ proc = "exited" /\ pc \in Setup \cup {"answer", "bye"} => crashes < MaxCrashes
  /\ outcome = Down => crashes < MaxCrashes
  /\ runs = 2 => crashes < MaxCrashes
  /\ pc = "start" => runs = 0 \/ (runs = 1 /\ outcome = Down)

\* The program and the process take turns until the dialog opens.
Turns ==
  /\ pc = "greeting" => toPinentry = <<>> /\ Len(toClient) <= 1 /\ (~greeted => toClient = <<>>)
  /\ pc \in {"configure", "reply", "answer"} => greeted
  /\ pc = "configure" => toPinentry = <<>> /\ toClient = <<>>
  /\ pc = "reply" => /\ Len(toPinentry) + Len(toClient) <= 1
                     /\ \A i \in 1..Len(toPinentry) : toPinentry[i] \in SetupLines
  /\ pc \in Setup => dialog = "closed" /\ entered = Nothing /\ pin = <<>>

\* A line that pinentry has not obeyed yet.
Waits(line) ==
  \/ \E i \in 1..Len(todo) : todo[i] = line
  \/ \E i \in 1..Len(toPinentry) : toPinentry[i] = line

\* What pinentry has not been told is on its way to it, until the dialog opens.
Telling ==
  /\ pc \in Setup =>
       /\ shown.description = prompt.description \/ Waits(DescriptionLine)
       /\ shown.message = prompt.message \/ Waits(MessageLine)
  /\ pc \notin Setup /\ proc = "running" =>
       \A i \in 1..Len(toPinentry) : toPinentry[i] \notin SetupLines
  /\ dialog # "closed" \/ (\E i \in 1..Len(toPinentry) : toPinentry[i] \in AskLines) =>
       shown = [description |-> prompt.description, message |-> prompt.message]

Idle(n) == \A i \in 1..n : toClient[i] \in IdleLines

\* The lines behind which the dialog is closed.
Delivered(n) ==
  \/ toClient[n] = Line("ERR", <<"other">>) /\ Idle(n - 1)
  \/ toClient[n] = Line("ERR", <<"cancelled">>) /\ Idle(n - 1) /\ entered = Cancelled
  \/ toClient[n] = Line("OK", <<>>) /\ Idle(n - 1) /\ entered = Entry(pin)
  \/ /\ n > 1 /\ toClient[n] = Line("OK", <<>>) /\ Idle(n - 2)
     /\ \E e \in Entries : entered = Entry(e) /\ toClient[n - 1] = Line("D", AssuanEscape(e))

\* The dialog: asked for, open, waiting for the answer to an inquiry, or closed
\* with the answer of the user under way.
Asking ==
  pc = "answer" =>
    \/ /\ dialog = "closed" /\ toPinentry = <<Line("GETPIN", <<>>)>> /\ toClient = <<>>
       /\ entered = Nothing /\ pin = <<>>
    \/ dialog = "open" /\ toPinentry = <<>> /\ Idle(Len(toClient)) /\ pin = <<>>
    \/ /\ dialog = "inquiry" /\ toPinentry = <<>> /\ pin = <<>>
       /\ Len(toClient) > 0 /\ Idle(Len(toClient) - 1)
       /\ toClient[Len(toClient)] = Line("INQUIRE", <<>>)
    \/ /\ dialog = "inquiry" /\ pin = <<>>
       /\ toPinentry = <<Line("CAN", <<>>)>> /\ toClient = <<>>
    \/ dialog = "closed" /\ toPinentry = <<>> /\ Len(toClient) > 0 /\ Delivered(Len(toClient))

\* What the program has heard is what the user did.
Hearing ==
  /\ pc # "done" => answer = Nothing
  /\ pc \in Closing => outcome \in {Down, Failed} \/ (outcome = entered /\ entered # Nothing)

IInv == Scalars /\ Lines /\ Endings /\ Turns /\ Telling /\ Asking /\ Hearing

-----------------------------------------------------------------------------
(* Facts about sequences and lines that the steps need.                    *)

LEMMA FirstLine ==
  ASSUME NEW S, NEW q \in Seq(S), q # <<>>
  PROVE  /\ Head(q) \in S /\ Head(q) = q[1]
         /\ Tail(q) \in Seq(S) /\ Len(q) \in Nat /\ Len(q) > 0 /\ Len(Tail(q)) = Len(q) - 1
         /\ \A i \in 1..Len(q) - 1 : Tail(q)[i] = q[i + 1]
BY HeadTailProperties

LEMMA LastLine ==
  ASSUME NEW S, NEW q \in Seq(S), NEW line \in S
  PROVE  /\ Append(q, line) \in Seq(S)
         /\ Len(q) \in Nat /\ Len(Append(q, line)) = Len(q) + 1
         /\ Append(q, line)[Len(q) + 1] = line
         /\ \A i \in 1..Len(q) : Append(q, line)[i] = q[i]
BY AppendProperties

\* The texts of a prompt are texts, and arrive as they are.
LEMMA PromptArrives ==
  ASSUME prompt \in Prompts
  PROVE  /\ prompt.description \in Seq(Characters) /\ prompt.message \in Seq(Characters)
         /\ AssuanUnescape(DescriptionLine.text) = prompt.description
         /\ AssuanUnescape(MessageLine.text) = prompt.message
BY TextsAssumption, EscapedTextArrives DEF DescriptionLine, MessageLine, Line

\* What the user has entered arrives as it was typed.
LEMMA EntryArrives ==
  ASSUME NEW e \in Entries
  PROVE  AssuanUnescape(AssuanEscape(e)) = e
BY TextsAssumption, EscapedTextArrives

\* Everything the dialog has to say is among the commands.
LEMMA CommandsSayAll ==
  ASSUME prompt \in Prompts
  PROVE  /\ CommandsFor(prompt) \in Seq(SetupLines)
         /\ \E i \in 1..Len(CommandsFor(prompt)) : CommandsFor(prompt)[i] = DescriptionLine
         /\ \/ prompt.message = <<>>
            \/ \E i \in 1..Len(CommandsFor(prompt)) : CommandsFor(prompt)[i] = MessageLine
<1> DEFINE first == <<Line("OPTION", <<>>), Line("SETTITLE", <<>>), DescriptionLine,
                      Line("SETPROMPT", <<>>)>>
<1> DEFINE second == IF prompt.message = <<>> THEN <<>> ELSE <<MessageLine>>
<1>1. CommandsFor(prompt) = first \o second
  BY DEF CommandsFor, DescriptionLine, MessageLine
<1>2. first \in Seq(SetupLines) /\ Len(first) = 4 /\ first[3] = DescriptionLine
  BY DEF SetupLines
<1>3. /\ second \in Seq(SetupLines)
      /\ prompt.message # <<>> => Len(second) = 1 /\ second[1] = MessageLine
  <2>1. <<>> \in Seq(SetupLines) /\ <<MessageLine>> \in Seq(SetupLines)
    BY DEF SetupLines
  <2>2. Len(<<MessageLine>>) = 1 /\ <<MessageLine>>[1] = MessageLine
    OBVIOUS
  <2> QED
    BY <2>1, <2>2
<1> HIDE DEF first, second
<1> DEFINE all == CommandsFor(prompt)
<1>4. /\ all \in Seq(SetupLines)
      /\ Len(second) \in Nat /\ Len(all) = Len(first) + Len(second)
      /\ \A k \in 1..Len(first) : all[k] = first[k]
      /\ \A k \in 1..Len(second) : all[Len(first) + k] = second[k]
  <2> HIDE DEF all
  <2>1. first \in Seq(SetupLines) /\ second \in Seq(SetupLines) /\ all = first \o second
    BY <1>1, <1>2, <1>3 DEF all
  <2> QED
    BY <2>1, Concatenation
<1>5. 3 \in 1..Len(CommandsFor(prompt)) /\ CommandsFor(prompt)[3] = DescriptionLine
  BY <1>2, <1>4
<1>6. ASSUME prompt.message # <<>>
      PROVE  5 \in 1..Len(CommandsFor(prompt)) /\ CommandsFor(prompt)[5] = MessageLine
  <2>1. 1 \in 1..Len(second)
    BY <1>3, <1>6
  <2>2. CommandsFor(prompt)[Len(first) + 1] = second[1]
    BY <1>4, <2>1
  <2> QED
    BY <1>2, <1>3, <1>4, <1>6, <2>2
<1> QED
  BY <1>4, <1>5, <1>6

\* The prompt of a dialog stays.
LEMMA PromptStays ==
  ASSUME [Next]_vars
  PROVE  prompt' = prompt
BY DEF Next, Program, Process, Start, SkipLine, ReadOK, Configure, ReadAnswer, SayBye,
       ReadFarewell, Reap, Greet, Obey, Deliver, Exit, Chat, UserAnswers, Crash, Hang,
       vars, client

-----------------------------------------------------------------------------
(* The steps.                                                            *)

\* The lines of a prompt that stays are the same lines.
LEMMA LinesStay ==
  ASSUME prompt' = prompt
  PROVE  /\ DescriptionLine' = DescriptionLine /\ MessageLine' = MessageLine
         /\ SetupLines' = SetupLines /\ ClientLines' = ClientLines
BY DEF DescriptionLine, MessageLine, SetupLines, ClientLines

\* What the program and the process may write.
LEMMA KnownLines ==
  /\ SetupLines \subseteq ClientLines
  /\ Line("GETPIN", <<>>) \in ClientLines /\ Line("CAN", <<>>) \in ClientLines
  /\ Line("BYE", <<>>) \in ClientLines
  /\ Replies \subseteq PinentryLines /\ Line("OK", <<>>) \in PinentryLines
  /\ \A is \in {"S", "comment", "INQUIRE"} : Line(is, <<>>) \in PinentryLines
  /\ Line("ERR", <<"cancelled">>) \in PinentryLines /\ Line("ERR", <<"other">>) \in PinentryLines
  /\ \A e \in Entries : Line("D", AssuanEscape(e)) \in PinentryLines
BY DEF ClientLines, AskLines, Replies, IdleLines, DataLines, PinentryLines

\* What the process does with the line it reads first.
LEMMA ObeyedLine ==
  ASSUME IInv, Obey
  PROVE  /\ toPinentry \in Seq(ClientLines) /\ toPinentry # <<>> /\ toPinentry' = Tail(toPinentry)
         /\ Command \in ClientLines /\ Command = toPinentry[1]
         /\ UNCHANGED <<prompt, todo, pin, pc, entered, outcome, answer, runs>>
         /\ UNCHANGED <<greeted, chatter, crashes>>
         /\ proc = "running" /\ greeted /\ dialog # "open"
<1>1. toPinentry \in Seq(ClientLines)
  BY DEF IInv, Lines
<1> QED
  BY <1>1, FirstLine DEF Obey, Command, client

LEMMA ObeyedSetup ==
  ASSUME IInv, Obey, Command \in SetupLines
  PROVE  /\ UNCHANGED <<proc, dialog>>
         /\ \E line \in Replies : toClient' = Append(toClient, line)
         /\ shown' = [description |-> IF Command = DescriptionLine THEN prompt.description
                                      ELSE shown.description,
                      message |-> IF Command = MessageLine THEN prompt.message ELSE shown.message]
<1>1. prompt \in Prompts /\ shown \in [description : Seq(Characters), message : Seq(Characters)]
  BY DEF IInv, Lines
<1>2. \/ Command = DescriptionLine /\ Command.is = "SETDESC"
      \/ Command = MessageLine /\ Command.is = "SETERROR"
      \/ /\ Command # DescriptionLine /\ Command # MessageLine
         /\ Command.is \in {"OPTION", "SETTITLE", "SETPROMPT"}
  BY DEF SetupLines, DescriptionLine, MessageLine, Line
<1>3. /\ UNCHANGED <<proc, dialog>> /\ \E line \in Replies : toClient' = Append(toClient, line)
      /\ CASE Command.is = "SETDESC" -> Given("description")
           [] Command.is = "SETERROR" -> Given("message")
           [] OTHER -> UNCHANGED shown
  BY <1>2 DEF Obey, Reply
<1>4. CASE Command = DescriptionLine /\ Command.is = "SETDESC"
  <2>1. shown' = [shown EXCEPT !.description = prompt.description]
    BY <1>1, <1>3, <1>4, PromptArrives DEF Given
  <2>2. Command # MessageLine
    BY <1>4 DEF MessageLine, Line
  <2> QED
    BY <1>1, <1>3, <1>4, <2>1, <2>2
<1>5. CASE Command = MessageLine /\ Command.is = "SETERROR"
  <2>1. shown' = [shown EXCEPT !.message = prompt.message]
    BY <1>1, <1>3, <1>5, PromptArrives DEF Given
  <2>2. Command # DescriptionLine
    BY <1>5 DEF DescriptionLine, Line
  <2> QED
    BY <1>1, <1>3, <1>5, <2>1, <2>2
<1>6. CASE /\ Command # DescriptionLine /\ Command # MessageLine
           /\ Command.is \in {"OPTION", "SETTITLE", "SETPROMPT"}
  <2>1. shown' = shown
    BY <1>3, <1>6
  <2> QED
    BY <1>1, <1>3, <1>6, <2>1
<1> QED
  BY <1>2, <1>4, <1>5, <1>6

LEMMA ObeyedAsk ==
  ASSUME IInv, Obey, Command \in AskLines
  PROVE  dialog' = "open" /\ UNCHANGED <<toClient, proc, shown>>
<1>1. Command.is \in {"GETPIN", "CAN"}
  BY DEF AskLines, Line
<1> QED
  BY <1>1 DEF Obey

LEMMA ObeyedBye ==
  ASSUME IInv, Obey, Command = Line("BYE", <<>>)
  PROVE  /\ toClient' = Append(toClient, Line("OK", <<>>)) /\ proc' = "leaving"
         /\ UNCHANGED <<shown, dialog>>
<1>1. Command.is = "BYE"
  BY DEF Line
<1> QED
  BY <1>1 DEF Obey, Reply

\* What is sent next: a command, or the question; nothing is under way before it.
LEMMA ConfiguredLine ==
  ASSUME IInv, Configure
  PROVE  /\ pc = "configure" /\ greeted /\ toPinentry = <<>> /\ toClient = <<>>
         /\ dialog = "closed" /\ entered = Nothing /\ pin = <<>>
         /\ UNCHANGED <<prompt, path, pin, runs, answer, toClient, entered>> /\ UNCHANGED pinentry
         /\ \/ proc = "exited" /\ pc' = "bye" /\ toPinentry' = <<>> /\ outcome' = Down
            \/ /\ proc # "exited" /\ todo = <<>> /\ todo' = <<>> /\ pc' = "answer"
               /\ toPinentry' = <<Line("GETPIN", <<>>)>>
            \/ /\ proc # "exited" /\ todo # <<>> /\ todo' = Tail(todo) /\ pc' = "reply"
               /\ toPinentry' = <<todo[1]>> /\ todo[1] \in SetupLines
<1>1. /\ pc = "configure" /\ greeted /\ toPinentry = <<>> /\ toClient = <<>>
      /\ dialog = "closed" /\ entered = Nothing /\ pin = <<>>
  BY DEF IInv, Turns, Setup, Configure
<1>2. todo \in Seq(SetupLines)
  BY DEF IInv, Lines
<1>3. todo # <<>> => Head(todo) = todo[1] /\ todo[1] \in SetupLines
  BY <1>2, FirstLine
<1>4. \A line : Append(<<>>, line) = <<line>>
  OBVIOUS
<1> QED
  BY <1>1, <1>3, <1>4 DEF Configure, Write, pinentry

\* A line without an answer that is passed over leaves the dialog as it is.
LEMMA IdlePasses ==
  ASSUME toClient \in Seq(PinentryLines), toClient # <<>>, toClient' = Tail(toClient),
         Head(toClient).is \in {"S", "comment", "empty"},
         UNCHANGED <<pc, dialog, toPinentry, entered, pin>>,
         Asking
  PROVE  Asking'
<1>1. /\ Len(toClient) \in Nat /\ Len(toClient) > 0 /\ Len(toClient') = Len(toClient) - 1
      /\ \A i \in 1..Len(toClient) - 1 : toClient'[i] = toClient[i + 1]
      /\ toClient[1].is \in {"S", "comment", "empty"}
  BY FirstLine
<1>2. ASSUME pc = "answer", Idle(Len(toClient))
      PROVE  Idle(Len(toClient))'
  BY <1>1, <1>2 DEF Idle
<1>3. ASSUME toClient[Len(toClient)] = Line("INQUIRE", <<>>), Idle(Len(toClient) - 1)
      PROVE  /\ Len(toClient') > 0 /\ Idle(Len(toClient) - 1)'
             /\ toClient'[Len(toClient')] = Line("INQUIRE", <<>>)
  BY <1>1, <1>3 DEF Idle, Line
<1>4. ASSUME Delivered(Len(toClient))
      PROVE  Len(toClient') > 0 /\ Delivered(Len(toClient))'
  <2>1. Len(toClient) # 1
    <3>1. toClient[Len(toClient)].is \in {"ERR", "OK"}
      BY <1>4 DEF Delivered, Line
    <3> QED
      BY <1>1, <3>1
  <2>2. toClient'[Len(toClient')] = toClient[Len(toClient)] /\ Len(toClient') > 0
    BY <1>1, <2>1
  <2>3. Idle(Len(toClient) - 1) => Idle(Len(toClient) - 1)'
    BY <1>1, <2>1 DEF Idle
  <2>4. CASE Idle(Len(toClient) - 1)
    <3>1. \A e \in Entries : Len(toClient) > 1 => toClient[Len(toClient) - 1] # Line("D", AssuanEscape(e))
      BY <1>1, <2>4 DEF Idle, IdleLines, Line
    <3> QED
      BY <1>4, <2>2, <2>3, <2>4, <3>1 DEF Delivered
  <2>5. CASE ~ Idle(Len(toClient) - 1)
    <3>1. PICK e \in Entries :
            entered = Entry(e) /\ toClient[Len(toClient) - 1] = Line("D", AssuanEscape(e))
      BY <1>4, <2>5 DEF Delivered
    <3>2. toClient[Len(toClient)] = Line("OK", <<>>) /\ Idle(Len(toClient) - 2)
      BY <1>4, <2>5 DEF Delivered
    <3>3. Len(toClient) # 2
      BY <1>1, <3>1 DEF Line
    <3>4. Len(toClient') > 1 /\ toClient'[Len(toClient') - 1] = toClient[Len(toClient) - 1]
      BY <1>1, <2>1, <3>3
    <3>5. Idle(Len(toClient) - 2)'
      BY <1>1, <2>1, <3>2, <3>3 DEF Idle
    <3> QED
      BY <2>2, <3>1, <3>2, <3>4, <3>5 DEF Delivered
  <2> QED
    BY <2>4, <2>5
<1> QED
  BY <1>1, <1>2, <1>3, <1>4 DEF Asking

\* What the program makes of a line that it hears while the dialog is asked for.
LEMMA HeardLine ==
  ASSUME IInv, ReadAnswer, toClient # <<>>
  PROVE  /\ toClient \in Seq(PinentryLines) /\ toClient' = Tail(toClient)
         /\ \/ /\ Head(toClient) = Line("OK", <<>>) /\ outcome' = Entry(pin) /\ pc' = "bye"
               /\ UNCHANGED <<pin, toPinentry>>
            \/ /\ \E e \in Entries : Head(toClient) = Line("D", AssuanEscape(e)) /\ pin' = e
               /\ UNCHANGED <<pc, outcome, toPinentry>>
            \/ /\ Head(toClient) = Line("S", <<>>)
               /\ UNCHANGED <<pc, outcome, pin, toPinentry>>
            \/ /\ Head(toClient) = Line("INQUIRE", <<>>)
               /\ Write(Line("CAN", <<>>), "answer") /\ UNCHANGED pin
            \/ /\ Head(toClient) = Line("ERR", <<"cancelled">>) /\ outcome' = Cancelled /\ pc' = "bye"
               /\ UNCHANGED <<pin, toPinentry>>
            \/ /\ Head(toClient) \in {Line("ERR", <<"other">>), Line("other", <<>>)}
               /\ outcome' = Failed /\ pc' = "bye"
               /\ UNCHANGED <<pin, toPinentry>>
<1>1. toClient \in Seq(PinentryLines)
  BY DEF IInv, Lines
<1>2. Received \in PinentryLines /\ Received = Head(toClient)
  BY <1>1, FirstLine DEF Received
<1>3. toClient' = Tail(toClient) /\ Received.is \notin Noise
  BY DEF ReadAnswer, AtEnd
<1>4. \/ Received \in {Line("OK", <<>>), Line("S", <<>>), Line("INQUIRE", <<>>),
                       Line("ERR", <<"cancelled">>), Line("ERR", <<"other">>), Line("other", <<>>)}
      \/ \E e \in Entries : Received = Line("D", AssuanEscape(e))
  BY <1>2, <1>3 DEF PinentryLines, Replies, IdleLines, DataLines, Noise, Line
<1>5. CASE Received = Line("OK", <<>>)
  BY <1>1, <1>2, <1>3, <1>5 DEF ReadAnswer, AtEnd, IsStatus, Statuses, Line
<1>6. CASE Received = Line("S", <<>>)
  BY <1>1, <1>2, <1>3, <1>6 DEF ReadAnswer, AtEnd, IsStatus, Statuses, Line
<1>7. CASE Received = Line("INQUIRE", <<>>)
  BY <1>1, <1>2, <1>3, <1>7 DEF ReadAnswer, AtEnd, IsStatus, Statuses, Line
<1>8. CASE Received \in {Line("ERR", <<"cancelled">>), Line("ERR", <<"other">>), Line("other", <<>>)}
  <2>1. <<"cancelled">> # <<"other">>
    OBVIOUS
  <2> QED
    BY <1>1, <1>2, <1>3, <1>8, <2>1 DEF ReadAnswer, AtEnd, IsStatus, Statuses, ErrorOf, Line
<1>9. CASE \E e \in Entries : Received = Line("D", AssuanEscape(e))
  <2>1. PICK e \in Entries : Received = Line("D", AssuanEscape(e))
    BY <1>9
  <2>2. Received.is = "D" /\ Received.text = AssuanEscape(e)
    BY <2>1 DEF Line
  <2>3. pin' = AssuanUnescape(Received.text) /\ UNCHANGED <<pc, outcome, toPinentry>>
    BY <1>3, <2>2 DEF ReadAnswer, AtEnd, IsStatus, Statuses
  <2>4. pin' = e
    BY <2>2, <2>3, EntryArrives
  <2> QED
    BY <1>1, <1>2, <1>3, <2>1, <2>3, <2>4
<1> QED
  BY <1>4, <1>5, <1>6, <1>7, <1>8, <1>9

\* A line with an answer, or with a question, that comes first is the last but for
\* the OK after the data.
LEMMA AnswerFirst ==
  ASSUME toClient \in Seq(PinentryLines), toClient # <<>>, Asking, pc = "answer",
         toClient[1].is \notin {"S", "comment"}
  PROVE  /\ toPinentry = <<>>
         /\ \/ /\ Len(toClient) = 1 /\ toClient[1] = Line("INQUIRE", <<>>)
               /\ dialog = "inquiry" /\ pin = <<>>
            \/ /\ Len(toClient) = 1 /\ dialog = "closed"
               /\ \/ toClient[1] = Line("ERR", <<"other">>)
                  \/ toClient[1] = Line("ERR", <<"cancelled">>) /\ entered = Cancelled
                  \/ toClient[1] = Line("OK", <<>>) /\ entered = Entry(pin)
            \/ /\ Len(toClient) = 2 /\ dialog = "closed" /\ toClient[2] = Line("OK", <<>>)
               /\ \E e \in Entries : entered = Entry(e) /\ toClient[1] = Line("D", AssuanEscape(e))
<1> DEFINE n == Len(toClient)
<1>1. n \in Nat /\ n > 0 /\ n - 1 \in Int /\ n - 1 < n + 1 /\ n - 2 \in Int /\ n - 2 < n + 1
  BY FirstLine
<1>2. toClient[1] \notin IdleLines
  BY DEF IdleLines, Line
<1>3. ASSUME NEW m \in Int, m < n + 1, Idle(m)
      PROVE  m < 1
  BY <1>1, <1>2, <1>3 DEF Idle
<1>4. \/ /\ dialog = "inquiry" /\ toPinentry = <<>> /\ pin = <<>> /\ Idle(n - 1)
         /\ toClient[n] = Line("INQUIRE", <<>>)
      \/ dialog = "closed" /\ toPinentry = <<>> /\ Delivered(n)
  <2>1. ~ Idle(n) /\ toClient # <<>>
    BY <1>1, <1>3
  <2> QED
    BY <2>1 DEF Asking
<1>5. CASE /\ dialog = "inquiry" /\ toPinentry = <<>> /\ pin = <<>> /\ Idle(n - 1)
           /\ toClient[n] = Line("INQUIRE", <<>>)
  <2>1. n = 1
    <3>1. n - 1 < 1
      BY <1>1, <1>3, <1>5
    <3> HIDE DEF n
    <3> QED
      BY <1>1, <3>1
  <2> QED
    BY <1>5, <2>1
<1>6. CASE dialog = "closed" /\ toPinentry = <<>> /\ Delivered(n) /\ Idle(n - 1)
  <2>1. n = 1
    <3>1. n - 1 < 1
      BY <1>1, <1>3, <1>6
    <3> HIDE DEF n
    <3> QED
      BY <1>1, <3>1
  <2> QED
    BY <1>6, <2>1 DEF Delivered
<1>7. CASE dialog = "closed" /\ toPinentry = <<>> /\ Delivered(n) /\ ~ Idle(n - 1)
  <2>1. /\ n > 1 /\ toClient[n] = Line("OK", <<>>) /\ Idle(n - 2)
        /\ \E e \in Entries : entered = Entry(e) /\ toClient[n - 1] = Line("D", AssuanEscape(e))
    BY <1>7 DEF Delivered
  <2>2. n = 2
    <3>1. n - 2 < 1
      BY <1>1, <1>3, <2>1
    <3> HIDE DEF n
    <3> QED
      BY <1>1, <2>1, <3>1
  <2> QED
    BY <1>7, <2>1, <2>2
<1> QED
  BY <1>4, <1>5, <1>6, <1>7

\* The program stops listening with what the user did, or with a failure.
LEMMA HeardEnds ==
  ASSUME IInv, ReadAnswer, pc' # "answer"
  PROVE  /\ pc' = "bye" /\ toPinentry' = toPinentry /\ pin' = pin
         /\ \/ outcome' = Failed
            \/ outcome' = Down /\ proc = "exited"
            \/ outcome' = entered /\ entered # Nothing
<1>1. pc = "answer" /\ Asking /\ toClient \in Seq(PinentryLines)
  BY DEF ReadAnswer, IInv, Lines
<1>2. CASE toClient = <<>>
  BY <1>2 DEF ReadAnswer, AtEnd
<1>3. CASE toClient # <<>>
  <2>1. Head(toClient) = toClient[1]
    BY <1>1, <1>3, FirstLine
  <2>2. CASE Head(toClient) = Line("INQUIRE", <<>>)
    BY <1>3, <2>2, HeardLine DEF Write, Line
  <2>3. CASE Head(toClient) = Line("OK", <<>>)
    <3>1. entered = Entry(pin)
      <4>1. toClient[1].is = "OK"
        BY <2>1, <2>3 DEF Line
      <4>2. \/ toClient[1] = Line("OK", <<>>) /\ entered = Entry(pin)
            \/ toClient[1].is \in {"INQUIRE", "ERR", "D"}
        <5>1. toClient[1].is \notin {"S", "comment"}
          BY <4>1
        <5>2. /\ Line("INQUIRE", <<>>).is = "INQUIRE" /\ Line("OK", <<>>).is = "OK"
              /\ Line("ERR", <<"other">>).is = "ERR" /\ Line("ERR", <<"cancelled">>).is = "ERR"
              /\ \A e \in Entries : Line("D", AssuanEscape(e)).is = "D"
          BY DEF Line
        <5> QED
          BY <1>1, <1>3, <4>1, <5>1, <5>2, AnswerFirst
      <4> QED
        BY <4>1, <4>2
    <3>2. outcome' = Entry(pin) /\ pc' = "bye" /\ pin' = pin /\ toPinentry' = toPinentry
      BY <1>3, <2>3, HeardLine DEF Line
    <3> QED
      BY <3>1, <3>2 DEF Entry, Nothing, Line
  <2>4. CASE Head(toClient) = Line("ERR", <<"cancelled">>)
    <3>1. <<"cancelled">> # <<"other">>
      OBVIOUS
    <3>2. entered = Cancelled
      <4>1. toClient[1].is = "ERR" /\ toClient[1].text = <<"cancelled">>
        BY <2>1, <2>4 DEF Line
      <4>2. \/ toClient[1] = Line("ERR", <<"other">>)
            \/ entered = Cancelled
            \/ toClient[1].is \in {"INQUIRE", "OK", "D"}
        <5>1. toClient[1].is \notin {"S", "comment"}
          BY <4>1
        <5>2. /\ Line("INQUIRE", <<>>).is = "INQUIRE" /\ Line("OK", <<>>).is = "OK"
              /\ Line("ERR", <<"other">>).is = "ERR" /\ Line("ERR", <<"cancelled">>).is = "ERR"
              /\ \A e \in Entries : Line("D", AssuanEscape(e)).is = "D"
          BY DEF Line
        <5> QED
          BY <1>1, <1>3, <4>1, <5>1, <5>2, AnswerFirst
      <4>3. Line("ERR", <<"other">>).text = <<"other">>
        BY DEF Line
      <4> QED
        BY <3>1, <4>1, <4>2, <4>3
    <3>3. outcome' = Cancelled /\ pc' = "bye" /\ pin' = pin /\ toPinentry' = toPinentry
      BY <1>3, <2>4, <3>1, HeardLine DEF Line
    <3> QED
      BY <3>2, <3>3 DEF Cancelled, Nothing, Line
  <2>5. CASE Head(toClient) \in {Line("ERR", <<"other">>), Line("other", <<>>)}
    <3>1. <<"cancelled">> # <<"other">>
      OBVIOUS
    <3> QED
      BY <1>3, <2>5, <3>1, HeardLine DEF Line
  <2> QED
    BY <1>1, <1>3, <2>2, <2>3, <2>4, <2>5, HeardLine
<1> QED
  BY <1>2, <1>3

\* The program goes on listening: the dialog is as it was.
LEMMA HeardGoesOn ==
  ASSUME IInv, ReadAnswer, pc' = "answer"
  PROVE  /\ outcome' = outcome /\ Asking'
         /\ toPinentry' = toPinentry
            \/ (toPinentry' = <<Line("CAN", <<>>)>> /\ dialog # "closed")
<1>1. /\ pc = "answer" /\ Asking /\ toClient \in Seq(PinentryLines)
      /\ UNCHANGED <<pc, dialog, entered>>
  BY DEF ReadAnswer, IInv, Lines, pinentry
<1>2. toClient # <<>>
  BY <1>1 DEF ReadAnswer, AtEnd
<1>3. /\ Head(toClient) = toClient[1] /\ toClient' = Tail(toClient)
      /\ Len(toClient) \in Nat /\ Len(toClient) > 0 /\ Len(toClient') = Len(toClient) - 1
      /\ \A i \in 1..Len(toClient) - 1 : toClient'[i] = toClient[i + 1]
      /\ toClient' \in Seq(PinentryLines)
  BY <1>1, <1>2, FirstLine, HeardLine
<1>4. /\ Line("INQUIRE", <<>>).is = "INQUIRE" /\ Line("OK", <<>>).is = "OK" /\ Line("S", <<>>).is = "S"
      /\ Line("ERR", <<"other">>).is = "ERR" /\ Line("ERR", <<"cancelled">>).is = "ERR"
      /\ \A e \in Entries : Line("D", AssuanEscape(e)).is = "D"
  BY DEF Line
<1>5. CASE Head(toClient) = Line("S", <<>>)
  <2>1. UNCHANGED <<outcome, pin, toPinentry>>
    BY <1>2, <1>4, <1>5, HeardLine
  <2>2. Head(toClient).is \in {"S", "comment", "empty"}
    BY <1>4, <1>5
  <2> QED
    BY <1>1, <1>2, <1>3, <2>1, <2>2, IdlePasses
<1>6. CASE Head(toClient) = Line("INQUIRE", <<>>)
  <2>1. Len(toClient) = 1 /\ dialog = "inquiry" /\ pin = <<>> /\ toPinentry = <<>>
    <3>1. toClient[1].is = "INQUIRE" /\ toClient[1].is \notin {"S", "comment"}
      BY <1>3, <1>4, <1>6
    <3> QED
      BY <1>1, <1>2, <1>4, <3>1, AnswerFirst
  <2>2. UNCHANGED <<outcome, pin>> /\ toPinentry' = Append(toPinentry, Line("CAN", <<>>))
    BY <1>2, <1>4, <1>6, HeardLine DEF Write
  <2>3. toPinentry' = <<Line("CAN", <<>>)>>
    BY <2>1, <2>2
  <2>4. toClient' = <<>>
    BY <1>3, <2>1
  <2> QED
    BY <1>1, <2>1, <2>2, <2>3, <2>4 DEF Asking
<1>7. CASE \E e \in Entries : Head(toClient) = Line("D", AssuanEscape(e))
  <2>1. toClient[1].is = "D" /\ toClient[1].is \notin {"S", "comment"}
    BY <1>3, <1>4, <1>7
  <2>2. PICK e \in Entries : Head(toClient) = Line("D", AssuanEscape(e)) /\ pin' = e
    BY <1>2, <1>3, <1>4, <2>1, HeardLine
  <2>3. UNCHANGED <<outcome, toPinentry>>
    BY <1>2, <1>3, <1>4, <2>1, HeardLine
  <2>4. PICK d \in Entries : /\ Len(toClient) = 2 /\ dialog = "closed" /\ toPinentry = <<>>
                             /\ toClient[2] = Line("OK", <<>>)
                             /\ entered = Entry(d) /\ toClient[1] = Line("D", AssuanEscape(d))
    BY <1>1, <1>2, <1>4, <2>1, AnswerFirst
  <2>5. d = e
    <3>1. AssuanEscape(d) = AssuanEscape(e)
      BY <1>3, <2>2, <2>4 DEF Line
    <3> QED
      BY <3>1, EntryArrives
  <2>6. Len(toClient') = 1 /\ toClient'[1] = Line("OK", <<>>) /\ entered' = Entry(pin')
    BY <1>1, <1>3, <2>2, <2>4, <2>5
  <2>7. Delivered(Len(toClient))'
    BY <2>6 DEF Delivered, Idle, Entry, Line
  <2> QED
    BY <1>1, <2>3, <2>4, <2>6, <2>7 DEF Asking
<1> QED
  BY <1>1, <1>2, <1>5, <1>6, <1>7, HeardLine

LEMMA StartStep ==
  ASSUME IInv, Start
  PROVE  IInv'
<1>1. Scalars'
  BY DEF IInv, Scalars, Endings, Start, Actions, Closing, Results, Setup, Down, Failed, Nothing,
         Return, pinentry, pipes, Cancelled, Entry, Line
<1>2. Lines'
  <2>1. prompt' = prompt
    BY DEF Start, client
  <2>2. CommandsFor(prompt) \in Seq(SetupLines) /\ todo \in Seq(SetupLines)
    BY CommandsSayAll DEF IInv, Lines
  <2>3. /\ prompt \in Prompts /\ toPinentry \in Seq(ClientLines) /\ toClient \in Seq(PinentryLines)
        /\ shown \in [description : Seq(Characters), message : Seq(Characters)]
    BY DEF IInv, Lines
  <2>4. CASE pc' = "greeting"
    <3>1. /\ todo' = CommandsFor(prompt) /\ toPinentry' = <<>> /\ toClient' = <<>>
          /\ shown' = [description |-> <<>>, message |-> <<>>]
      BY <2>4 DEF Start, Return
    <3>2. <<>> \in Seq(ClientLines) /\ <<>> \in Seq(PinentryLines) /\ <<>> \in Seq(Characters)
      OBVIOUS
    <3> QED
      BY <2>1, <2>2, <2>3, <3>1, <3>2, LinesStay DEF Lines
  <2>5. CASE pc' = "done"
    <3>1. UNCHANGED <<todo, toPinentry, toClient, shown>>
      BY <2>5 DEF Start, Return, pipes, pinentry
    <3> QED
      BY <2>1, <2>2, <2>3, <3>1, LinesStay DEF Lines
  <2> QED
    BY <2>4, <2>5 DEF Start, Return
<1>3. Endings'
  BY DEF IInv, Endings, Start, Down, Setup, Failed, Nothing, Return, pinentry, pipes, Line
<1>4. Turns'
  BY DEF IInv, Turns, Start, Nothing, Setup, pinentry, Failed, Return, pipes, Line
<1>5. Telling'
  <2>1. prompt' = prompt
    BY DEF Start, client
  <2>2. /\ \E i \in 1..Len(CommandsFor(prompt)) : CommandsFor(prompt)[i] = DescriptionLine
        /\ \/ prompt.message = <<>>
           \/ \E i \in 1..Len(CommandsFor(prompt)) : CommandsFor(prompt)[i] = MessageLine
    BY CommandsSayAll DEF IInv, Lines
  <2>3. pc = "start" /\ proc \in {"none", "exited"}
    BY DEF Start, IInv, Endings
  <2>4. CASE pc' = "greeting"
    <3>1. /\ todo' = CommandsFor(prompt) /\ toPinentry' = <<>> /\ dialog' = "closed"
          /\ shown'.message = <<>>
      BY <2>4 DEF Start, Return
    <3> QED
      BY <2>1, <2>2, <2>4, <3>1, LinesStay DEF Telling, Waits, Setup
  <2>5. CASE pc' = "done"
    BY <2>1, <2>3, <2>5, LinesStay DEF IInv, Telling, Start, Setup, client, pipes, pinentry
  <2> QED
    BY <2>4, <2>5 DEF Start, Return
<1>6. Asking'
  BY DEF IInv, Asking, Start, Delivered, Idle, Line, Nothing, Failed, Return, pinentry, pipes,
         Cancelled, Entry, IdleLines
<1>7. Hearing'
  BY DEF IInv, Hearing, Start, Closing, Down, Failed, Nothing, Return, pinentry, pipes, Line
<1> QED
  BY <1>1, <1>2, <1>3, <1>4, <1>5, <1>6, <1>7 DEF IInv

LEMMA SkipLineStep ==
  ASSUME IInv, SkipLine
  PROVE  IInv'
<1>1. Scalars'
  BY DEF IInv, Scalars, SkipLine, Actions, Closing, Results, Setup, Noise, Reads, Received,
         client, pinentry, Cancelled, Entry, Nothing, Down, Failed, Line
<1>2. Lines'
  BY DEF IInv, Lines, SkipLine, ClientLines, PinentryLines, SetupLines, Noise, Reads, Received,
         client, pinentry, AskLines, Line, DataLines, IdleLines, Replies, DescriptionLine,
         MessageLine
<1>3. Endings'
  BY DEF IInv, Endings, SkipLine, Down, Setup, Noise, Reads, Received, client, pinentry, Line
<1>4. Turns'
  BY DEF IInv, Turns, SkipLine, Nothing, Setup, pinentry, Noise, Reads, Received, client, Line
<1>5. Telling'
  BY DEF IInv, Telling, SkipLine, AskLines, DescriptionLine, MessageLine, Setup, SetupLines,
         Waits, Noise, Reads, Received, client, pinentry, Line
<1>6. Asking'
  <2>1. toClient \in Seq(PinentryLines) /\ Asking
    BY DEF IInv, Lines
  <2>2. /\ toClient # <<>> /\ toClient' = Tail(toClient) /\ Head(toClient).is \in {"comment", "empty"}
        /\ UNCHANGED <<pc, dialog, toPinentry, entered, pin>>
    BY DEF SkipLine, Received, Noise, client, pinentry
  <2> QED
    BY <2>1, <2>2, IdlePasses
<1>7. Hearing'
  BY DEF IInv, Hearing, SkipLine, Closing, Down, Failed, Nothing, Noise, Reads, Received,
         client, pinentry, Line
<1> QED
  BY <1>1, <1>2, <1>3, <1>4, <1>5, <1>6, <1>7 DEF IInv

LEMMA ReadOKStep ==
  ASSUME IInv, ReadOK
  PROVE  IInv'
<1>1. Scalars'
  BY DEF IInv, Scalars, ReadOK, Actions, Closing, Results, Setup, AtEnd, Down, Failed, Noise,
         Received, pinentry, Cancelled, Entry, Nothing, Line
<1>2. Lines'
  <2>1. prompt' = prompt
    BY DEF ReadOK, client
  <2>2. toClient \in Seq(PinentryLines)
    BY DEF IInv, Lines
  <2>3. toClient' \in Seq(PinentryLines)
    BY <2>2, FirstLine DEF ReadOK
  <2> QED
    BY <2>1, <2>3, LinesStay DEF IInv, Lines, ReadOK, client, pinentry
<1>3. Endings'
  BY DEF IInv, Endings, ReadOK, Down, Setup, AtEnd, Failed, Noise, Received, pinentry, Line
<1>4. Turns'
  BY DEF IInv, Turns, ReadOK, Nothing, Setup, pinentry, AtEnd, Down, Failed, Noise, Received, Line
<1>5. Telling'
  BY DEF IInv, Telling, Turns, ReadOK, AskLines, DescriptionLine, MessageLine, Setup,
         SetupLines, Waits, Nothing, pinentry, AtEnd, Down, Failed, Noise, Received, Line
<1>6. Asking'
  BY DEF IInv, Asking, ReadOK, Delivered, Idle, Line, Nothing, AtEnd, Down, Failed, Noise,
         Received, pinentry, Cancelled, Entry, IdleLines
<1>7. Hearing'
  BY DEF IInv, Hearing, ReadOK, Closing, Down, Failed, Nothing, AtEnd, Noise, Received,
         pinentry, Line
<1> QED
  BY <1>1, <1>2, <1>3, <1>4, <1>5, <1>6, <1>7 DEF IInv

LEMMA ConfigureStep ==
  ASSUME IInv, Configure
  PROVE  IInv'
<1>1. Scalars'
  BY DEF IInv, Scalars, Configure, Actions, Closing, Results, Setup, Line, Write, pinentry,
         Cancelled, Entry, Nothing, Down, Failed
<1>2. Lines'
  <2>1. prompt' = prompt
    BY DEF Configure
  <2>2. todo \in Seq(SetupLines) /\ toPinentry \in Seq(ClientLines)
    BY DEF IInv, Lines
  <2>3. todo' \in Seq(SetupLines)
    BY <2>2, FirstLine DEF Configure
  <2>4. toPinentry' \in Seq(ClientLines)
    <3>1. ASSUME NEW line \in ClientLines, NEW next, Write(line, next)
          PROVE  toPinentry' \in Seq(ClientLines)
      BY <2>2, <3>1, LastLine DEF Write
    <3>2. todo # <<>> => Head(todo) \in ClientLines
      BY <2>2, FirstLine, KnownLines
    <3> QED
      BY <3>1, <3>2, KnownLines DEF Configure
  <2> QED
    BY <2>1, <2>3, <2>4, LinesStay DEF IInv, Lines, Configure, pinentry
<1>3. Endings'
  BY DEF IInv, Endings, Lines, Turns, Configure, Down, Setup, ClientLines, PinentryLines,
         SetupLines, Nothing, pinentry, Line, Write, AskLines, DataLines, IdleLines, Replies,
         DescriptionLine, MessageLine
<1>4. Turns'
  <2>1. UNCHANGED greeted /\ UNCHANGED dialog
    BY ConfiguredLine DEF pinentry
  <2>2. pc' = "reply" => /\ Len(toPinentry') = 1 /\ Len(toClient') = 0
                         /\ \A i \in 1..1 : toPinentry'[i] \in SetupLines'
    BY ConfiguredLine, LinesStay
  <2>3. pc' \in {"bye", "answer", "reply"} /\ greeted'
    BY <2>1, ConfiguredLine
  <2>4. dialog' = "closed" /\ entered' = Nothing /\ pin' = <<>>
    BY <2>1, ConfiguredLine DEF Nothing
  <2>5. pc' = "reply" => /\ Len(toPinentry') + Len(toClient') <= 1
                         /\ \A i \in 1..Len(toPinentry') : toPinentry'[i] \in SetupLines'
    <3>1. SUFFICES ASSUME pc' = "reply"
                   PROVE  /\ Len(toPinentry') + Len(toClient') <= 1
                          /\ \A i \in 1..Len(toPinentry') : toPinentry'[i] \in SetupLines'
      OBVIOUS
    <3>2. Len(toPinentry') = 1 /\ Len(toClient') = 0
      BY <2>2, <3>1
    <3>3. Len(toPinentry') + Len(toClient') <= 1
      BY ONLY <3>2
    <3> QED
      BY <2>2, <3>1, <3>2, <3>3
  <2> QED
    BY <2>3, <2>4, <2>5 DEF Turns, Nothing
<1>5. Telling'
  <2>1. UNCHANGED proc /\ UNCHANGED dialog /\ UNCHANGED shown /\ dialog = "closed"
    BY ConfiguredLine DEF pinentry
  <2>2. /\ todo \in Seq(SetupLines) /\ Len(toPinentry) = 0
        /\ shown \in [description : Seq(Characters), message : Seq(Characters)]
    BY ConfiguredLine DEF IInv, Lines
  <2>3. /\ shown.description = prompt.description \/ \E i \in 1..Len(todo) : todo[i] = DescriptionLine
        /\ shown.message = prompt.message \/ \E i \in 1..Len(todo) : todo[i] = MessageLine
    BY <2>2, ConfiguredLine DEF IInv, Telling, Waits, Setup
  <2>4. AskLines' = AskLines /\ SetupLines' = SetupLines /\ DescriptionLine' = DescriptionLine
        /\ MessageLine' = MessageLine
    BY LinesStay, ConfiguredLine DEF AskLines
  <2>5. CASE proc = "exited"
    <3>1. pc' = "bye" /\ toPinentry' = <<>> /\ Len(toPinentry') = 0
      BY <2>5, ConfiguredLine
    <3> QED
      BY <2>1, <2>5, <3>1 DEF Telling, Setup
  <2>6. CASE proc # "exited" /\ todo = <<>>
    <3>1. /\ toPinentry' = <<Line("GETPIN", <<>>)>> /\ pc' = "answer"
          /\ Len(toPinentry') = 1 /\ toPinentry'[1] = Line("GETPIN", <<>>)
      BY <2>6, ConfiguredLine
    <3>2. shown = [description |-> prompt.description, message |-> prompt.message]
      BY <2>2, <2>3, <2>6
    <3>3. Line("GETPIN", <<>>) \notin SetupLines
      BY DEF SetupLines, DescriptionLine, MessageLine, Line
    <3>4. shown' = [description |-> prompt'.description, message |-> prompt'.message]
      BY <2>1, <3>2, ConfiguredLine
    <3> QED
      BY <2>4, <3>1, <3>3, <3>4 DEF Telling, Setup
  <2>7. CASE proc # "exited" /\ todo # <<>>
    <3>1. /\ todo' = Tail(todo) /\ pc' = "reply" /\ todo[1] \in SetupLines
          /\ Len(toPinentry') = 1 /\ toPinentry'[1] = todo[1]
      BY <2>7, ConfiguredLine
    <3>2. /\ Len(todo) \in Nat /\ Len(todo') = Len(todo) - 1
          /\ \A i \in 1..Len(todo) - 1 : todo'[i] = todo[i + 1]
      BY <2>2, <2>7, <3>1, FirstLine
    <3>3. ASSUME NEW line, NEW i \in 1..Len(todo), todo[i] = line
          PROVE  Waits(line)'
      <4>1. CASE i = 1
        BY <3>1, <3>3, <4>1 DEF Waits
      <4>2. CASE i # 1
        <5>1. i - 1 \in 1..Len(todo') /\ todo'[i - 1] = line
          BY <3>2, <3>3, <4>2
        <5> QED
          BY <5>1 DEF Waits
      <4> QED
        BY <4>1, <4>2
    <3>4. toPinentry'[1] \notin AskLines
      BY <3>1 DEF SetupLines, AskLines, DescriptionLine, MessageLine, Line
    <3>5. /\ shown'.description = prompt'.description \/ Waits(DescriptionLine)'
          /\ shown'.message = prompt'.message \/ Waits(MessageLine)'
      BY <2>1, <2>3, <2>4, <3>3, ConfiguredLine
    <3> QED
      BY <2>1, <2>4, <3>1, <3>4, <3>5 DEF Telling, Setup
  <2> QED
    BY <2>5, <2>6, <2>7
<1>6. Asking'
  BY DEF IInv, Asking, Turns, Configure, Delivered, Idle, Line, Nothing, Setup, pinentry, Write,
         Cancelled, Entry, IdleLines, Down
<1>7. Hearing'
  BY DEF IInv, Hearing, Configure, Closing, Down, Failed, Nothing, Line, Write, pinentry
<1> QED
  BY <1>1, <1>2, <1>3, <1>4, <1>5, <1>6, <1>7 DEF IInv

LEMMA ReadAnswerStep ==
  ASSUME IInv, ReadAnswer
  PROVE  IInv'
<1>1. Scalars'
  <2>1. outcome' \in Results /\ pc' \in {"answer", "bye"}
    <3>1. pc' \in {"answer", "bye"}
      BY HeardEnds
    <3>2. entered \in Actions /\ outcome \in Results
      BY DEF IInv, Scalars
    <3> QED
      BY <3>1, <3>2, HeardEnds, HeardGoesOn DEF Results
  <2> QED
    BY <2>1 DEF IInv, Scalars, ReadAnswer, pinentry, Closing
<1>2. Lines'
  <2>1. prompt' = prompt /\ todo' = todo /\ shown' = shown
    BY DEF ReadAnswer, pinentry
  <2>2. toClient \in Seq(PinentryLines) /\ toPinentry \in Seq(ClientLines)
    BY DEF IInv, Lines
  <2>3. toClient' \in Seq(PinentryLines)
    BY <2>2, FirstLine, HeardLine DEF ReadAnswer
  <2>4. toPinentry' \in Seq(ClientLines)
    <3>1. <<Line("CAN", <<>>)>> \in Seq(ClientLines)
      BY KnownLines
    <3> QED
      BY <2>2, <3>1, HeardEnds, HeardGoesOn
  <2> QED
    BY <2>1, <2>3, <2>4, LinesStay DEF IInv, Lines
<1>3. Endings'
  <2>1. pc = "answer" /\ UNCHANGED <<proc, runs, crashes>> /\ pc' \in {"answer", "bye"}
    BY HeardEnds DEF ReadAnswer, pinentry
  <2>2. /\ proc # "leaving" /\ (proc = "exited" => crashes < MaxCrashes)
        /\ \A i \in 1..Len(toPinentry) : toPinentry[i].is # "BYE"
        /\ outcome = Down => crashes < MaxCrashes
        /\ runs = 2 => crashes < MaxCrashes
    BY <2>1 DEF IInv, Endings
  <2>3. \A i \in 1..Len(toPinentry') : toPinentry'[i].is # "BYE"
    <3>1. \A i \in 1..Len(<<Line("CAN", <<>>)>>) : <<Line("CAN", <<>>)>>[i].is # "BYE"
      BY DEF Line
    <3> QED
      BY <2>2, <3>1, HeardEnds, HeardGoesOn
  <2>4. outcome' = Down => crashes < MaxCrashes
    <3>1. outcome' = entered => outcome' # Down
      BY DEF IInv, Scalars, Actions, Nothing, Cancelled, Entry, Down, Line
    <3>2. Failed # Down
      BY DEF Failed, Down, Line
    <3> QED
      BY <2>1, <2>2, <3>1, <3>2, HeardEnds, HeardGoesOn
  <2> QED
    BY <2>1, <2>2, <2>3, <2>4 DEF Endings, Down
<1>4. Turns'
  BY DEF IInv, Turns, ReadAnswer, Nothing, Setup, pinentry, AtEnd, Down, Entry, ErrorOf, Failed,
         IsStatus, Line, Noise, Received, Write, Cancelled, Statuses
<1>5. Telling'
  <2>1. /\ pc = "answer" /\ UNCHANGED <<prompt, proc, shown, dialog, greeted, entered>>
        /\ pc' \in {"answer", "bye"}
    BY HeardEnds DEF ReadAnswer, pinentry
  <2>2. /\ SetupLines' = SetupLines /\ AskLines' = AskLines
        /\ Line("CAN", <<>>) \notin SetupLines
    BY <2>1, LinesStay DEF AskLines, SetupLines, DescriptionLine, MessageLine, Line
  <2>3. /\ Len(<<Line("CAN", <<>>)>>) = 1 /\ <<Line("CAN", <<>>)>>[1] = Line("CAN", <<>>)
    OBVIOUS
  <2>4. CASE toPinentry' = toPinentry
    BY <2>1, <2>2, <2>4 DEF IInv, Telling, Setup
  <2>5. CASE toPinentry' = <<Line("CAN", <<>>)>> /\ dialog # "closed"
    BY <2>1, <2>2, <2>3, <2>5 DEF IInv, Telling, Setup
  <2> QED
    BY <2>1, <2>4, <2>5, HeardEnds, HeardGoesOn
<1>6. Asking'
  BY HeardEnds, HeardGoesOn DEF Asking
<1>7. Hearing'
  <2>1. /\ pc = "answer" /\ UNCHANGED <<answer, entered>> /\ pc' \in {"answer", "bye"}
    BY HeardEnds DEF ReadAnswer
  <2> QED
    BY <2>1, HeardEnds DEF IInv, Hearing, Closing, Down, Failed, Nothing
<1> QED
  BY <1>1, <1>2, <1>3, <1>4, <1>5, <1>6, <1>7 DEF IInv

LEMMA SayByeStep ==
  ASSUME IInv, SayBye
  PROVE  IInv'
<1>1. Scalars'
  BY DEF IInv, Scalars, SayBye, Actions, Closing, Results, Setup, Line, client, pinentry,
         Cancelled, Entry, Nothing, Down, Failed
<1>2. Lines'
  <2>1. prompt' = prompt
    BY DEF SayBye, client
  <2>2. toPinentry \in Seq(ClientLines)
    BY DEF IInv, Lines
  <2>3. toPinentry' \in Seq(ClientLines)
    BY <2>2, KnownLines, LastLine DEF SayBye
  <2> QED
    BY <2>1, <2>3, LinesStay DEF IInv, Lines, SayBye, client, pinentry
<1>3. Endings'
  BY DEF IInv, Endings, SayBye, Down, Setup, Line, client, pinentry
<1>4. Turns'
  BY DEF IInv, Turns, SayBye, Nothing, Setup, pinentry, Line, client
<1>5. Telling'
  <2>1. /\ pc = "bye" /\ UNCHANGED <<prompt, proc, shown, dialog>> /\ pc' \in {"farewell", "wait"}
    BY DEF SayBye, client, pinentry
  <2>2. toPinentry \in Seq(ClientLines) /\ Len(toPinentry) \in Nat
    BY DEF IInv, Lines
  <2>3. /\ SetupLines' = SetupLines /\ AskLines' = AskLines
        /\ Line("BYE", <<>>) \notin SetupLines /\ Line("BYE", <<>>) \notin AskLines
    BY <2>1, LinesStay DEF AskLines, SetupLines, DescriptionLine, MessageLine, Line
  <2>4. ASSUME NEW i \in 1..Len(toPinentry')
        PROVE  \/ toPinentry'[i] = Line("BYE", <<>>)
               \/ i \in 1..Len(toPinentry) /\ toPinentry'[i] = toPinentry[i]
    <3>1. \/ toPinentry' = toPinentry
          \/ toPinentry' = Append(toPinentry, Line("BYE", <<>>))
      BY DEF SayBye
    <3>2. CASE toPinentry' = Append(toPinentry, Line("BYE", <<>>))
      <4>1. /\ Len(toPinentry') = Len(toPinentry) + 1
            /\ toPinentry'[Len(toPinentry) + 1] = Line("BYE", <<>>)
            /\ \A j \in 1..Len(toPinentry) : toPinentry'[j] = toPinentry[j]
        BY <2>2, <3>2, KnownLines, LastLine
      <4> QED
        BY <2>2, <2>4, <4>1
    <3> QED
      BY <3>1, <3>2
  <2>5. ASSUME proc = "running", NEW i \in 1..Len(toPinentry')
        PROVE  toPinentry'[i] \notin SetupLines
    BY <2>1, <2>3, <2>4, <2>5 DEF IInv, Telling, Setup
  <2>6. (\E i \in 1..Len(toPinentry') : toPinentry'[i] \in AskLines) =>
          \E i \in 1..Len(toPinentry) : toPinentry[i] \in AskLines
    BY <2>3, <2>4
  <2> QED
    BY <2>1, <2>3, <2>5, <2>6 DEF IInv, Telling, Setup
<1>6. Asking'
  BY DEF IInv, Asking, SayBye, Delivered, Idle, Line, Nothing, client, pinentry, Cancelled,
         Entry, IdleLines
<1>7. Hearing'
  BY DEF IInv, Hearing, SayBye, Closing, Down, Failed, Nothing, Line, client, pinentry
<1> QED
  BY <1>1, <1>2, <1>3, <1>4, <1>5, <1>6, <1>7 DEF IInv

LEMMA ReadFarewellStep ==
  ASSUME IInv, ReadFarewell
  PROVE  IInv'
<1>1. Scalars'
  BY DEF IInv, Scalars, ReadFarewell, Actions, Closing, Results, Setup, AtEnd, Noise, Received,
         client, pinentry, Cancelled, Entry, Nothing, Down, Failed, Line
<1>2. Lines'
  <2>1. prompt' = prompt
    BY DEF ReadFarewell, client
  <2>2. toClient \in Seq(PinentryLines)
    BY DEF IInv, Lines
  <2>3. toClient' \in Seq(PinentryLines)
    BY <2>2, FirstLine DEF ReadFarewell
  <2> QED
    BY <2>1, <2>3, LinesStay DEF IInv, Lines, ReadFarewell, client, pinentry
<1>3. Endings'
  BY DEF IInv, Endings, ReadFarewell, Down, Setup, AtEnd, Noise, Received, client, pinentry, Line
<1>4. Turns'
  BY DEF IInv, Turns, ReadFarewell, Nothing, Setup, pinentry, AtEnd, Noise, Received, client, Line
<1>5. Telling'
  BY DEF IInv, Telling, ReadFarewell, AskLines, DescriptionLine, MessageLine, Setup, SetupLines,
         Waits, AtEnd, Noise, Received, client, pinentry, Line
<1>6. Asking'
  BY DEF IInv, Asking, ReadFarewell, Delivered, Idle, Line, Nothing, AtEnd, Noise, Received,
         client, pinentry, Cancelled, Entry, IdleLines
<1>7. Hearing'
  BY DEF IInv, Hearing, ReadFarewell, Closing, Down, Failed, Nothing, AtEnd, Noise, Received,
         client, pinentry, Line
<1> QED
  BY <1>1, <1>2, <1>3, <1>4, <1>5, <1>6, <1>7 DEF IInv

LEMMA ReapStep ==
  ASSUME IInv, Reap
  PROVE  IInv'
<1>1. Scalars'
  BY DEF IInv, Scalars, Reap, Actions, Closing, Results, Setup, Down, Failed, IsPinentryDown,
         ProcessEnded, Return, pinentry, pipes, Cancelled, Entry, Nothing, Line
<1>2. Lines'
  BY DEF IInv, Lines, Reap, ClientLines, PinentryLines, SetupLines, Down, Failed,
         IsPinentryDown, ProcessEnded, Return, pinentry, pipes, AskLines, Line, DataLines,
         IdleLines, Replies, DescriptionLine, MessageLine
<1>3. Endings'
  BY DEF IInv, Endings, Reap, Down, Setup, Failed, IsPinentryDown, ProcessEnded, Return,
         pinentry, pipes, Line
<1>4. Turns'
  BY DEF IInv, Turns, Reap, Nothing, Setup, pinentry, Down, Failed, IsPinentryDown,
         ProcessEnded, Return, pipes, Line
<1>5. Telling'
  BY DEF IInv, Telling, Reap, AskLines, DescriptionLine, MessageLine, Setup, SetupLines, Waits,
         Down, Failed, IsPinentryDown, ProcessEnded, Return, pinentry, pipes, Line
<1>6. Asking'
  BY DEF IInv, Asking, Reap, Delivered, Idle, Line, Nothing, Down, Failed, IsPinentryDown,
         ProcessEnded, Return, pinentry, pipes, Cancelled, Entry, IdleLines
<1>7. Hearing'
  BY DEF IInv, Hearing, Reap, Closing, Down, Failed, Nothing, IsPinentryDown, ProcessEnded,
         Return, pinentry, pipes, Line
<1> QED
  BY <1>1, <1>2, <1>3, <1>4, <1>5, <1>6, <1>7 DEF IInv

LEMMA GreetStep ==
  ASSUME IInv, Greet
  PROVE  IInv'
<1>1. Scalars'
  BY DEF IInv, Scalars, Greet, Actions, Closing, Results, Setup, Replies, Reply, client,
         Cancelled, Entry, Nothing, Down, Failed, Line
<1>2. Lines'
  <2>1. prompt' = prompt
    BY DEF Greet, client
  <2>2. toClient \in Seq(PinentryLines)
    BY DEF IInv, Lines
  <2>3. toClient' \in Seq(PinentryLines)
    BY <2>2, KnownLines, LastLine DEF Greet, Reply
  <2> QED
    BY <2>1, <2>3, LinesStay DEF IInv, Lines, Greet, client
<1>3. Endings'
  BY DEF IInv, Endings, Greet, Down, Setup, Replies, Reply, client, Line
<1>4. Turns'
  BY DEF IInv, Turns, Greet, Nothing, Setup, pinentry, Replies, Reply, client, Line
<1>5. Telling'
  BY DEF IInv, Telling, Greet, AskLines, DescriptionLine, MessageLine, Setup, SetupLines, Waits,
         Replies, Reply, client, Line, pinentry
<1>6. Asking'
  BY DEF IInv, Asking, Turns, Greet, Delivered, Idle, Line, Nothing, Setup, pinentry, Replies,
         Reply, client, Cancelled, Entry, IdleLines
<1>7. Hearing'
  BY DEF IInv, Hearing, Greet, Closing, Down, Failed, Nothing, Replies, Reply, client, Line
<1> QED
  BY <1>1, <1>2, <1>3, <1>4, <1>5, <1>6, <1>7 DEF IInv

LEMMA ObeyStep ==
  ASSUME IInv, Obey
  PROVE  IInv'
<1>1. Scalars'
  <2>1. proc' \in {"running", "leaving"} /\ dialog' \in {"closed", "open", "inquiry"}
    BY ObeyedLine, ObeyedSetup, ObeyedAsk, ObeyedBye DEF ClientLines, IInv, Scalars
  <2> QED
    BY <2>1, ObeyedLine DEF IInv, Scalars
<1>2. Lines'
  <2>1. toPinentry' \in Seq(ClientLines)
    BY ObeyedLine, FirstLine
  <2>2. /\ prompt \in Prompts /\ todo \in Seq(SetupLines) /\ toClient \in Seq(PinentryLines)
        /\ shown \in [description : Seq(Characters), message : Seq(Characters)]
    BY DEF IInv, Lines
  <2>3. ASSUME Command \in SetupLines
        PROVE  /\ toClient' \in Seq(PinentryLines)
               /\ shown' \in [description : Seq(Characters), message : Seq(Characters)]
    <3>1. PICK line \in PinentryLines : toClient' = Append(toClient, line)
      BY <2>3, ObeyedSetup, KnownLines
    <3>2. toClient' \in Seq(PinentryLines)
      BY <2>2, <3>1, LastLine
    <3>3. prompt.description \in Seq(Characters) /\ prompt.message \in Seq(Characters)
      BY <2>2, PromptArrives
    <3>4. /\ shown'.description \in Seq(Characters) /\ shown'.message \in Seq(Characters)
          /\ shown' = [description |-> shown'.description, message |-> shown'.message]
      BY <2>2, <2>3, <3>3, ObeyedSetup
    <3> QED
      BY <3>2, <3>4
  <2>4. ASSUME Command \in AskLines
        PROVE  UNCHANGED <<toClient, shown>>
    BY <2>4, ObeyedAsk
  <2>5. ASSUME Command = Line("BYE", <<>>)
        PROVE  toClient' \in Seq(PinentryLines) /\ UNCHANGED shown
    <3>1. toClient' = Append(toClient, Line("OK", <<>>)) /\ UNCHANGED shown
      BY <2>5, ObeyedBye
    <3> QED
      BY <2>2, <3>1, KnownLines, LastLine
  <2>6. /\ toClient' \in Seq(PinentryLines)
        /\ shown' \in [description : Seq(Characters), message : Seq(Characters)]
    BY <2>2, <2>3, <2>4, <2>5, ObeyedLine DEF ClientLines
  <2> QED
    BY <2>1, <2>2, <2>6, ObeyedLine, LinesStay DEF Lines
<1>3. Endings'
  <2>1. /\ Len(toPinentry) \in Nat /\ Len(toPinentry') = Len(toPinentry) - 1
        /\ \A i \in 1..Len(toPinentry) - 1 : toPinentry'[i] = toPinentry[i + 1]
        /\ 1 \in 1..Len(toPinentry)
    BY ObeyedLine, FirstLine
  <2>2. (\E i \in 1..Len(toPinentry') : toPinentry'[i].is = "BYE") =>
          \E i \in 1..Len(toPinentry) : toPinentry[i].is = "BYE"
    BY <2>1
  <2>3. proc' = "running" \/ (proc' = "leaving" /\ toPinentry[1].is = "BYE")
    <3>1. Line("BYE", <<>>).is = "BYE"
      BY DEF Line
    <3> QED
      BY <3>1, ObeyedLine, ObeyedSetup, ObeyedAsk, ObeyedBye DEF ClientLines
  <2>4. /\ proc = "leaving" \/ (\E i \in 1..Len(toPinentry) : toPinentry[i].is = "BYE") =>
             pc \in {"farewell", "wait", "start", "done"}
        /\ pc \in {"start", "done"} => proc \in {"none", "exited"}
        /\ outcome = Down => crashes < MaxCrashes
        /\ runs = 2 => crashes < MaxCrashes
        /\ pc = "start" => runs = 0 \/ (runs = 1 /\ outcome = Down)
    BY DEF IInv, Endings
  <2> QED
    BY <2>1, <2>2, <2>3, <2>4, ObeyedLine DEF Endings, Down
<1>4. Turns'
  <2>1. /\ Len(toPinentry) \in Nat /\ Len(toPinentry) > 0 /\ Len(toPinentry') = Len(toPinentry) - 1
        /\ toPinentry \in Seq(ClientLines) /\ toPinentry' \in Seq(ClientLines)
    BY ObeyedLine, FirstLine
  <2>2. toClient \in Seq(PinentryLines)
    BY DEF IInv, Lines
  <2>3. pc = "reply" => Command \in SetupLines
    <3>1. 1 \in 1..Len(toPinentry) /\ Command = toPinentry[1]
      BY <2>1, ObeyedLine
    <3> QED
      BY <3>1 DEF IInv, Turns
  <2>4. Len(toClient') \in Nat /\ Len(toClient') <= Len(toClient) + 1
    <3>1. Len(toClient) \in Nat
      BY <2>2
    <3>2. \A line \in PinentryLines : Len(Append(toClient, line)) = Len(toClient) + 1
      BY <2>2, LastLine
    <3> QED
      BY <3>1, <3>2, ObeyedLine, ObeyedSetup, ObeyedAsk, ObeyedBye, KnownLines DEF ClientLines
  <2>5. /\ pc \notin {"greeting", "configure"}
        /\ pc = "reply" => Len(toPinentry) = 1 /\ Len(toClient) = 0
        /\ pc = "answer" => greeted
    BY <2>1, <2>2, ObeyedLine DEF IInv, Turns
  <2>6. pc \in Setup => dialog = "closed" /\ entered = Nothing /\ pin = <<>> /\ dialog' = dialog
    BY <2>3, <2>5, ObeyedSetup DEF IInv, Turns, Setup
  <2> QED
    BY <2>1, <2>4, <2>5, <2>6, ObeyedLine, LinesStay DEF Turns, Setup, Nothing
<1>5. Telling'
  <2>1. /\ Len(toPinentry) \in Nat /\ Len(toPinentry') = Len(toPinentry) - 1
        /\ \A i \in 1..Len(toPinentry) - 1 : toPinentry'[i] = toPinentry[i + 1]
        /\ 1 \in 1..Len(toPinentry)
    BY ObeyedLine, FirstLine
  <2>2. ASSUME NEW line, Waits(line)
        PROVE  Waits(line)' \/ line = Command
    <3>1. ASSUME NEW i \in 1..Len(toPinentry), toPinentry[i] = line, i # 1
          PROVE  i - 1 \in 1..Len(toPinentry') /\ toPinentry'[i - 1] = line
      BY <2>1, <3>1
    <3> QED
      BY <2>1, <2>2, <3>1, ObeyedLine DEF Waits
  <2>3. /\ Command \notin SetupLines => shown' = shown
        /\ Command \in SetupLines =>
             shown' = [description |-> IF Command = DescriptionLine THEN prompt.description
                                      ELSE shown.description,
                       message |-> IF Command = MessageLine THEN prompt.message ELSE shown.message]
    BY ObeyedLine, ObeyedSetup, ObeyedAsk, ObeyedBye DEF ClientLines
  <2>4. /\ Command = DescriptionLine => shown'.description = prompt.description
        /\ Command = MessageLine => shown'.message = prompt.message
        /\ shown.description = prompt.description => shown'.description = prompt.description
        /\ shown.message = prompt.message => shown'.message = prompt.message
    BY <2>3 DEF SetupLines
  <2>5. pc \in Setup =>
          /\ shown'.description = prompt.description \/ Waits(DescriptionLine)'
          /\ shown'.message = prompt.message \/ Waits(MessageLine)'
    BY <2>2, <2>4, LinesStay, ObeyedLine DEF IInv, Telling
  <2>6. ASSUME pc \notin Setup, proc' = "running", NEW i \in 1..Len(toPinentry')
        PROVE  toPinentry'[i] \notin SetupLines
    BY <2>1, <2>6, ObeyedLine DEF IInv, Telling
  <2>7. ASSUME dialog' # "closed" \/ (\E i \in 1..Len(toPinentry') : toPinentry'[i] \in AskLines)
        PROVE  shown' = [description |-> prompt.description, message |-> prompt.message]
    <3>1. dialog # "closed" \/ \E i \in 1..Len(toPinentry) : toPinentry[i] \in AskLines
      <4>1. ASSUME NEW i \in 1..Len(toPinentry'), toPinentry'[i] \in AskLines
            PROVE  i + 1 \in 1..Len(toPinentry) /\ toPinentry[i + 1] \in AskLines
        BY <2>1, <4>1
      <4>2. dialog' # "closed" => dialog # "closed" \/ Command \in AskLines
        BY ObeyedLine, ObeyedSetup, ObeyedBye DEF ClientLines
      <4> QED
        BY <2>1, <2>7, <4>1, <4>2, ObeyedLine
    <3>2. shown = [description |-> prompt.description, message |-> prompt.message]
      BY <3>1 DEF IInv, Telling
    <3> QED
      BY <2>3, <3>2
  <2>8. AskLines' = AskLines /\ SetupLines' = SetupLines /\ DescriptionLine' = DescriptionLine
        /\ MessageLine' = MessageLine
    BY LinesStay, ObeyedLine DEF AskLines
  <2> QED
    BY <2>5, <2>6, <2>7, <2>8, ObeyedLine DEF Telling, Setup
<1>6. Asking'
  <2>1. SUFFICES ASSUME pc = "answer"
                 PROVE  Asking'
    BY ObeyedLine DEF Asking
  <2>2. toPinentry' = Tail(toPinentry) /\ dialog # "open" /\ pc' = pc /\ pin' = pin
    BY ObeyedLine
  <2>3. /\ pin = <<>> /\ toClient = <<>>
        /\ toPinentry \in {<<Line("GETPIN", <<>>)>>, <<Line("CAN", <<>>)>>}
    BY <2>1, ObeyedLine DEF IInv, Asking
  <2>4. Command \in AskLines /\ toPinentry' = <<>>
    BY <2>2, <2>3 DEF Command, AskLines
  <2>5. dialog' = "open" /\ toClient' = <<>>
    BY <2>3, <2>4, ObeyedAsk
  <2> QED
    BY <2>1, <2>2, <2>3, <2>4, <2>5 DEF Asking, Idle
<1>7. Hearing'
  BY DEF IInv, Hearing, Obey, Closing, Down, Failed, Nothing, Command, Given, Line, Replies,
         Reply, client
<1> QED
  BY <1>1, <1>2, <1>3, <1>4, <1>5, <1>6, <1>7 DEF IInv

LEMMA ChatStep ==
  ASSUME IInv, Chat
  PROVE  IInv'
<1>1. Scalars'
  BY BoundsAssumption DEF IInv, Scalars, Chat, client
<1>2. Lines'
  <2>1. prompt' = prompt
    BY DEF Chat, client
  <2>2. toClient \in Seq(PinentryLines)
    BY DEF IInv, Lines
  <2>3. toClient' \in Seq(PinentryLines)
    BY <2>2, KnownLines, LastLine DEF Chat, Reply
  <2> QED
    BY <2>1, <2>3, LinesStay DEF IInv, Lines, Chat, client
<1>3. Endings'
  BY DEF IInv, Endings, Chat, Down, Setup, Line, Reply, client
<1>4. Turns'
  BY DEF IInv, Turns, Chat, Nothing, Setup, pinentry, Line, Reply, client
<1>5. Telling'
  BY DEF IInv, Telling, Chat, AskLines, DescriptionLine, MessageLine, Setup, SetupLines, Waits,
         Line, Reply, client, pinentry
<1>6. Asking'
  BY DEF IInv, Asking, Chat, Delivered, Idle, Line, Nothing, Reply, client, Cancelled, Entry,
         IdleLines
<1>7. Hearing'
  BY DEF IInv, Hearing, Chat, Closing, Down, Failed, Nothing, Line, Reply, client
<1> QED
  BY <1>1, <1>2, <1>3, <1>4, <1>5, <1>6, <1>7 DEF IInv

LEMMA UserAnswersStep ==
  ASSUME IInv, UserAnswers
  PROVE  IInv'
<1>1. Scalars'
  BY DEF IInv, Scalars, Endings, Turns, UserAnswers, DescriptionLine, MessageLine, SetupLines,
         AskLines, ClientLines, IdleLines, DataLines, PinentryLines, Actions, Results, Setup,
         Closing, client, pipes, pinentry, Line, Nothing, Cancelled, Failed, Down, Entry, Noise,
         Received, AtEnd, Command, Reply, Replies
<1>2. Lines'
  BY DEF IInv, Lines, Turns, UserAnswers, DescriptionLine, MessageLine, SetupLines, AskLines,
         ClientLines, IdleLines, DataLines, PinentryLines, Actions, Results, Setup, Closing,
         client, pipes, pinentry, Line, Nothing, Cancelled, Failed, Down, Entry, Noise,
         Received, AtEnd, Command, Reply, Replies
<1>3. Endings'
  BY DEF IInv, Scalars, Lines, Endings, Turns, UserAnswers, DescriptionLine, MessageLine,
         SetupLines, AskLines, ClientLines, IdleLines, DataLines, PinentryLines, Actions,
         Results, Setup, Closing, client, pipes, pinentry, Line, Nothing, Cancelled, Failed,
         Down, Entry, Noise, Received, AtEnd, Command, Reply, Replies
<1>4. Turns'
  BY DEF IInv, Turns, UserAnswers, Nothing, Setup, pinentry, Cancelled, Line
<1>5. Telling'
  BY DEF IInv, Scalars, Lines, Turns, Telling, Asking, Waits, Endings, UserAnswers,
         DescriptionLine, MessageLine, SetupLines, AskLines, ClientLines, IdleLines, DataLines,
         PinentryLines, Actions, Results, Setup, Closing, client, pipes, pinentry, Line,
         Nothing, Cancelled, Failed, Down, Entry, Noise, Received, AtEnd, Command, Reply,
         Replies
<1>6. Asking'
  BY DEF IInv, Scalars, Lines, Turns, Asking, Telling, Idle, Delivered, UserAnswers,
         DescriptionLine, MessageLine, SetupLines, AskLines, ClientLines, IdleLines, DataLines,
         PinentryLines, Actions, Results, Setup, Closing, client, pipes, pinentry, Line,
         Nothing, Cancelled, Failed, Down, Entry, Noise, Received, AtEnd, Command, Reply,
         Replies
<1>7. Hearing'
  BY DEF IInv, Scalars, Turns, Asking, Hearing, Endings, Idle, Delivered, UserAnswers,
         DescriptionLine, MessageLine, SetupLines, AskLines, ClientLines, IdleLines, DataLines,
         PinentryLines, Actions, Results, Setup, Closing, client, pipes, pinentry, Line,
         Nothing, Cancelled, Failed, Down, Entry, Noise, Received, AtEnd, Command, Reply,
         Replies
<1> QED
  BY <1>1, <1>2, <1>3, <1>4, <1>5, <1>6, <1>7 DEF IInv

LEMMA DeliverStep ==
  ASSUME IInv, Deliver
  PROVE  IInv'
<1>1. Scalars'
  BY DEF IInv, Scalars, Deliver, Actions, Closing, Results, Setup, Cancelled, Line, Reply,
         client, Entry, Nothing, Down, Failed
<1>2. Lines'
  <2>1. prompt' = prompt
    BY DEF Deliver, client
  <2>2. toClient \in Seq(PinentryLines)
    BY DEF IInv, Lines
  <2>3. ASSUME NEW line \in PinentryLines, Reply(line)
        PROVE  toClient' \in Seq(PinentryLines)
    BY <2>2, <2>3, LastLine DEF Reply
  <2>4. ASSUME entered.is = "entry",
               toClient' = toClient \o
                 (IF entered.text = <<>> THEN <<>> ELSE <<Line("D", AssuanEscape(entered.text))>>)
                 \o <<Line("OK", <<>>)>>
        PROVE  toClient' \in Seq(PinentryLines)
    <3>1. entered.text \in Entries
      BY <2>4 DEF IInv, Scalars, Actions, Nothing, Cancelled, Entry, Line
    <3>2. <<Line("OK", <<>>)>> \in Seq(PinentryLines)
          /\ <<Line("D", AssuanEscape(entered.text))>> \in Seq(PinentryLines)
      BY <3>1, KnownLines
    <3> QED
      BY <2>2, <2>4, <3>2, Concatenation
  <2>5. toClient' \in Seq(PinentryLines)
    BY <2>3, <2>4, KnownLines DEF Deliver
  <2> QED
    BY <2>1, <2>5, LinesStay DEF IInv, Lines, Deliver, client
<1>3. Endings'
  BY DEF IInv, Endings, Deliver, Down, Setup, Cancelled, Line, Reply, client
<1>4. Turns'
  BY DEF IInv, Turns, Deliver, Nothing, Setup, pinentry, Cancelled, Line, Reply, client
<1>5. Telling'
  BY DEF IInv, Telling, Deliver, AskLines, DescriptionLine, MessageLine, Setup, SetupLines,
         Waits, Cancelled, Line, Reply, client, pinentry
<1>6. Asking'
  <2> DEFINE n == Len(toClient)
  <2>1. SUFFICES ASSUME pc = "answer"
                 PROVE  Asking'
    BY DEF Deliver, Asking
  <2>2. /\ toClient \in Seq(PinentryLines) /\ n \in Nat
        /\ dialog' = "closed" /\ toPinentry' = <<>> /\ UNCHANGED <<pc, pin, entered>>
        /\ pin = <<>> /\ entered \in Actions /\ \A i \in 1..n : toClient[i] \in IdleLines
    BY <2>1 DEF IInv, Scalars, Lines, Asking, Idle, Deliver, client
  <2>3. SUFFICES Len(toClient') > 0 /\ Delivered(Len(toClient))'
    BY <2>2 DEF Asking
  <2>4. IdleLines' = IdleLines
    BY DEF IdleLines
  <2>5. ASSUME NEW line \in PinentryLines, toClient' = Append(toClient, line)
        PROVE  /\ Len(toClient') = n + 1 /\ toClient'[n + 1] = line
               /\ \A i \in 1..n : toClient'[i] \in IdleLines
    <3> HIDE DEF n
    <3> QED
      BY <2>2, <2>5, LastLine DEF n
  <2>6. CASE \/ entered = Cancelled /\ Reply(Line("ERR", <<"cancelled">>))
             \/ Reply(Line("ERR", <<"other">>))
    <3>1. PICK line \in PinentryLines :
            /\ toClient' = Append(toClient, line)
            /\ \/ line = Line("ERR", <<"cancelled">>) /\ entered = Cancelled
               \/ line = Line("ERR", <<"other">>)
      BY <2>6, KnownLines DEF Reply
    <3>2. /\ Len(toClient') = n + 1 /\ toClient'[n + 1] = line
          /\ \A i \in 1..n : toClient'[i] \in IdleLines
      BY <2>5, <3>1
    <3>3. Idle(Len(toClient) - 1)'
      BY <2>2, <3>2 DEF Idle
    <3> QED
      BY <2>2, <3>1, <3>2, <3>3 DEF Delivered
  <2>7. CASE /\ entered.is = "entry"
             /\ toClient' = toClient \o
                  (IF entered.text = <<>> THEN <<>> ELSE <<Line("D", AssuanEscape(entered.text))>>)
                  \o <<Line("OK", <<>>)>>
    <3>1. PICK e \in Entries : entered = Entry(e)
      BY <2>2, <2>7 DEF Actions, Nothing, Cancelled, Entry, Line
    <3>2. entered.text = e
      BY <3>1 DEF Entry, Line
    <3>3. CASE e = <<>>
      <4>1. toClient' = Append(toClient, Line("OK", <<>>))
        <5>1. toClient \o <<>> = toClient /\ \A line : toClient \o <<line>> = Append(toClient, line)
          BY <2>2
        <5> QED
          BY <2>7, <3>2, <3>3, <5>1
      <4>2. /\ Len(toClient') = n + 1 /\ toClient'[n + 1] = Line("OK", <<>>)
            /\ \A i \in 1..n : toClient'[i] \in IdleLines
        BY <2>5, <4>1, KnownLines
      <4>3. Idle(Len(toClient) - 1)'
        BY <2>2, <4>2 DEF Idle
      <4>4. entered' = Entry(pin')
        BY <2>2, <3>1, <3>3
      <4> QED
        BY <2>2, <4>2, <4>3, <4>4 DEF Delivered, Entry
    <3>4. CASE e # <<>>
      <4> DEFINE data == Line("D", AssuanEscape(e))
      <4> DEFINE with == Append(toClient, data)
      <4>1. data \in PinentryLines /\ Line("OK", <<>>) \in PinentryLines
        BY KnownLines
      <4>2. toClient' = Append(with, Line("OK", <<>>))
        <5>1. toClient' = toClient \o <<data>> \o <<Line("OK", <<>>)>>
          BY <2>7, <3>2, <3>4
        <5> HIDE DEF data
        <5> QED
          BY <2>2, <4>1, <5>1
      <4> HIDE DEF data
      <4>3. /\ with \in Seq(PinentryLines) /\ Len(with) = n + 1 /\ with[n + 1] = data
            /\ \A i \in 1..n : with[i] = toClient[i]
        BY <2>2, <4>1, LastLine
      <4>4. /\ Len(toClient') = n + 2 /\ toClient'[n + 2] = Line("OK", <<>>)
            /\ toClient'[n + 1] = data /\ \A i \in 1..n : toClient'[i] \in IdleLines
        <5>1. /\ Len(toClient') = Len(with) + 1 /\ toClient'[Len(with) + 1] = Line("OK", <<>>)
              /\ \A i \in 1..Len(with) : toClient'[i] = with[i]
          <6> HIDE DEF with
          <6> QED
            BY <4>1, <4>2, <4>3, LastLine
        <5> HIDE DEF with, n
        <5> QED
          BY <2>2, <4>3, <5>1
      <4>5. Idle(Len(toClient) - 2)'
        BY <2>2, <4>4 DEF Idle
      <4>6. /\ Len(toClient') > 1 /\ Len(toClient') - 1 = n + 1 /\ entered' = Entry(e)
        BY <2>2, <3>1, <4>4
      <4> QED
        BY <4>4, <4>5, <4>6 DEF Delivered, data, Entry
    <3> QED
      BY <3>3, <3>4
  <2> QED
    BY <2>6, <2>7 DEF Deliver
<1>7. Hearing'
  BY DEF IInv, Hearing, Deliver, Closing, Down, Failed, Nothing, Cancelled, Line, Reply, client
<1> QED
  BY <1>1, <1>2, <1>3, <1>4, <1>5, <1>6, <1>7 DEF IInv

LEMMA ExitStep ==
  ASSUME IInv, Exit
  PROVE  IInv'
<1>1. Scalars'
  BY DEF IInv, Scalars, Exit, Actions, Closing, Results, Setup, client, pipes, Cancelled, Entry,
         Nothing, Down, Failed, Line
<1>2. Lines'
  BY DEF IInv, Lines, Exit, ClientLines, PinentryLines, SetupLines, client, pipes, AskLines,
         Line, DataLines, IdleLines, Replies, DescriptionLine, MessageLine
<1>3. Endings'
  BY DEF IInv, Endings, Exit, Down, Setup, client, pipes, Line
<1>4. Turns'
  BY DEF IInv, Turns, Lines, Exit, Nothing, Setup, pinentry, ClientLines, PinentryLines,
         SetupLines, client, pipes, Line, AskLines, DataLines, IdleLines, Replies,
         DescriptionLine, MessageLine
<1>5. Telling'
  BY DEF IInv, Telling, Exit, AskLines, DescriptionLine, MessageLine, Setup, SetupLines, Waits,
         client, pipes, Line, pinentry
<1>6. Asking'
  BY DEF IInv, Asking, Exit, Delivered, Idle, Line, Nothing, client, pipes, Cancelled, Entry,
         IdleLines
<1>7. Hearing'
  BY DEF IInv, Hearing, Exit, Closing, Down, Failed, Nothing, client, pipes, Line
<1> QED
  BY <1>1, <1>2, <1>3, <1>4, <1>5, <1>6, <1>7 DEF IInv

LEMMA CrashStep ==
  ASSUME IInv, Crash
  PROVE  IInv'
<1>1. Scalars'
  BY BoundsAssumption DEF IInv, Scalars, Crash, client, pipes
<1>2. Lines'
  BY DEF IInv, Lines, Crash, ClientLines, PinentryLines, SetupLines, client, pipes, AskLines,
         Line, DataLines, IdleLines, Replies, DescriptionLine, MessageLine
<1>3. Endings'
  BY BoundsAssumption DEF IInv, Scalars, Endings, Crash, client, pipes, Setup
<1>4. Turns'
  BY DEF IInv, Turns, Lines, Crash, Nothing, Setup, pinentry, ClientLines, PinentryLines,
         SetupLines, client, pipes, Line, AskLines, DataLines, IdleLines, Replies,
         DescriptionLine, MessageLine
<1>5. Telling'
  BY DEF IInv, Telling, Crash, AskLines, DescriptionLine, MessageLine, Setup, SetupLines, Waits,
         client, pipes, Line, pinentry
<1>6. Asking'
  BY DEF IInv, Asking, Crash, Delivered, Idle, Line, Nothing, client, pipes, Cancelled, Entry,
         IdleLines
<1>7. Hearing'
  BY DEF IInv, Hearing, Crash, Closing, Down, Failed, Nothing, client, pipes, Line
<1> QED
  BY <1>1, <1>2, <1>3, <1>4, <1>5, <1>6, <1>7 DEF IInv

LEMMA HangStep ==
  ASSUME IInv, Hang
  PROVE  IInv'
<1>1. Scalars'
  BY DEF IInv, Scalars, Hang, Actions, Closing, Results, Setup, client, pipes, Cancelled, Entry,
         Nothing, Down, Failed, Line
<1>2. Lines'
  BY DEF IInv, Lines, Hang, ClientLines, PinentryLines, SetupLines, client, pipes, AskLines,
         Line, DataLines, IdleLines, Replies, DescriptionLine, MessageLine
<1>3. Endings'
  BY DEF IInv, Endings, Hang, Down, Setup, client, pipes, Line
<1>4. Turns'
  BY DEF IInv, Turns, Lines, Hang, Nothing, Setup, pinentry, ClientLines, PinentryLines,
         SetupLines, client, pipes, Line, AskLines, DataLines, IdleLines, Replies,
         DescriptionLine, MessageLine
<1>5. Telling'
  BY DEF IInv, Telling, Hang, AskLines, DescriptionLine, MessageLine, Setup, SetupLines, Waits,
         client, pipes, Line, pinentry
<1>6. Asking'
  BY DEF IInv, Asking, Hang, Delivered, Idle, Line, Nothing, client, pipes, Cancelled, Entry,
         IdleLines
<1>7. Hearing'
  BY DEF IInv, Hearing, Hang, Closing, Down, Failed, Nothing, client, pipes, Line
<1> QED
  BY <1>1, <1>2, <1>3, <1>4, <1>5, <1>6, <1>7 DEF IInv

-----------------------------------------------------------------------------
(* The theorems.                                                           *)

LEMMA Initially ==
  ASSUME Init
  PROVE  IInv
<1>1. Scalars
  BY BoundsAssumption DEF Init, Scalars, Actions, Results, Nothing, Setup, Closing
<1>2. Lines
  BY DEF Init, Lines
<1>3. Endings
  BY DEF Init, Endings, Nothing, Down, Line, Setup
<1>4. Turns
  BY DEF Init, Turns, Setup
<1>5. Telling
  BY DEF Init, Telling, Setup
<1>6. Asking /\ Hearing
  BY DEF Init, Asking, Hearing, Closing
<1> QED
  BY <1>1, <1>2, <1>3, <1>4, <1>5, <1>6 DEF IInv

LEMMA StutterStep ==
  ASSUME IInv, UNCHANGED vars
  PROVE  IInv'
<1>1. /\ UNCHANGED <<host, prompt, path, todo, pin, outcome, runs, answer, pc, toPinentry, toClient>>
      /\ UNCHANGED <<proc, greeted, shown, dialog, chatter, crashes, entered>>
  BY DEF vars, client, pipes, pinentry
<1>2. Scalars' /\ Lines' /\ Endings' /\ Turns'
  BY <1>1, LinesStay DEF IInv, Scalars, Lines, Endings, Turns, Setup, Closing
<1>3. Telling'
  BY <1>1, LinesStay DEF IInv, Telling, Waits, Setup, AskLines
<1>4. Asking' /\ Hearing'
  BY <1>1 DEF IInv, Asking, Hearing, Idle, Delivered, Closing
<1> QED
  BY <1>2, <1>3, <1>4 DEF IInv

LEMMA NextKeeps == IInv /\ [Next]_vars => IInv'
BY StartStep, SkipLineStep, ReadOKStep, ConfigureStep, ReadAnswerStep, SayByeStep,
   ReadFarewellStep, ReapStep, GreetStep, ObeyStep, ChatStep, UserAnswersStep, DeliverStep,
   ExitStep, CrashStep, HangStep, StutterStep DEF Next, Program, Process

\* The invariant holds of every state that asking for a secret can be in.
THEOREM Invariance == Spec => []IInv
<1>1. Init => IInv
  BY Initially
<1> QED
  BY <1>1, NextKeeps, PTL DEF Spec

\* The variables keep their types, and no command that is written to pinentry has a
\* line end in it, whatever the prompt says (assuanEscape in pinentry.go).
THEOREM TypeCorrect == Spec => []TypeOK
<1>1. IInv => TypeOK
  <2>1. SUFFICES ASSUME IInv
                 PROVE  TypeOK
    OBVIOUS
  <2>2. ASSUME NEW i \in DOMAIN toPinentry, NEW j \in DOMAIN toPinentry[i].text
        PROVE  toPinentry[i].text[j] \notin {"LF", "CR"}
    <3>1. toPinentry \in Seq(ClientLines) /\ prompt \in Prompts
      BY <2>1 DEF IInv, Lines
    <3>2. toPinentry[i] \in ClientLines
      BY <3>1
    <3>3. CASE toPinentry[i].text = <<>>
      BY <2>2, <3>3
    <3>4. CASE toPinentry[i] \in {DescriptionLine, MessageLine}
      <4>1. PICK s \in Seq(Characters) : toPinentry[i].text = AssuanEscape(s)
        BY <3>1, <3>4, PromptArrives DEF DescriptionLine, MessageLine, Line
      <4>2. /\ AssuanEscape(s) \in Seq(Characters)
            /\ \A k \in 1..Len(AssuanEscape(s)) : AssuanEscape(s)[k] \notin {"LF", "CR"}
        BY EscapeIsText
      <4> QED
        BY <4>1, <4>2
    <3> QED
      BY <3>2, <3>3, <3>4 DEF ClientLines, SetupLines, AskLines, Line
  <2>3. {outcome.is, answer.is, entered.is} \subseteq {"nothing", "entry", "cancelled", "failed", "down"}
    BY <2>1 DEF IInv, Scalars, Actions, Results, Nothing, Cancelled, Failed, Down, Entry, Line
  <2> QED
    BY <2>1, <2>2, <2>3 DEF TypeOK, IInv, Scalars, Setup, Closing
<1> QED
  BY <1>1, Invariance, PTL

\* When the dialog opens, the user reads all of the prompt, whatever characters it is
\* made of: every command was obeyed before GETPIN is sent, and a text that is escaped
\* arrives as it was (configure and writeCommand in pinentry.go).
THEOREM DialogIsComplete == Spec => []DialogShowsThePrompt
<1>1. IInv => DialogShowsThePrompt
  BY DEF IInv, Telling, DialogShowsThePrompt
<1> QED
  BY <1>1, Invariance, PTL

\* A second pinentry is started, and the caller goes on, only when the first has ended
\* (close in pinentry.go).
THEOREM ProcessIsGone == Spec => []NoProcessLeft
<1>1. IInv => NoProcessLeft
  BY DEF IInv, Endings, NoProcessLeft
<1> QED
  BY <1>1, Invariance, PTL

\* The user is asked again only after a process that ended before it answered
\* (getSecret and isPinentryDown in utils.go).
THEOREM OnlyACrashAsksAgain == Spec => []AskedAgainAfterCrash
<1>1. IInv => AskedAgainAfterCrash
  BY DEF IInv, Endings, AskedAgainAfterCrash
<1> QED
  BY <1>1, Invariance, PTL

\* What the program makes of a step of the dialog, as Dialog sees it.
LEMMA DialogSteps ==
  ASSUME IInv, [Next]_vars
  PROVE  [D!Next]_D!vars
<1>1. CASE UNCHANGED <<entered, answer>>
  BY <1>1 DEF D!vars
<1>2. CASE Start
  <2>1. pc = "start" /\ answer = Nothing
    BY <1>2 DEF Start, IInv, Hearing
  <2>2. CASE pc' = "greeting"
    BY <1>2, <2>1, <2>2 DEF Start, Return, D!Next, D!DialogIsLost
  <2>3. CASE pc' # "greeting"
    <3>1. answer' = Failed /\ UNCHANGED entered
      BY <1>2, <2>3 DEF Start, Return
    <3>2. Failed # Nothing
      BY DEF Failed, Nothing, Line
    <3> QED
      BY <2>1, <3>1, <3>2 DEF D!Next, D!CommandIsTold
  <2> QED
    BY <2>2, <2>3
<1>3. CASE UserAnswers
  <2>1. entered = Nothing /\ UNCHANGED answer
        /\ entered' \in {Entry(e) : e \in Entries} \cup {Cancelled}
    BY <1>3 DEF UserAnswers, client
  <2>2. pc # "done"
    BY <1>3 DEF UserAnswers, IInv, Endings
  <2>3. answer = Nothing
    BY <2>2 DEF IInv, Hearing
  <2> QED
    BY <2>1, <2>3 DEF D!Next, D!UserAnswers
<1>4. CASE Reap
  <2>1. /\ answer = Nothing /\ UNCHANGED entered
        /\ outcome \in {Down, Failed} \/ (outcome = entered /\ entered # Nothing)
    BY <1>4 DEF Reap, IInv, Hearing, Closing
  <2>2. UNCHANGED answer \/ answer' = (IF outcome = Down THEN Failed ELSE outcome)
    BY <1>4 DEF Reap, Return
  <2>3. CASE UNCHANGED answer
    BY <2>1, <2>3 DEF D!vars
  <2>4. CASE answer' = (IF outcome = Down THEN Failed ELSE outcome)
    <3>1. entered # Down /\ Failed # Nothing
      BY DEF IInv, Scalars, Actions, Nothing, Cancelled, Failed, Down, Entry, Line
    <3>2. answer' \in {entered, Failed} \ {Nothing}
      BY <2>1, <2>4, <3>1
    <3> QED
      BY <2>1, <3>2 DEF D!Next, D!CommandIsTold
  <2> QED
    BY <2>2, <2>3, <2>4
<1>5. UNCHANGED <<entered, answer>> \/ Start \/ UserAnswers \/ Reap
  BY DEF Next, Program, Process, SkipLine, ReadOK, Configure, ReadAnswer, SayBye, ReadFarewell,
         Greet, Obey, Deliver, Exit, Chat, Crash, Hang, vars, client
<1> QED
  BY <1>1, <1>2, <1>3, <1>4, <1>5

\* What the command is told is what the user did in the last dialog that was shown, or a
\* failure, and it is told once: asking for a secret implements Dialog (getSecret in
\* utils.go, with the client in pinentry.go).
THEOREM DialogIsImplemented == Spec => ImplementsDialog
<1>1. Init => D!Init
  BY DEF Init, D!Init
<1>2. IInv /\ [Next]_vars => [D!Next]_D!vars
  BY DialogSteps
<1> QED
  BY <1>1, <1>2, Invariance, PTL DEF Spec, ImplementsDialog, D!Spec

-----------------------------------------------------------------------------
(* The lines of the configuration file.                                    *)

\* Part of a line, from one word to another.
LEMMA PartOf ==
  ASSUME NEW line \in Seq(Words), NEW a \in 1..Len(line) + 1, NEW b \in a - 1..Len(line)
  PROVE  /\ SubSeq(line, a, b) \in Seq(Words) /\ Len(SubSeq(line, a, b)) = b - a + 1
         /\ \A i \in 1..b - a + 1 : SubSeq(line, a, b)[i] = line[a + i - 1]
<1>1. a \in Int /\ b \in Int /\ Len(line) \in Nat
  OBVIOUS
<1>2. \A i \in a..b : line[i] \in Words
  BY <1>1
<1>3. /\ SubSeq(line, a, b) \in Seq(Words)
      /\ Len(SubSeq(line, a, b)) = IF a <= b THEN b - a + 1 ELSE 0
      /\ \A i \in 1..b - a + 1 : SubSeq(line, a, b)[i] = line[a + i - 1]
  BY <1>1, <1>2, SubSeqProperties
<1> QED
  BY <1>1, <1>3

\* What a line is without the spaces around it.
LEMMA TrimmedTo ==
  ASSUME NEW line \in Seq(Words), NEW a \in 1..Len(line), NEW b \in a..Len(line),
         AllSpaces(line, 1, a - 1), AllSpaces(line, b + 1, Len(line)),
         line[a] # "SP", line[b] # "SP"
  PROVE  Trimmed(line) = SubSeq(line, a, b)
<1> DEFINE text == {i \in DOMAIN line : line[i] # "SP"}
<1>1. a \in text /\ b \in text /\ Len(line) \in Nat /\ DOMAIN line = 1..Len(line)
  OBVIOUS
<1>2. ASSUME NEW i \in text PROVE a <= i /\ i <= b
  <2>1. i \in 1..Len(line) /\ line[i] # "SP"
    OBVIOUS
  <2>2. ~(i \in 1..a - 1) /\ ~(i \in b + 1..Len(line))
    BY <2>1 DEF AllSpaces
  <2> QED
    BY <1>1, <2>1, <2>2
<1>3. (CHOOSE i \in text : \A j \in text : i <= j) = a
  <2> DEFINE first == CHOOSE i \in text : \A j \in text : i <= j
  <2>1. text \subseteq 1..Len(line)
    OBVIOUS
  <2> HIDE DEF text
  <2>2. \E i \in text : \A j \in text : i <= j
    BY <1>1, <1>2
  <2>3. first \in text /\ \A j \in text : first <= j
    BY <2>2
  <2> HIDE DEF first
  <2>4. first <= a /\ a <= first /\ first \in 1..Len(line)
    BY <1>1, <1>2, <2>1, <2>3
  <2>5. first = a
    BY <1>1, <2>4
  <2> QED
    BY <2>5 DEF first
<1>4. (CHOOSE i \in text : \A j \in text : j <= i) = b
  <2> DEFINE last == CHOOSE i \in text : \A j \in text : j <= i
  <2>1. text \subseteq 1..Len(line)
    OBVIOUS
  <2> HIDE DEF text
  <2>2. \E i \in text : \A j \in text : j <= i
    BY <1>1, <1>2
  <2>3. last \in text /\ \A j \in text : j <= last
    BY <2>2
  <2> HIDE DEF last
  <2>4. last <= b /\ b <= last /\ last \in 1..Len(line)
    BY <1>1, <1>2, <2>1, <2>3
  <2>5. last = b
    BY <1>1, <2>4
  <2> QED
    BY <2>5 DEF last
<1>5. text # {}
  BY <1>1
<1>6. Trimmed(line) = IF text = {} THEN <<>>
                      ELSE SubSeq(line, CHOOSE i \in text : \A j \in text : i <= j,
                                  CHOOSE i \in text : \A j \in text : j <= i)
  BY DEF Trimmed
<1> HIDE DEF text
<1> QED
  BY <1>3, <1>4, <1>5, <1>6, Zenon

LEMMA TrimmedSpaces ==
  ASSUME NEW line \in Seq(Words), AllSpaces(line, 1, Len(line))
  PROVE  Trimmed(line) = <<>>
<1>1. {i \in DOMAIN line : line[i] # "SP"} = {}
  BY DEF AllSpaces
<1> QED
  BY <1>1 DEF Trimmed

\* A line that begins with a word keeps it.
LEMMA TrimmedFrom ==
  ASSUME NEW line \in Seq(Words), NEW a \in 1..Len(line), AllSpaces(line, 1, a - 1), line[a] # "SP"
  PROVE  \E b \in a..Len(line) : Trimmed(line) = SubSeq(line, a, b)
<1> DEFINE text == {i \in DOMAIN line : line[i] # "SP"}
<1>1. a \in text /\ Len(line) \in Nat /\ text \in SUBSET (0..Len(line))
  OBVIOUS
<1>2. PICK b \in text : \A i \in text : i <= b
  <2> HIDE DEF text
  <2>1. text # {}
    BY <1>1
  <2> QED
    BY <1>1, <2>1, GreatestElement
<1>3. b \in a..Len(line) /\ line[b] # "SP"
  BY <1>1, <1>2
<1>4. AllSpaces(line, b + 1, Len(line))
  <2>1. ASSUME NEW i \in b + 1..Len(line) PROVE line[i] = "SP"
    <3>1. i \in DOMAIN line /\ ~(i <= b)
      BY <1>3
    <3> QED
      BY <1>2, <3>1
  <2> QED
    BY <2>1 DEF AllSpaces
<1>5. Trimmed(line) = SubSeq(line, a, b)
  BY <1>3, <1>4, TrimmedTo
<1> QED
  BY <1>3, <1>5

\* A value with spaces around it, in a part of a line.
LEMMA TrimmedPart ==
  ASSUME NEW line \in Seq(Words), NEW a \in 1..Len(line) + 1, NEW b \in a - 1..Len(line),
         NEW value \in Seq(Words), IsValue(value), NEW v \in a..b + 1,
         v + Len(value) <= b + 1,
         \A i \in DOMAIN value : line[v + i - 1] = value[i],
         AllSpaces(line, a, v - 1), AllSpaces(line, v + Len(value), b)
  PROVE  Trimmed(SubSeq(line, a, b)) = value
<1> DEFINE s == SubSeq(line, a, b)
<1>1. s \in Seq(Words) /\ Len(s) = b - a + 1 /\ \A i \in 1..b - a + 1 : s[i] = line[a + i - 1]
  BY PartOf
<1>0. Len(line) \in Nat /\ Len(value) \in Nat /\ DOMAIN value = 1..Len(value) /\ a \in Nat /\ b \in Int /\ v \in Int
  OBVIOUS
<1> HIDE DEF s
<1>2. CASE value = <<>>
  <2>1. Len(value) = 0
    BY <1>2
  <2>2. ASSUME NEW i \in 1..Len(s) PROVE s[i] = "SP"
    <3>1. s[i] = line[a + i - 1] /\ a + i - 1 \in a..b
      BY <1>0, <1>1
    <3>2. a + i - 1 \in a..v - 1 \/ a + i - 1 \in v..b
      BY <1>0, <3>1
    <3> QED
      BY <2>1, <3>1, <3>2, <1>0 DEF AllSpaces
  <2>3. Trimmed(s) = <<>>
    BY <1>1, <2>2, TrimmedSpaces DEF AllSpaces
  <2> QED
    BY <1>2, <2>3 DEF s
<1>3. CASE value # <<>>
  <2> DEFINE n == Len(value)
             c == v - a + 1
             d == v - a + n
  <2>1. n \in Nat /\ n >= 1 /\ value[1] # "SP" /\ value[n] # "SP"
    BY <1>3, <1>0 DEF IsValue
  <2>2. c \in 1..Len(s) /\ d \in c..Len(s)
    BY <1>0, <1>1, <2>1
  <2>3. ASSUME NEW i \in 1..n PROVE s[c + i - 1] = value[i]
    <3>1. c + i - 1 \in 1..b - a + 1 /\ a + (c + i - 1) - 1 = v + i - 1
      BY <1>0, <2>1
    <3>2. s[c + i - 1] = line[a + (c + i - 1) - 1]
      BY <1>1, <3>1
    <3>3. line[v + i - 1] = value[i]
      BY <1>0
    <3> QED
      BY <3>1, <3>2, <3>3
  <2>4. s[c] # "SP" /\ s[d] # "SP"
    <3>1. c + 1 - 1 = c /\ c + n - 1 = d /\ 1 \in 1..n /\ n \in 1..n
      BY <1>0, <2>1
    <3>2. s[c] = value[1] /\ s[d] = value[n]
      <4> HIDE DEF c, d, n
      <4> QED
        BY <2>3, <3>1
    <3> QED
      BY <2>1, <3>2
  <2>5. AllSpaces(s, 1, c - 1)
    <3>1. ASSUME NEW i \in 1..c - 1 PROVE s[i] = "SP"
      <4>1. i \in 1..b - a + 1 /\ a + i - 1 \in a..v - 1
        BY <1>0
      <4> QED
        BY <1>1, <4>1 DEF AllSpaces
    <3> QED
      BY <3>1 DEF AllSpaces
  <2>6. AllSpaces(s, d + 1, Len(s))
    <3>1. ASSUME NEW i \in d + 1..Len(s) PROVE s[i] = "SP"
      <4>1. i \in 1..b - a + 1 /\ a + i - 1 \in v + Len(value)..b
        BY <1>0, <1>1, <2>1
      <4> QED
        BY <1>1, <4>1 DEF AllSpaces
    <3> QED
      BY <3>1 DEF AllSpaces
  <2>7. Trimmed(s) = SubSeq(s, c, d)
    <3> HIDE DEF c, d, n
    <3> QED
      BY <1>1, <2>2, <2>4, <2>5, <2>6, TrimmedTo
  <2>8. /\ SubSeq(s, c, d) \in Seq(Words) /\ Len(SubSeq(s, c, d)) = d - c + 1
        /\ \A i \in 1..d - c + 1 : SubSeq(s, c, d)[i] = s[c + i - 1]
    <3>1. c \in 1..Len(s) + 1 /\ d \in c - 1..Len(s)
      BY <1>0, <1>1, <2>2
    <3> HIDE DEF c, d, n
    <3> QED
      BY <1>1, <3>1, PartOf
  <2>9. d - c + 1 = n
    BY <1>0, <2>1
  <2>10. SubSeq(s, c, d) = value
    <3> DEFINE part == SubSeq(s, c, d)
    <3>1. part \in Seq(Words) /\ Len(part) = Len(value) /\ \A i \in 1..Len(value) : part[i] = value[i]
      <4> HIDE DEF c, d
      <4> QED
        BY <2>3, <2>8, <2>9
    <3> HIDE DEF part
    <3>2. part = value
      BY <3>1, <1>0
    <3> QED
      BY <3>2 DEF part
  <2> HIDE DEF c, d, n
  <2> QED
    BY <2>7, <2>10 DEF s
<1> QED
  BY <1>2, <1>3

\* Where the first of some words is in a line.
LEMMA FirstIs ==
  ASSUME NEW line \in Seq(Words), NEW words, NEW p \in DOMAIN line, line[p] \in words,
         \A j \in 1..p - 1 : line[j] \notin words
  PROVE  FirstOf(words, line) = p
<1> DEFINE First(i) == line[i] \in words /\ \A j \in 1..i - 1 : line[j] \notin words
           first == CHOOSE i \in DOMAIN line : First(i)
<1>1. First(p) /\ Len(line) \in Nat /\ DOMAIN line = 1..Len(line)
  OBVIOUS
<1>2. first \in DOMAIN line /\ First(first)
  <2> HIDE DEF First
  <2> QED
    BY <1>1
<1>3. first = p
  <2> HIDE DEF first
  <2>1. ~(first \in 1..p - 1) /\ ~(p \in 1..first - 1)
    BY <1>1, <1>2
  <2> QED
    BY <1>1, <1>2, <2>1
<1>4. ~(\A i \in DOMAIN line : line[i] \notin words)
  OBVIOUS
<1> QED
  BY <1>3, <1>4 DEF FirstOf

LEMMA NoFirst ==
  ASSUME NEW line, NEW words, \A i \in DOMAIN line : line[i] \notin words
  PROVE  FirstOf(words, line) = 0
BY DEF FirstOf

LEMMA FirstIn ==
  ASSUME NEW line \in Seq(Words), NEW words
  PROVE  FirstOf(words, line) \in 0..Len(line)
<1> DEFINE found == {i \in DOMAIN line : line[i] \in words}
<1>1. Len(line) \in Nat /\ DOMAIN line = 1..Len(line) /\ found \in SUBSET Nat
  OBVIOUS
<1>2. CASE found = {}
  <2>1. FirstOf(words, line) = 0
    BY <1>2, NoFirst
  <2> QED
    BY <1>1, <2>1
<1>3. CASE found # {}
  <2>1. PICK p \in found : \A i \in found : p <= i
    <3> HIDE DEF found
    <3> QED
      BY <1>1, <1>3, LeastElement
  <2>2. p \in DOMAIN line /\ line[p] \in words
    OBVIOUS
  <2>3. ASSUME NEW j \in 1..p - 1 PROVE line[j] \notin words
    <3>1. j \in DOMAIN line /\ ~(p <= j)
      BY <1>1, <2>2
    <3> QED
      BY <2>1, <3>1
  <2>4. FirstOf(words, line) = p
    BY <2>2, <2>3, FirstIs
  <2> QED
    BY <1>1, <2>2, <2>4
<1> QED
  BY <1>2, <1>3

\* What is left of a line that begins with a word.
LEMMA StillBegins ==
  ASSUME NEW line \in Seq(Words), NEW a \in 1..Len(line), AllSpaces(line, 1, a - 1), line[a] # "SP"
  PROVE  /\ Trimmed(line) \in Seq(Words) /\ Trimmed(line) # <<>>
         /\ Len(Trimmed(line)) >= 1 /\ Trimmed(line)[1] = line[a]
<1>1. PICK b \in a..Len(line) : Trimmed(line) = SubSeq(line, a, b)
  BY TrimmedFrom
<1>2. a \in 1..Len(line) + 1 /\ b \in a - 1..Len(line)
  OBVIOUS
<1>3. /\ SubSeq(line, a, b) \in Seq(Words) /\ Len(SubSeq(line, a, b)) = b - a + 1
      /\ \A i \in 1..b - a + 1 : SubSeq(line, a, b)[i] = line[a + i - 1]
  BY <1>2, PartOf
<1>4. 1 \in 1..b - a + 1 /\ a + 1 - 1 = a /\ b - a + 1 >= 1
  OBVIOUS
<1>5. Len(Trimmed(line)) >= 1 /\ Trimmed(line)[1] = line[a] /\ Trimmed(line) \in Seq(Words)
  BY <1>1, <1>3, <1>4
<1>6. Trimmed(line) # <<>>
  BY <1>5
<1> QED
  BY <1>5, <1>6

\* What a line of one of the two forms is, without spaces around it.
Form(t, key, value) ==
  /\ t \in Seq(Words) /\ Len(t) >= 1 /\ t[1] = key
  /\ \/ \* "key = value"
        \E q \in 2..Len(t), w \in 2..Len(t) + 1 :
          /\ t[q] = "EQ" /\ AllSpaces(t, 2, q - 1)
          /\ q < w /\ w + Len(value) = Len(t) + 1 /\ AllSpaces(t, q + 1, w - 1)
          /\ \A i \in DOMAIN value : t[w + i - 1] = value[i]
     \/ \* "key value"
        \E w \in 3..Len(t) + 1 :
          /\ w + Len(value) = Len(t) + 1 /\ AllSpaces(t, 2, w - 1)
          /\ value # <<>>
          /\ \A i \in DOMAIN value : t[w + i - 1] = value[i] /\ value[i] # "EQ"
     \/ value = <<>> /\ Len(t) = 1

LEMMA FormParsed ==
  ASSUME NEW line, NEW key \in Words, NEW value \in Seq(Words),
         key \notin {"SP", "EQ", "HASH"}, IsValue(value), Form(Trimmed(line), key, value)
  PROVE  ParseConfigLine(line) = [key |-> <<key>>, value |-> value]
<1> DEFINE t == Trimmed(line)
<1>1. /\ t \in Seq(Words) /\ Len(t) \in Nat /\ Len(t) >= 1 /\ t[1] = key
      /\ DOMAIN t = 1..Len(t) /\ Len(value) \in Nat /\ DOMAIN value = 1..Len(value)
  BY DEF Form
<1>2. /\ t # <<>> /\ Head(t) # "HASH"
      /\ ParseConfigLine(line) =
           IF FirstOf({"EQ"}, t) > 0 THEN SettingOf(t, FirstOf({"EQ"}, t), FirstOf({"EQ"}, t) + 1)
           ELSE IF FirstOf({"SP"}, t) > 0 THEN SettingOf(t, FirstOf({"SP"}, t), FirstOf({"SP"}, t))
           ELSE [key |-> t, value |-> <<>>]
  <2>1. ParseConfigLine(line) =
          IF t = <<>> \/ Head(t) = "HASH" THEN NoSetting
          ELSE IF FirstOf({"EQ"}, t) > 0 THEN SettingOf(t, FirstOf({"EQ"}, t), FirstOf({"EQ"}, t) + 1)
          ELSE IF FirstOf({"SP"}, t) > 0 THEN SettingOf(t, FirstOf({"SP"}, t), FirstOf({"SP"}, t))
          ELSE [key |-> t, value |-> <<>>]
    BY DEF ParseConfigLine
  <2> HIDE DEF t
  <2>2. t # <<>> /\ Head(t) # "HASH"
    BY <1>1
  <2> QED
    BY <2>1, <2>2, Zenon
<1>3. Form(t, key, value)
  OBVIOUS
<1> HIDE DEF t
<1>4. ASSUME NEW q \in 2..Len(t), AllSpaces(t, 2, q - 1)
      PROVE  Trimmed(SubSeq(t, 1, q - 1)) = <<key>>
  <2> DEFINE k == <<key>>
  <2>1. k \in Seq(Words) /\ Len(k) = 1 /\ k[1] = key /\ k # <<>> /\ DOMAIN k = 1..1
    OBVIOUS
  <2> HIDE DEF k
  <2>2. IsValue(k)
    BY <2>1 DEF IsValue
  <2>3. 1 \in 1..Len(t) + 1 /\ q - 1 \in 1 - 1..Len(t) /\ 1 \in 1..q - 1 + 1 /\ 1 + Len(k) <= q - 1 + 1
    BY <1>1, <2>1
  <2>4. \A i \in DOMAIN k : t[1 + i - 1] = k[i]
    BY <1>1, <2>1
  <2>5. AllSpaces(t, 1, 1 - 1) /\ AllSpaces(t, 1 + Len(k), q - 1)
    BY <1>4, <2>1 DEF AllSpaces
  <2>6. Trimmed(SubSeq(t, 1, q - 1)) = k
    BY <1>1, <2>1, <2>2, <2>3, <2>4, <2>5, TrimmedPart
  <2> QED
    BY <2>6 DEF k
<1>5. ASSUME NEW a \in 2..Len(t) + 1, NEW w \in a..Len(t) + 1, w + Len(value) = Len(t) + 1,
             AllSpaces(t, a, w - 1), \A i \in DOMAIN value : t[w + i - 1] = value[i]
      PROVE  Trimmed(SubSeq(t, a, Len(t))) = value
  <2>1. a \in 1..Len(t) + 1 /\ Len(t) \in a - 1..Len(t) /\ w \in a..Len(t) + 1 /\ w + Len(value) <= Len(t) + 1
    BY <1>1, <1>5
  <2>2. AllSpaces(t, w + Len(value), Len(t))
    BY <1>1, <1>5 DEF AllSpaces
  <2> QED
    BY <1>1, <1>5, <2>1, <2>2, TrimmedPart
<1>6. ASSUME NEW q \in 2..Len(t), NEW w \in 2..Len(t) + 1,
             t[q] = "EQ", AllSpaces(t, 2, q - 1), q < w, w + Len(value) = Len(t) + 1,
             AllSpaces(t, q + 1, w - 1), \A i \in DOMAIN value : t[w + i - 1] = value[i]
      PROVE  ParseConfigLine(line) = [key |-> <<key>>, value |-> value]
  <2>1. ASSUME NEW j \in 1..q - 1 PROVE t[j] \notin {"EQ"}
    <3>1. j = 1 \/ j \in 2..q - 1
      OBVIOUS
    <3> QED
      BY <1>1, <1>6, <3>1 DEF AllSpaces
  <2>2. FirstOf({"EQ"}, t) = q /\ q > 0
    <3>1. q \in DOMAIN t /\ t[q] \in {"EQ"} /\ q > 0
      BY <1>1, <1>6
    <3> QED
      BY <1>1, <2>1, <3>1, FirstIs
  <2>3. Trimmed(SubSeq(t, 1, q - 1)) = <<key>>
    BY <1>4, <1>6
  <2>4. Trimmed(SubSeq(t, q + 1, Len(t))) = value
    <3>1. q + 1 \in 2..Len(t) + 1 /\ w \in q + 1..Len(t) + 1
      BY <1>1, <1>6
    <3> QED
      BY <1>5, <1>6, <3>1
  <2>5. ParseConfigLine(line) = SettingOf(t, q, q + 1)
    BY <1>2, <2>2
  <2> QED
    BY <2>3, <2>4, <2>5, Zenon DEF SettingOf
<1>7. ASSUME NEW w \in 3..Len(t) + 1, w + Len(value) = Len(t) + 1, AllSpaces(t, 2, w - 1),
             \A i \in DOMAIN value : t[w + i - 1] = value[i] /\ value[i] # "EQ",
             value # <<>>
      PROVE  ParseConfigLine(line) = [key |-> <<key>>, value |-> value]
  <2>0. Len(value) >= 1
    BY <1>7
  <2>1. ASSUME NEW i \in DOMAIN t PROVE t[i] \notin {"EQ"}
    <3>1. i = 1 \/ i \in 2..w - 1 \/ i \in w..Len(t)
      BY <1>1
    <3>2. CASE i \in w..Len(t)
      <4>1. i - w + 1 \in DOMAIN value /\ w + (i - w + 1) - 1 = i
        BY <1>1, <1>7, <3>2
      <4>2. t[w + (i - w + 1) - 1] = value[i - w + 1] /\ value[i - w + 1] # "EQ"
        BY <1>7, <4>1
      <4> QED
        BY <4>1, <4>2
    <3> QED
      BY <1>1, <1>7, <3>1, <3>2 DEF AllSpaces
  <2>2. FirstOf({"EQ"}, t) = 0
    BY <2>1, NoFirst
  <2>3. 2 \in 2..Len(t) /\ 2 \in DOMAIN t /\ 2 \in 2..w - 1
    BY <1>1, <1>7, <2>0
  <2>4. FirstOf({"SP"}, t) = 2
    <3>1. t[2] \in {"SP"} /\ \A j \in 1..2 - 1 : t[j] \notin {"SP"}
      BY <1>1, <1>7, <2>3 DEF AllSpaces
    <3> QED
      BY <1>1, <2>3, <3>1, FirstIs
  <2>5. Trimmed(SubSeq(t, 1, 2 - 1)) = <<key>>
    <3>1. AllSpaces(t, 2, 2 - 1)
      BY DEF AllSpaces
    <3> QED
      BY <1>4, <2>3, <3>1
  <2>6. Trimmed(SubSeq(t, 2, Len(t))) = value
    <3>1. 2 \in 2..Len(t) + 1 /\ w \in 2..Len(t) + 1
      BY <1>1, <1>7
    <3> QED
      BY <1>5, <1>7, <3>1
  <2>7. ParseConfigLine(line) = SettingOf(t, 2, 2)
    BY <1>2, <2>2, <2>4
  <2> QED
    BY <2>5, <2>6, <2>7, Zenon DEF SettingOf
<1>8. ASSUME value = <<>>, Len(t) = 1
      PROVE  ParseConfigLine(line) = [key |-> <<key>>, value |-> value]
  <2>1. t = <<key>>
    BY <1>1, <1>8
  <2>2. FirstOf({"EQ"}, t) = 0 /\ FirstOf({"SP"}, t) = 0
    <3>1. \A i \in DOMAIN t : t[i] \notin {"EQ"} /\ t[i] \notin {"SP"}
      BY <1>1, <1>8
    <3> QED
      BY <3>1, NoFirst
  <2>3. ParseConfigLine(line) = [key |-> t, value |-> <<>>]
    BY <1>2, <2>2
  <2> QED
    BY <1>8, <2>1, <2>3
<1> QED
  BY <1>3, <1>6, <1>7, <1>8 DEF Form

\* A part of a line has spaces where the line has them.
LEMMA SpacesInPart ==
  ASSUME NEW line \in Seq(Words), NEW a \in 1..Len(line), NEW b \in a..Len(line),
         NEW from \in Nat \ {0}, NEW to \in Int, to <= b - a + 1,
         AllSpaces(line, a + from - 1, a + to - 1)
  PROVE  AllSpaces(SubSeq(line, a, b), from, to)
<1>1. a \in 1..Len(line) + 1 /\ b \in a - 1..Len(line) /\ a \in Nat /\ b \in Nat
  OBVIOUS
<1>2. \A i \in 1..b - a + 1 : SubSeq(line, a, b)[i] = line[a + i - 1]
  BY <1>1, PartOf
<1>3. ASSUME NEW i \in from..to PROVE SubSeq(line, a, b)[i] = "SP"
  <2>1. i \in 1..b - a + 1 /\ a + i - 1 \in a + from - 1..a + to - 1
    BY <1>1
  <2>2. line[a + i - 1] = "SP"
    BY <2>1 DEF AllSpaces
  <2> QED
    BY <1>2, <2>1, <2>2
<1> QED
  BY <1>3 DEF AllSpaces

\* Where the key and the value of a line are.
Placed(line, key, value, k, v) ==
  /\ line \in Seq(Words) /\ key \in Words /\ value \in Seq(Words) /\ key # "SP" /\ IsValue(value)
  /\ k \in DOMAIN line /\ v \in 1..Len(line) + 1 /\ k < v /\ v + Len(value) <= Len(line) + 1
  /\ AllSpaces(line, 1, k - 1) /\ line[k] = key
  /\ Between(line, k + 1, value, v - 1)
  /\ \A i \in DOMAIN value : line[v + i - 1] = value[i]
  /\ AllSpaces(line, v + Len(value), Len(line))

LEMMA WrittenForm ==
  ASSUME NEW line, NEW key, NEW value, NEW k, NEW v, Placed(line, key, value, k, v)
  PROVE  Form(Trimmed(line), key, value)
<1> DEFINE n == Len(value)
<1>1. value \in Seq(Words) /\ n \in Nat /\ DOMAIN value = 1..n
  BY DEF Placed
<1>2. IsValue(value)
  BY DEF Placed
<1>3. /\ k < v /\ v + n <= Len(line) + 1 /\ AllSpaces(line, v + n, Len(line))
      /\ AllSpaces(line, 1, k - 1) /\ line[k] = key
      /\ \A i \in DOMAIN value : line[v + i - 1] = value[i]
  BY DEF Placed
<1> HIDE DEF n
<1>4. /\ k \in 1..Len(line) /\ k \in Nat /\ v \in Nat /\ Len(line) \in Nat /\ k <= v - 1
      /\ DOMAIN line = 1..Len(line) /\ line[k] # "SP" /\ line \in Seq(Words)
      /\ v - 1 <= Len(line)
  BY DEF Placed
<1>10. k \in Nat /\ v \in Nat /\ n \in Nat /\ k <= v - 1
  BY <1>1, <1>4
<1>6. ASSUME NEW b \in k..Len(line), line[b] # "SP", AllSpaces(line, b + 1, Len(line))
      PROVE  LET t == Trimmed(line)
             IN /\ t = SubSeq(line, k, b) /\ t \in Seq(Words) /\ Len(t) = b - k + 1 /\ t[1] = key
                /\ \A i \in 1..b - k + 1 : t[i] = line[k + i - 1]
  <2>1. Trimmed(line) = SubSeq(line, k, b)
    BY <1>3, <1>4, <1>6, TrimmedTo
  <2>2. k \in 1..Len(line) + 1 /\ b \in k - 1..Len(line)
    BY <1>4
  <2>3. /\ SubSeq(line, k, b) \in Seq(Words) /\ Len(SubSeq(line, k, b)) = b - k + 1
        /\ \A i \in 1..b - k + 1 : SubSeq(line, k, b)[i] = line[k + i - 1]
    BY <1>4, <2>2, PartOf
  <2>4. 1 \in 1..b - k + 1 /\ k + 1 - 1 = k
    BY <1>4
  <2>5. SubSeq(line, k, b)[1] = key
    BY <1>3, <2>3, <2>4
  <2> QED
    BY <2>1, <2>3, <2>5
<1> DEFINE t == Trimmed(line)
           Equals(e) == e \in k + 1..v - 1 /\ line[e] = "EQ"
                        /\ AllSpaces(line, k + 1, e - 1) /\ AllSpaces(line, e + 1, v - 1)
           Apart == AllSpaces(line, k + 1, v - 1) /\ \A i \in DOMAIN value : value[i] # "EQ"
<1>7. (Apart /\ (value = <<>> \/ k + 1 <= v - 1)) \/ \E e \in k + 1..v - 1 : Equals(e)
  BY DEF Between, Placed
<1>8. CASE value # <<>>
  <2> DEFINE b == v + n - 1
             w == v - k + 1
  <2>0. n >= 1
    BY <1>1, <1>8, EmptySeq DEF n
  <2>1. n >= 1 /\ line[b] = value[n] /\ value[n] # "SP"
    <3>1. value[n] # "SP"
      BY <1>2, <1>8 DEF IsValue, n
    <3> QED
      BY <1>1, <1>3, <2>0, <3>1
  <2>2. b \in k..Len(line) /\ AllSpaces(line, b + 1, Len(line))
    <3>1. b + 1 = v + n
      BY <1>1, <1>4
    <3> QED
      BY <1>1, <1>3, <1>4, <2>1, <3>1
  <2>3. line[b] # "SP"
    BY <2>1
  <2>4. b \in Nat /\ b - k + 1 = w + n - 1 /\ w \in Nat /\ w >= 2
    BY <1>10, <2>0
  <2> HIDE DEF b
  <2>5. /\ t = SubSeq(line, k, b) /\ t \in Seq(Words) /\ Len(t) = w + n - 1 /\ t[1] = key
        /\ \A i \in 1..b - k + 1 : t[i] = line[k + i - 1]
    BY <1>6, <2>2, <2>3, <2>4
  <2> HIDE DEF t
  <2>6. ASSUME NEW i \in DOMAIN value PROVE t[w + i - 1] = value[i]
    <3>0. i \in 1..n
      BY <1>1
    <3>1. w + i - 1 \in 1..b - k + 1 /\ k + (w + i - 1) - 1 = v + i - 1
      BY <1>10, <2>0, <2>4, <3>0
    <3> QED
      BY <1>3, <2>5, <3>1
  <2>7. w \in 2..Len(t) + 1 /\ w + Len(value) = Len(t) + 1 /\ Len(t) >= 1
    <3>1. Len(value) = n
      BY DEF n
    <3> QED
      BY <1>10, <2>0, <2>4, <2>5, <3>1
  <2>8. ASSUME NEW e \in k + 1..v - 1, Equals(e)
        PROVE  Form(t, key, value)
    <3> DEFINE q == e - k + 1
    <3>1. q \in 2..Len(t) /\ q < w /\ q \in 1..b - k + 1 /\ k + q - 1 = e /\ q \in Nat /\ e \in Nat
      BY <1>10, <2>0, <2>4, <2>5, <2>8
    <3>2. t[q] = "EQ"
      BY <2>5, <2>8, <3>1
    <3>3. AllSpaces(t, 2, q - 1)
      <4>1. k + 2 - 1 = k + 1 /\ k + (q - 1) - 1 = e - 1 /\ q - 1 <= b - k + 1
        BY <1>10, <2>4, <3>1
      <4>2. 2 \in Nat \ {0} /\ q - 1 \in Int
        BY <3>1
      <4> HIDE DEF q
      <4> QED
        BY <1>4, <2>2, <2>5, <2>8, <4>1, <4>2, SpacesInPart
    <3>4. AllSpaces(t, q + 1, w - 1)
      <4>1. k + (q + 1) - 1 = e + 1 /\ k + (w - 1) - 1 = v - 1 /\ w - 1 <= b - k + 1
        BY <1>10, <2>0, <2>4, <3>1
      <4>2. q + 1 \in Nat \ {0} /\ w - 1 \in Int
        BY <2>4, <3>1
      <4> HIDE DEF q, w
      <4> QED
        BY <1>4, <2>2, <2>5, <2>8, <4>1, <4>2, SpacesInPart
    <3> HIDE DEF q, w
    <3> QED
      BY <2>5, <2>6, <2>7, <3>1, <3>2, <3>3, <3>4 DEF Form
  <2>9. ASSUME Apart, k + 1 <= v - 1 PROVE Form(t, key, value)
    <3>1. AllSpaces(t, 2, w - 1)
      <4>1. k + 2 - 1 = k + 1 /\ k + (w - 1) - 1 = v - 1 /\ w - 1 <= b - k + 1
        BY <1>10, <2>0, <2>4
      <4>2. 2 \in Nat \ {0} /\ w - 1 \in Int
        BY <2>4
      <4> HIDE DEF w
      <4> QED
        BY <1>4, <2>2, <2>5, <2>9, <4>1, <4>2, SpacesInPart
    <3>2. w \in 3..Len(t) + 1
      BY <1>4, <2>7, <2>9
    <3> HIDE DEF w
    <3> QED
      BY <1>8, <2>5, <2>6, <2>7, <2>9, <3>1, <3>2 DEF Form
  <2> HIDE DEF w, Equals, Apart
  <2> QED
    BY <1>7, <1>8, <2>8, <2>9 DEF t
<1>9. CASE value = <<>>
  <2>1. n = 0 /\ DOMAIN value = {}
    BY <1>9, EmptySeq DEF n
  <2>2. ASSUME Apart PROVE Form(t, key, value)
    <3>1. AllSpaces(line, k + 1, Len(line))
      BY <1>3, <1>4, <2>1, <2>2 DEF AllSpaces
    <3>2. k \in k..Len(line)
      BY <1>4
    <3>3. t \in Seq(Words) /\ Len(t) = k - k + 1 /\ t[1] = key
      BY <1>4, <1>6, <3>1, <3>2
    <3> HIDE DEF t
    <3>4. t \in Seq(Words) /\ Len(t) = 1 /\ t[1] = key
      BY <1>4, <3>3
    <3> QED
      BY <1>9, <3>4 DEF Form
  <2>3. ASSUME NEW e \in k + 1..v - 1, Equals(e) PROVE Form(t, key, value)
    <3> DEFINE q == e - k + 1
    <3>1. e \in k..Len(line) /\ line[e] # "SP" /\ e \in Nat /\ q \in Nat /\ q >= 2 /\ e - k + 1 = q
      <4>1. e \in k..Len(line)
        BY <1>4
      <4>2. line[e] # "SP"
        BY <2>3
      <4>3. e \in Nat /\ q \in Nat /\ q >= 2 /\ e - k + 1 = q
        BY <1>10
      <4> QED
        BY <4>1, <4>2, <4>3
    <3>2. AllSpaces(line, e + 1, Len(line))
      BY <1>3, <1>4, <2>1, <2>3 DEF AllSpaces
    <3>3. /\ t = SubSeq(line, k, e) /\ t \in Seq(Words) /\ Len(t) = q /\ t[1] = key
          /\ \A i \in 1..e - k + 1 : t[i] = line[k + i - 1]
      BY <1>6, <3>1, <3>2
    <3> HIDE DEF t
    <3>4. t[q] = "EQ"
      <4>1. q \in 1..e - k + 1 /\ k + q - 1 = e
        BY <1>10, <3>1
      <4> QED
        BY <2>3, <3>3, <4>1
    <3>5. AllSpaces(t, 2, q - 1)
      <4>1. k + 2 - 1 = k + 1 /\ k + (q - 1) - 1 = e - 1 /\ q - 1 <= e - k + 1
        BY <1>10, <3>1
      <4>2. 2 \in Nat \ {0} /\ q - 1 \in Int
        BY <3>1
      <4> HIDE DEF q
      <4> QED
        BY <1>4, <2>3, <3>1, <3>3, <4>1, <4>2, SpacesInPart
    <3> DEFINE w == q + 1
    <3>6. /\ q \in 2..Len(t) /\ w \in 2..Len(t) + 1 /\ q < w /\ Len(t) >= 1
          /\ w + Len(value) = Len(t) + 1
      <4>1. Len(value) = 0
        BY <2>1 DEF n
      <4>2. q \in Nat /\ q >= 2 /\ Len(t) = q
        BY <3>1, <3>3
      <4> QED
        BY <4>1, <4>2
    <3>7. AllSpaces(t, q + 1, w - 1)
      BY <3>1 DEF AllSpaces
    <3>8. \A i \in DOMAIN value : t[w + i - 1] = value[i]
      BY <2>1
    <3> HIDE DEF q, w
    <3> QED
      BY <3>3, <3>4, <3>5, <3>6, <3>7, <3>8 DEF Form
  <2> HIDE DEF t, Equals, Apart
  <2> QED
    BY <1>7, <2>2, <2>3 DEF t
<1> QED
  BY <1>8, <1>9

\* A line with a setting is read as that setting, in both forms.
LEMMA SettingParsed ==
  ASSUME NEW line \in Seq(Words), NEW setting, setting.key \in Words, setting.value \in Seq(Words),
         Writes(line, setting)
  PROVE  ParseConfigLine(line) = [key |-> <<setting.key>>, value |-> setting.value]
<1>1. setting.key \notin {"SP", "EQ", "HASH"} /\ IsValue(setting.value)
  BY DEF Writes
<1>2. Form(Trimmed(line), setting.key, setting.value)
  <2>1. PICK k, v : Placed(line, setting.key, setting.value, k, v)
    BY DEF Writes, Placed
  <2> QED
    BY <2>1, WrittenForm
<1> QED
  BY <1>1, <1>2, FormParsed

\* A line that says nothing has no key that there is.
LEMMA NothingParsed ==
  ASSUME NEW line \in Seq(Words), SaysNothing(line), NEW key \in Keys
  PROVE  ParseConfigLine(line).key # <<key>>
<1> DEFINE t == Trimmed(line)
           equals == FirstOf({"EQ"}, t)
           space == FirstOf({"SP"}, t)
<1>1. ParseConfigLine(line) =
        IF t = <<>> \/ Head(t) = "HASH" THEN NoSetting
        ELSE IF equals > 0 THEN SettingOf(t, equals, equals + 1)
        ELSE IF space > 0 THEN SettingOf(t, space, space)
        ELSE [key |-> t, value |-> <<>>]
  BY DEF ParseConfigLine
<1>2. NoSetting.key # <<key>>
  BY DEF NoSetting
<1>3. CASE AllSpaces(line, 1, Len(line))
  <2>1. t = <<>>
    BY <1>3, TrimmedSpaces
  <2> QED
    BY <1>1, <1>2, <2>1
<1>4. ASSUME NEW k \in DOMAIN line, AllSpaces(line, 1, k - 1), line[k] # "SP", line[k] \notin Keys
      PROVE  ParseConfigLine(line).key # <<key>>
  <2>1. t \in Seq(Words) /\ t # <<>> /\ Len(t) >= 1 /\ t[1] = line[k] /\ Len(t) \in Nat
    <3>1. k \in 1..Len(line)
      OBVIOUS
    <3> QED
      BY <1>4, <3>1, StillBegins
  <2>2. equals \in 0..Len(t) /\ space \in 0..Len(t)
    BY <2>1, FirstIn
  <2> HIDE DEF t, equals, space
  <2>3. ASSUME NEW cut \in 1..Len(t), NEW after PROVE SettingOf(t, cut, after).key # <<key>>
    <3> DEFINE s == SubSeq(t, 1, cut - 1)
    <3>1. s \in Seq(Words) /\ Len(s) = cut - 1 /\ \A i \in 1..cut - 1 : s[i] = t[i]
      <4>1. 1 \in 1..Len(t) + 1 /\ cut - 1 \in 1 - 1..Len(t)
        BY <2>1
      <4>2. /\ s \in Seq(Words) /\ Len(s) = cut - 1 - 1 + 1
            /\ \A i \in 1..cut - 1 - 1 + 1 : s[i] = t[1 + i - 1]
        BY <2>1, <4>1, PartOf
      <4> HIDE DEF s
      <4>3. cut - 1 - 1 + 1 = cut - 1 /\ \A i \in 1..cut - 1 : 1 + i - 1 = i
        BY <2>1
      <4> QED
        BY <4>2, <4>3
    <3>2. SettingOf(t, cut, after).key = Trimmed(s)
      BY DEF SettingOf
    <3> HIDE DEF s
    <3>3. CASE cut = 1
      <4>1. AllSpaces(s, 1, Len(s))
        BY <3>1, <3>3 DEF AllSpaces
      <4>2. Trimmed(s) = <<>>
        BY <3>1, <4>1, TrimmedSpaces
      <4> QED
        BY <3>2, <4>2
    <3>4. CASE cut # 1
      <4>1. 1 \in 1..Len(s) /\ AllSpaces(s, 1, 1 - 1) /\ s[1] = line[k]
        BY <2>1, <3>1, <3>4 DEF AllSpaces
      <4>2. Trimmed(s)[1] = line[k]
        BY <1>4, <3>1, <4>1, StillBegins
      <4> QED
        BY <1>4, <3>2, <4>2
    <3> QED
      BY <3>3, <3>4
  <2>4. t # <<key>>
    BY <1>4, <2>1
  <2>5. [key |-> t, value |-> <<>>].key # <<key>>
    BY <2>4
  <2>6. CASE t = <<>> \/ Head(t) = "HASH"
    BY <1>1, <1>2, <2>6
  <2>7. CASE ~(t = <<>> \/ Head(t) = "HASH") /\ equals > 0
    <3>1. equals \in 1..Len(t) /\ ParseConfigLine(line) = SettingOf(t, equals, equals + 1)
      BY <1>1, <2>1, <2>2, <2>7
    <3> QED
      BY <2>3, <3>1
  <2>8. CASE ~(t = <<>> \/ Head(t) = "HASH") /\ ~(equals > 0) /\ space > 0
    <3>1. space \in 1..Len(t) /\ ParseConfigLine(line) = SettingOf(t, space, space)
      BY <1>1, <2>1, <2>2, <2>8
    <3> QED
      BY <2>3, <3>1
  <2> QED
    BY <1>1, <2>5, <2>6, <2>7, <2>8
<1> QED
  BY <1>3, <1>4 DEF SaysNothing

ConfigUpTo(f, lines) ==
  f = [n \in 0..Len(lines) |->
         IF n = 0 THEN NoConfig ELSE WithSetting(f[n - 1], ParseConfigLine(lines[n]))]
AllUpTo(g, settings, key) ==
  g = [n \in 0..Len(settings) |->
         IF n = 0 THEN <<>>
         ELSE IF settings[n].key = key /\ settings[n].value # <<>>
         THEN Append(g[n - 1], settings[n].value)
         ELSE g[n - 1]]

LEMMA ConfigExists ==
  ASSUME NEW lines, Len(lines) \in Nat
  PROVE  \E f : ConfigUpTo(f, lines)
<1> DEFINE Step(n, config) == WithSetting(config, ParseConfigLine(lines[n]))
           Is(f, m) == f = [n \in 0..m |-> IF n = 0 THEN NoConfig ELSE Step(n, f[n - 1])]
           T == {m \in Nat : \E f : Is(f, m)}
<1>1. 0 \in T
  <2> DEFINE f == [n \in 0..0 |-> NoConfig]
  <2>1. Is(f, 0)
    OBVIOUS
  <2> QED
    BY <2>1
<1>2. ASSUME NEW m \in Nat, m \in T PROVE m + 1 \in T
  <2>1. PICK f : Is(f, m)
    BY <1>2
  <2> HIDE DEF Step
  <2> DEFINE h == [n \in 0..m + 1 |-> IF n = m + 1 THEN Step(n, f[m]) ELSE f[n]]
  <2>2. ASSUME NEW n \in 0..m + 1
        PROVE  h[n] = IF n = 0 THEN NoConfig ELSE Step(n, h[n - 1])
    <3>1. CASE n = m + 1
      <4>1. h[n] = Step(n, f[m]) /\ h[n - 1] = f[m] /\ n # 0
        BY <3>1
      <4> HIDE DEF h
      <4> QED
        BY <4>1
    <3>2. CASE n # m + 1
      <4>1. n \in 0..m
        BY <3>2
      <4>2. h[n] = f[n]
        BY <3>2
      <4>3. f[n] = IF n = 0 THEN NoConfig ELSE Step(n, f[n - 1])
        BY <2>1, <4>1
      <4>4. n # 0 => h[n - 1] = f[n - 1]
        BY <4>1
      <4> HIDE DEF h
      <4> QED
        BY <4>2, <4>3, <4>4
    <3> QED
      BY <3>1, <3>2
  <2>3. Is(h, m + 1)
    <3>1. h = [n \in 0..m + 1 |-> h[n]]
      OBVIOUS
    <3> HIDE DEF h
    <3> QED
      BY <2>2, <3>1
  <2> HIDE DEF h, Is
  <2> QED
    BY <2>3
<1> HIDE DEF T
<1>3. Len(lines) \in T
  BY <1>1, <1>2, SetInduction
<1> QED
  BY <1>3 DEF T, ConfigUpTo

LEMMA AllExist ==
  ASSUME NEW settings, NEW key, Len(settings) \in Nat
  PROVE  \E g : AllUpTo(g, settings, key)
<1> DEFINE Step(n, all) == IF settings[n].key = key /\ settings[n].value # <<>>
                           THEN Append(all, settings[n].value)
                           ELSE all
           Is(g, m) == g = [n \in 0..m |-> IF n = 0 THEN <<>> ELSE Step(n, g[n - 1])]
           T == {m \in Nat : \E g : Is(g, m)}
<1>1. 0 \in T
  <2> DEFINE g == [n \in 0..0 |-> <<>>]
  <2>1. Is(g, 0)
    OBVIOUS
  <2> QED
    BY <2>1
<1>2. ASSUME NEW m \in Nat, m \in T PROVE m + 1 \in T
  <2>1. PICK g : Is(g, m)
    BY <1>2
  <2> HIDE DEF Step
  <2> DEFINE h == [n \in 0..m + 1 |-> IF n = m + 1 THEN Step(n, g[m]) ELSE g[n]]
  <2>2. ASSUME NEW n \in 0..m + 1
        PROVE  h[n] = IF n = 0 THEN <<>> ELSE Step(n, h[n - 1])
    <3>1. CASE n = m + 1
      <4>1. h[n] = Step(n, g[m]) /\ h[n - 1] = g[m] /\ n # 0
        BY <3>1
      <4> HIDE DEF h
      <4> QED
        BY <4>1
    <3>2. CASE n # m + 1
      <4>1. n \in 0..m
        BY <3>2
      <4>2. h[n] = g[n]
        BY <3>2
      <4>3. g[n] = IF n = 0 THEN <<>> ELSE Step(n, g[n - 1])
        BY <2>1, <4>1
      <4>4. n # 0 => h[n - 1] = g[n - 1]
        BY <4>1
      <4> HIDE DEF h
      <4> QED
        BY <4>2, <4>3, <4>4
    <3> QED
      BY <3>1, <3>2
  <2>3. Is(h, m + 1)
    <3>1. h = [n \in 0..m + 1 |-> h[n]]
      OBVIOUS
    <3> HIDE DEF h
    <3> QED
      BY <2>2, <3>1
  <2> HIDE DEF h, Is
  <2> QED
    BY <2>3
<1> HIDE DEF T
<1>3. Len(settings) \in T
  BY <1>1, <1>2, SetInduction
<1> QED
  BY <1>3 DEF T, AllUpTo

\* The last value of a key in the first so many settings.
LastUpTo(settings, key, m) ==
  LET given == {i \in 1..m : settings[i].key = key}
  IN IF given = {} THEN <<>>
     ELSE settings[CHOOSE i \in given : \A j \in given : j <= i].value

LEMMA LastOfNext ==
  ASSUME NEW settings, NEW key, NEW m \in Nat
  PROVE  LastUpTo(settings, key, m + 1) =
           IF settings[m + 1].key = key THEN settings[m + 1].value ELSE LastUpTo(settings, key, m)
<1> DEFINE given(k) == {i \in 1..k : settings[i].key = key}
<1>1. CASE settings[m + 1].key = key
  <2> DEFINE last == CHOOSE i \in given(m + 1) : \A j \in given(m + 1) : j <= i
  <2>1. m + 1 \in given(m + 1) /\ \A j \in given(m + 1) : j <= m + 1 /\ j \in Nat
    BY <1>1
  <2>2. LastUpTo(settings, key, m + 1) = settings[last].value
    BY <2>1 DEF LastUpTo
  <2> HIDE DEF given
  <2>3. last \in given(m + 1) /\ \A j \in given(m + 1) : j <= last
    BY <2>1
  <2> HIDE DEF last
  <2>4. last = m + 1
    BY <2>1, <2>3
  <2> QED
    BY <1>1, <2>2, <2>4
<1>2. CASE settings[m + 1].key # key
  <2>1. given(m + 1) = given(m)
    <3>1. ASSUME NEW i PROVE i \in given(m + 1) <=> i \in given(m)
      <4>1. i \in 1..m + 1 <=> i \in 1..m \/ i = m + 1
        OBVIOUS
      <4> QED
        BY <1>2, <4>1
    <3> HIDE DEF given
    <3> QED
      BY <3>1
  <2>2. ASSUME NEW k
        PROVE  LastUpTo(settings, key, k) =
                 IF given(k) = {} THEN <<>>
                 ELSE settings[CHOOSE i \in given(k) : \A j \in given(k) : j <= i].value
    BY DEF LastUpTo
  <2> HIDE DEF given
  <2>3. LastUpTo(settings, key, m + 1) = LastUpTo(settings, key, m)
    BY <2>1, <2>2, Zenon
  <2> QED
    BY <1>2, <2>3
<1> QED
  BY <1>1, <1>2

\* What the first so many settings mean for a key, when g has the lists.
MeantUpTo(settings, key, g, m) == IF key \in LastKeys THEN LastUpTo(settings, key, m) ELSE g[m]

\* What another setting makes of it.
Further(meant, setting, key) ==
  IF setting.key # key THEN meant
  ELSE IF key \in LastKeys THEN setting.value
  ELSE IF setting.value = <<>> THEN meant
  ELSE Append(meant, setting.value)

LEMMA MeantNext ==
  ASSUME NEW settings, NEW key, NEW g, AllUpTo(g, settings, key), Len(settings) \in Nat,
         NEW m \in Nat, m + 1 <= Len(settings)
  PROVE  MeantUpTo(settings, key, g, m + 1) =
           Further(MeantUpTo(settings, key, g, m), settings[m + 1], key)
<1>1. m + 1 \in 0..Len(settings) /\ m + 1 # 0 /\ m + 1 - 1 = m
  OBVIOUS
<1>2. g[m + 1] = IF settings[m + 1].key = key /\ settings[m + 1].value # <<>>
                 THEN Append(g[m], settings[m + 1].value)
                 ELSE g[m]
  <2> DEFINE Step(n) == IF settings[n].key = key /\ settings[n].value # <<>>
                        THEN Append(g[n - 1], settings[n].value)
                        ELSE g[n - 1]
  <2>1. g = [n \in 0..Len(settings) |-> IF n = 0 THEN <<>> ELSE Step(n)]
    BY DEF AllUpTo
  <2> HIDE DEF Step
  <2>2. g[m + 1] = Step(m + 1)
    BY <1>1, <2>1
  <2>3. Step(m + 1) = IF settings[m + 1].key = key /\ settings[m + 1].value # <<>>
                      THEN Append(g[m + 1 - 1], settings[m + 1].value)
                      ELSE g[m + 1 - 1]
    BY DEF Step
  <2> QED
    BY <1>1, <2>2, <2>3
<1>3. LastUpTo(settings, key, m + 1) =
        IF settings[m + 1].key = key THEN settings[m + 1].value ELSE LastUpTo(settings, key, m)
  BY LastOfNext
<1> QED
  BY <1>2, <1>3, Zenon DEF MeantUpTo, Further

\* The first so many lines have been written for the first so many settings.
Reached(at, settings, n, m) ==
  m \in 0..Len(settings) /\ \A i \in DOMAIN settings : at[i] <= n <=> i <= m

LEMMA FileIsRead ==
  ASSUME NEW lines \in Seq(Seq(Words)), NEW settings \in Seq([key : Words, value : Seq(Words)]),
         WrittenIn(lines, settings), NEW key \in Keys
  PROVE  ReadConfig(lines)[key] = Meant(settings)[key]
<1>1. Len(lines) \in Nat /\ Len(settings) \in Nat /\ DOMAIN settings = 1..Len(settings)
      /\ DOMAIN lines = 1..Len(lines)
  OBVIOUS
<1>2. ASSUME NEW i \in 1..Len(settings)
      PROVE  settings[i].key \in Words /\ settings[i].value \in Seq(Words)
  <2> DEFINE R == [key : Words, value : Seq(Words)]
  <2>1. settings \in Seq(R)
    OBVIOUS
  <2> HIDE DEF R
  <2>2. settings[i] \in R
    BY <2>1
  <2> USE DEF R
  <2> QED
    BY <2>2
<1>3. ASSUME NEW n \in 1..Len(lines) PROVE lines[n] \in Seq(Words)
  OBVIOUS
<1>4. PICK at \in [DOMAIN settings -> DOMAIN lines] :
        /\ \A i, j \in DOMAIN settings : i < j => at[i] < at[j]
        /\ \A i \in DOMAIN settings : Writes(lines[at[i]], settings[i])
        /\ \A n \in DOMAIN lines : (\A i \in DOMAIN settings : at[i] # n) => SaysNothing(lines[n])
  BY DEF WrittenIn
<1>5. \A i \in 1..Len(settings) : at[i] \in 1..Len(lines)
  BY <1>1
<1> DEFINE read == CHOOSE f : ConfigUpTo(f, lines)
           all == CHOOSE g : AllUpTo(g, settings, key)
<1>6. ConfigUpTo(read, lines) /\ AllUpTo(all, settings, key)
  BY <1>1, ConfigExists, AllExist
<1>7. ReadConfig(lines) = read[Len(lines)]
  BY DEF ReadConfig, ConfigUpTo
<1>8. AllOf(settings, key) = all[Len(settings)]
  BY DEF AllOf, AllUpTo
<1> HIDE DEF read, all
<1>9. LastOf(settings, key) = LastUpTo(settings, key, Len(settings))
  BY <1>1 DEF LastOf, LastUpTo
<1>10. Meant(settings)[key] = MeantUpTo(settings, key, all, Len(settings))
  BY <1>8, <1>9 DEF Meant, MeantUpTo
<1> DEFINE Done(n, m) == /\ Reached(at, settings, n, m)
                         /\ read[n][key] = MeantUpTo(settings, key, all, m)
           T == {n \in Nat : n <= Len(lines) => \E m \in Nat : Done(n, m)}
<1>11. 0 \in T
  <2>1. Reached(at, settings, 0, 0)
    BY <1>1, <1>5 DEF Reached
  <2>2. read[0] = NoConfig
    BY <1>1, <1>6 DEF ConfigUpTo
  <2>3. NoConfig[key] = <<>>
    BY DEF NoConfig
  <2>4. all[0] = <<>>
    BY <1>1, <1>6 DEF AllUpTo
  <2>5. LastUpTo(settings, key, 0) = <<>>
    <3>1. {i \in 1..0 : settings[i].key = key} = {}
      OBVIOUS
    <3> QED
      BY <3>1, Zenon DEF LastUpTo
  <2>6. MeantUpTo(settings, key, all, 0) = <<>>
    BY <2>4, <2>5, Zenon DEF MeantUpTo
  <2>7. Done(0, 0)
    BY <2>1, <2>2, <2>3, <2>6
  <2> HIDE DEF Done
  <2> QED
    BY <2>7
<1>12. ASSUME NEW n \in Nat, n \in T PROVE n + 1 \in T
  <2> SUFFICES ASSUME n + 1 <= Len(lines) PROVE \E m \in Nat : Done(n + 1, m)
    OBVIOUS
  <2>1. n + 1 \in 1..Len(lines) /\ n <= Len(lines) /\ n + 1 \in 0..Len(lines) /\ n + 1 # 0 /\ n + 1 - 1 = n
    BY <1>1
  <2>2. PICK m \in Nat : Done(n, m)
    <3> HIDE DEF Done
    <3> QED
      BY <1>12, <2>1
  <2>3. Reached(at, settings, n, m) /\ read[n][key] = MeantUpTo(settings, key, all, m)
    BY <2>2
  <2> DEFINE parsed == ParseConfigLine(lines[n + 1])
  <2>4. read[n + 1] = WithSetting(read[n], parsed)
    BY <1>6, <2>1 DEF ConfigUpTo
  <2>5. WithSetting(read[n], parsed)[key] =
          IF parsed.key # <<key>> THEN read[n][key]
          ELSE IF key \in LastKeys THEN parsed.value
          ELSE IF parsed.value = <<>> THEN read[n][key]
          ELSE Append(read[n][key], parsed.value)
    BY DEF WithSetting
  <2> HIDE DEF parsed
  <2>6. CASE m + 1 \in 1..Len(settings) /\ at[m + 1] = n + 1
    <3>1. Reached(at, settings, n + 1, m + 1)
      <4>1. ASSUME NEW i \in DOMAIN settings PROVE at[i] <= n + 1 <=> i <= m + 1
        <5>1. at[i] <= n <=> i <= m
          BY <2>3 DEF Reached
        <5>2. i < m + 1 => at[i] < n + 1
          BY <1>1, <1>4, <2>6
        <5>3. i > m + 1 => at[i] > n + 1
          BY <1>1, <1>4, <2>6
        <5>4. i \in Nat /\ at[i] \in Nat
          BY <1>1, <1>5
        <5> QED
          BY <2>6, <5>1, <5>2, <5>3, <5>4
      <4> QED
        BY <2>6, <4>1 DEF Reached
    <3>2. /\ settings[m + 1].key \in Words /\ settings[m + 1].value \in Seq(Words)
          /\ Writes(lines[n + 1], settings[m + 1]) /\ lines[n + 1] \in Seq(Words)
      BY <1>1, <1>2, <1>3, <1>4, <2>1, <2>6
    <3>3. parsed = [key |-> <<settings[m + 1].key>>, value |-> settings[m + 1].value]
      BY <3>2, SettingParsed DEF parsed
    <3>4. parsed.value = settings[m + 1].value /\ (parsed.key = <<key>> <=> settings[m + 1].key = key)
      BY <3>3
    <3>5. MeantUpTo(settings, key, all, m + 1) =
            Further(MeantUpTo(settings, key, all, m), settings[m + 1], key)
      <4>1. m + 1 <= Len(settings)
        BY <1>1, <2>6
      <4> QED
        BY <1>1, <1>6, <4>1, MeantNext
    <3>6. read[n + 1][key] = MeantUpTo(settings, key, all, m + 1)
      BY <2>3, <2>4, <2>5, <3>4, <3>5, Zenon DEF Further
    <3>7. Done(n + 1, m + 1)
      BY <3>1, <3>6
    <3> HIDE DEF Done
    <3> QED
      BY <3>7
  <2>7. CASE ~(m + 1 \in 1..Len(settings) /\ at[m + 1] = n + 1)
    <3>1. ASSUME NEW i \in DOMAIN settings PROVE at[i] # n + 1 /\ (at[i] <= n + 1 <=> i <= m)
      <4>1. at[i] <= n <=> i <= m
        BY <2>3 DEF Reached
      <4>2. i \in Nat /\ at[i] \in Nat /\ i <= Len(settings)
        BY <1>1, <1>5
      <4>3. ASSUME i > m PROVE at[i] > n + 1
        <5>1. m + 1 \in DOMAIN settings /\ m + 1 <= i
          BY <1>1, <4>2, <4>3
        <5>2. at[m + 1] \in Nat /\ ~(at[m + 1] <= n) /\ at[m + 1] # n + 1
          <6>1. at[m + 1] <= n <=> m + 1 <= m
            BY <2>3, <5>1 DEF Reached
          <6>2. at[m + 1] \in Nat /\ m + 1 \in 1..Len(settings)
            BY <1>1, <1>5, <5>1
          <6> QED
            BY <2>7, <6>1, <6>2
        <5>3. m + 1 < i => at[m + 1] < at[i]
          BY <1>4, <5>1
        <5>4. at[m + 1] > n + 1
          BY <5>2
        <5>5. CASE m + 1 = i
          BY <5>4, <5>5
        <5>6. CASE m + 1 < i
          BY <4>2, <5>2, <5>3, <5>4, <5>6
        <5> QED
          BY <4>2, <5>1, <5>5, <5>6
      <4> QED
        BY <4>1, <4>2, <4>3
    <3>2. Reached(at, settings, n + 1, m)
      BY <2>3, <3>1 DEF Reached
    <3>3. SaysNothing(lines[n + 1]) /\ lines[n + 1] \in Seq(Words)
      BY <1>1, <1>3, <1>4, <2>1, <3>1
    <3>4. parsed.key # <<key>>
      BY <3>3, NothingParsed DEF parsed
    <3>5. read[n + 1][key] = MeantUpTo(settings, key, all, m)
      BY <2>3, <2>4, <2>5, <3>4, Zenon
    <3>6. Done(n + 1, m)
      BY <3>2, <3>5
    <3> HIDE DEF Done
    <3> QED
      BY <3>6
  <2> QED
    BY <2>6, <2>7
<1>13. PICK m \in Nat : Done(Len(lines), m)
  <2> HIDE DEF Done
  <2>1. Len(lines) \in T
    <3> HIDE DEF T
    <3> QED
      BY <1>1, <1>11, <1>12, SetInduction
  <2> QED
    BY <1>1, <2>1
<1>14. m = Len(settings)
  <2>1. m \in 0..Len(settings) /\ \A i \in DOMAIN settings : at[i] <= Len(lines) <=> i <= m
    BY <1>13 DEF Reached
  <2>2. ASSUME Len(settings) # 0 PROVE Len(settings) <= m
    <3>1. Len(settings) \in DOMAIN settings
      BY <1>1, <2>2
    <3>2. at[Len(settings)] <= Len(lines)
      BY <1>1, <1>5, <3>1
    <3> QED
      BY <2>1, <3>1, <3>2
  <2>3. m \in Nat /\ m <= Len(settings)
    BY <1>1, <2>1
  <2>4. Len(settings) \in Nat
    BY <1>1
  <2>5. Len(settings) = 0 \/ Len(settings) <= m
    BY <2>2
  <2> QED
    BY <2>3, <2>4, <2>5
<1> QED
  BY <1>7, <1>10, <1>13, <1>14

\* Nobody changes the file while the program runs.
LEMMA HostStays ==
  ASSUME [Next]_vars
  PROVE  host' = host
BY DEF Next, Program, Process, Start, SkipLine, ReadOK, Configure, ReadAnswer, SayBye,
       ReadFarewell, Reap, Greet, Obey, Deliver, Exit, Chat, UserAnswers, Crash, Hang,
       vars, client

\* The configuration file says what was written into it, whatever the settings are, in
\* which form each is written, and which comments, empty lines and unknown keys stand
\* between them (parseConfigLine and readConfig in config.go).
THEOREM SettingsAreUnderstood == Spec => []SettingsAreRead
<1> DEFINE HInv == host \in Hosts
<1>1. Init => HInv
  BY DEF Init
<1>2. HInv /\ [Next]_vars => HInv'
  BY HostStays
<1>3. HInv => SettingsAreRead
  <2> SUFFICES ASSUME host \in Hosts, host.file.there, host.file.readable
               PROVE  Config(host.file) = Meant(host.file.settings)
    BY DEF SettingsAreRead
  <2>1. /\ host.file.lines \in Seq(Seq(Words))
        /\ host.file.settings \in Seq([key : Words, value : Seq(Words)])
        /\ WrittenIn(host.file.lines, host.file.settings)
    BY FilesAssumption
  <2> DEFINE lines == host.file.lines
             settings == host.file.settings
  <2> HIDE DEF lines, settings
  <2>2. \A key \in Keys : ReadConfig(lines)[key] = Meant(settings)[key]
    BY <2>1, FileIsRead DEF lines, settings
  <2>3. ReadConfig(lines) = [key \in Keys |-> ReadConfig(lines)[key]]
    <3>1. Len(lines) \in Nat
      BY <2>1 DEF lines
    <3> DEFINE read == CHOOSE f : ConfigUpTo(f, lines)
    <3>2. ConfigUpTo(read, lines)
      BY <3>1, ConfigExists
    <3>3. ReadConfig(lines) = read[Len(lines)]
      BY DEF ReadConfig, ConfigUpTo
    <3> HIDE DEF read
    <3>4. read[Len(lines)] = IF Len(lines) = 0 THEN NoConfig
                             ELSE WithSetting(read[Len(lines) - 1], ParseConfigLine(lines[Len(lines)]))
      <4> DEFINE Step(n) == WithSetting(read[n - 1], ParseConfigLine(lines[n]))
      <4>1. read = [n \in 0..Len(lines) |-> IF n = 0 THEN NoConfig ELSE Step(n)]
        BY <3>2 DEF ConfigUpTo
      <4>2. Len(lines) \in 0..Len(lines)
        BY <3>1
      <4> HIDE DEF Step
      <4>3. read[Len(lines)] = IF Len(lines) = 0 THEN NoConfig ELSE Step(Len(lines))
        BY <4>1, <4>2
      <4> QED
        BY <4>3 DEF Step
    <3>5. NoConfig = [key \in Keys |-> NoConfig[key]]
      BY DEF NoConfig
    <3>6. ASSUME NEW config, NEW setting
          PROVE  WithSetting(config, setting) = [key \in Keys |-> WithSetting(config, setting)[key]]
      BY DEF WithSetting
    <3>7. CASE Len(lines) = 0
      <4>1. ReadConfig(lines) = NoConfig
        BY <3>3, <3>4, <3>7, Zenon
      <4> QED
        BY <3>5, <4>1, Zenon
    <3>8. CASE Len(lines) # 0
      <4> DEFINE config == read[Len(lines) - 1]
                 setting == ParseConfigLine(lines[Len(lines)])
      <4>1. ReadConfig(lines) = WithSetting(config, setting)
        BY <3>3, <3>4, <3>8, Zenon
      <4> HIDE DEF config, setting
      <4>2. WithSetting(config, setting) = [key \in Keys |-> WithSetting(config, setting)[key]]
        BY <3>6
      <4> QED
        BY <4>1, <4>2, Zenon
    <3> QED
      BY <3>7, <3>8
  <2>4. Meant(settings) = [key \in Keys |-> Meant(settings)[key]]
    BY DEF Meant
  <2>5. ReadConfig(lines) = Meant(settings)
    BY <2>2, <2>3, <2>4, Zenon
  <2> QED
    BY <2>5 DEF Config, lines, settings
<1> QED
  BY <1>1, <1>2, <1>3, PTL DEF Spec
=============================================================================
