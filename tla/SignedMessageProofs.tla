------------------------- MODULE SignedMessageProofs -------------------------
(***************************************************************************)
(* What module SignedMessage promises, for every content, every signer and *)
(* every message of another program, however the time stamping service     *)
(* answers, and whatever becomes of the message on its way.                *)
(***************************************************************************)
EXTENDS SignedMessage, SequenceTheorems, SetInduction

IsSequence(s) == \E S : s \in Seq(S)

-----------------------------------------------------------------------------
(* Octets within octets.                                                   *)

\* The octets stand at a position, and before the end of what may be read.
Stands(e, ber, at, end) ==
  /\ ber \in Seq(Octets) /\ e \in Seq(Octets) /\ at \in Nat \ {0} /\ end \in 0..Len(ber)
  /\ at + Len(e) - 1 <= end
  /\ \A i \in 1..Len(e) : ber[at + i - 1] = e[i]

LEMMA StandsParts ==
  ASSUME NEW ber, NEW at, NEW end, NEW a \in Seq(Octets), NEW b \in Seq(Octets),
         Stands(a \o b, ber, at, end)
  PROVE  Stands(a, ber, at, end) /\ Stands(b, ber, at + Len(a), end)
<1> DEFINE ab == a \o b
<1>1. /\ Len(ab) = Len(a) + Len(b) /\ Len(a) \in Nat /\ Len(b) \in Nat
      /\ \A i \in 1..Len(a) + Len(b) : ab[i] = IF i <= Len(a) THEN a[i] ELSE b[i - Len(a)]
  BY ConcatProperties
<1>2. /\ ber \in Seq(Octets) /\ at \in Nat \ {0} /\ end \in 0..Len(ber) /\ Len(ber) \in Nat
      /\ at + Len(ab) - 1 <= end /\ \A i \in 1..Len(ab) : ber[at + i - 1] = ab[i]
  BY DEF Stands
<1> HIDE DEF ab
<1>3. ASSUME NEW i \in 1..Len(a) PROVE ber[at + i - 1] = a[i]
  BY <1>1, <1>2
<1>4. ASSUME NEW i \in 1..Len(b) PROVE ber[(at + Len(a)) + i - 1] = b[i]
  <2>1. Len(a) + i \in 1..Len(a) + Len(b) /\ ~(Len(a) + i <= Len(a)) /\ (Len(a) + i) - Len(a) = i
    BY <1>1
  <2>2. ab[Len(a) + i] = b[i]
    BY <1>1, <2>1
  <2>3. ber[at + (Len(a) + i) - 1] = ab[Len(a) + i]
    BY <1>1, <1>2, <2>1
  <2>4. at + (Len(a) + i) - 1 = (at + Len(a)) + i - 1
    BY <1>1, <1>2
  <2> QED
    BY <2>2, <2>3, <2>4
<1>5. Stands(a, ber, at, end)
  BY <1>1, <1>2, <1>3 DEF Stands
<1>6. Stands(b, ber, at + Len(a), end)
  <2>1. at + Len(a) \in Nat \ {0} /\ (at + Len(a)) + Len(b) - 1 <= end
    BY <1>1, <1>2
  <2> QED
    BY <1>2, <1>4, <2>1 DEF Stands
<1> QED
  BY <1>5, <1>6

LEMMA StandsWithin ==
  ASSUME NEW ber, NEW at, NEW end, NEW e, Stands(e, ber, at, end),
         NEW to \in Nat, at + Len(e) - 1 <= to, to <= end
  PROVE  Stands(e, ber, at, to)
BY DEF Stands

\* What stands there is what is taken from there.
LEMMA StandsTaken ==
  ASSUME NEW ber, NEW at, NEW end, NEW e, Stands(e, ber, at, end)
  PROVE  SubSeq(ber, at, at + Len(e) - 1) = e
<1> DEFINE to == at + Len(e) - 1
<1>1. /\ Len(e) \in Nat /\ \A i \in 1..Len(e) : e[i] \in Octets /\ ber[at + i - 1] = e[i]
      /\ e \in Seq(Octets) /\ at \in Nat
  BY DEF Stands
<1>2. \A i \in at..to : ber[i] \in Octets
  <2> SUFFICES ASSUME NEW i \in at..to PROVE ber[i] \in Octets
    OBVIOUS
  <2>1. i - at + 1 \in 1..Len(e) /\ at + (i - at + 1) - 1 = i
    BY <1>1
  <2> QED
    BY <1>1, <2>1
<1>3. /\ SubSeq(ber, at, to) \in Seq(Octets)
      /\ Len(SubSeq(ber, at, to)) = IF at <= to THEN to - at + 1 ELSE 0
      /\ \A i \in 1..to - at + 1 : SubSeq(ber, at, to)[i] = ber[at + i - 1]
  <2>1. at \in Int /\ to \in Int
    BY <1>1
  <2> HIDE DEF to
  <2> QED
    BY <1>2, <2>1, SubSeqProperties
<1>4. Len(SubSeq(ber, at, to)) = Len(e) /\ to - at + 1 = Len(e)
  BY <1>1, <1>3
<1>5. \A i \in 1..Len(e) : SubSeq(ber, at, to)[i] = e[i]
  BY <1>1, <1>3, <1>4
<1> HIDE DEF to
<1> QED
  BY <1>1, <1>3, <1>4, <1>5, SeqEqual DEF to

-----------------------------------------------------------------------------
(* The calls.                                                              *)

\* What the calls return that nest ever deeper.
Nests(ber, f) ==
  f = [n \in 0..Len(ber) + 1 |-> IF n = 0 THEN <<>> ELSE Reading(ber, f[n - 1])]

LEMMA CallsExist ==
  ASSUME NEW ber
  PROVE  \A m \in Nat : \E g : g = [n \in 0..m |-> IF n = 0 THEN <<>> ELSE Reading(ber, g[n - 1])]
<1> DEFINE T == {m \in Nat : \E g : g = [n \in 0..m |-> IF n = 0 THEN <<>> ELSE Reading(ber, g[n - 1])]}
<1>1. 0 \in T
  <2> DEFINE g == [n \in 0..0 |-> <<>>]
  <2>1. g = [n \in 0..0 |-> IF n = 0 THEN <<>> ELSE Reading(ber, g[n - 1])]
    OBVIOUS
  <2> QED
    BY <2>1
<1>2. ASSUME NEW m \in Nat, m \in T PROVE m + 1 \in T
  <2>1. PICK g : g = [n \in 0..m |-> IF n = 0 THEN <<>> ELSE Reading(ber, g[n - 1])]
    BY <1>2
  <2> DEFINE h == [n \in 0..m + 1 |-> IF n = m + 1 THEN Reading(ber, g[m]) ELSE g[n]]
  <2>2. ASSUME NEW n \in 0..m + 1
        PROVE  h[n] = IF n = 0 THEN <<>> ELSE Reading(ber, h[n - 1])
    <3>1. CASE n = m + 1
      <4>1. h[n] = Reading(ber, g[m]) /\ h[n - 1] = g[m]
        BY <3>1
      <4> QED
        BY <3>1, <4>1
    <3>2. CASE n # m + 1
      <4>1. n \in 0..m
        BY <3>2
      <4>2. h[n] = g[n]
        BY <3>2
      <4>3. g[n] = IF n = 0 THEN <<>> ELSE Reading(ber, g[n - 1])
        BY <2>1, <4>1
      <4>4. n # 0 => h[n - 1] = g[n - 1]
        BY <4>1
      <4> HIDE DEF h
      <4> QED
        BY <4>2, <4>3, <4>4
    <3> QED
      BY <3>1, <3>2
  <2>3. h = [n \in 0..m + 1 |-> IF n = 0 THEN <<>> ELSE Reading(ber, h[n - 1])]
    <3>1. h = [n \in 0..m + 1 |-> h[n]]
      OBVIOUS
    <3> HIDE DEF h
    <3> QED
      BY <2>2, <3>1
  <2> HIDE DEF h
  <2> QED
    BY <2>3
<1> HIDE DEF T
<1>3. \A m \in Nat : m \in T
  BY <1>1, <1>2, SetInduction
<1> QED
  BY <1>3 DEF T

LEMMA TranscodingCalls ==
  ASSUME NEW ber \in Seq(Octets)
  PROVE  \E f : /\ Nests(ber, f)
                /\ Transcoding(ber) = f[Len(ber) + 1][Call("element", 1, Len(ber), 0)]
<1>1. Len(ber) + 1 \in Nat
  OBVIOUS
<1>2. \E f : Nests(ber, f)
  BY <1>1, CallsExist DEF Nests
<1>3. Nests(ber, CHOOSE f : Nests(ber, f))
  BY <1>2, Zenon
<1>4. Transcoding(ber) = (CHOOSE f : Nests(ber, f))[Len(ber) + 1][Call("element", 1, Len(ber), 0)]
  BY Zenon DEF Transcoding, Nests
<1> QED
  BY <1>3, <1>4, Zenon

\* A call is answered from the calls in it.
LEMMA Answered ==
  ASSUME NEW ber \in Seq(Octets), NEW f, Nests(ber, f), NEW n \in 1..Len(ber) + 1,
         NEW what \in {"element", "body", "open"}, NEW at \in 1..Len(ber) + 1,
         NEW end \in 0..Len(ber), NEW depth \in 0..MaxBERDepth + 1
  PROVE  f[n][Call(what, at, end, depth)]
           = IF what = "element" THEN ReadElement(ber, f[n - 1], at, end, depth)
             ELSE ReadElements(ber, f[n - 1], what, at, end, depth)
<1> DEFINE call == Call(what, at, end, depth)
<1>1. n \in 0..Len(ber) + 1 /\ n # 0
  OBVIOUS
<1>2. f[n] = Reading(ber, f[n - 1])
  BY <1>1 DEF Nests
<1>3. call \in Calls(ber)
  BY DEF Call, Calls
<1>4. call.what = what /\ call.at = at /\ call.end = end /\ call.depth = depth
  BY DEF Call
<1> HIDE DEF call
<1>5. Reading(ber, f[n - 1])[call]
        = IF call.what = "element" THEN ReadElement(ber, f[n - 1], call.at, call.end, call.depth)
          ELSE ReadElements(ber, f[n - 1], call.what, call.at, call.end, call.depth)
  BY <1>3, Zenon DEF Reading
<1> QED
  BY <1>2, <1>4, <1>5, Zenon DEF call

-----------------------------------------------------------------------------
(* Lengths.                                                                *)

LEMMA LowBits ==
  ASSUME NEW n, NEW k \in 1..4, n = 128 + k
  PROVE  n % 128 = k
OBVIOUS

\* A length in the long form is the number that its octets make.
LEMMA LongLength ==
  ASSUME NEW ber, NEW at, NEW end, NEW e, Stands(e, ber, at, end),
         Len(e) \in 2..5, e[1] = 127 + Len(e), e[2] # 0
  PROVE  /\ Len(e) = 2 => ReadLength(ber, at, end) = Definite(e[2], at + 2)
         /\ Len(e) = 3 => ReadLength(ber, at, end) = Definite(e[3] + 256 * e[2], at + 3)
         /\ Len(e) = 4 => ReadLength(ber, at, end)
                            = Definite(e[4] + 256 * (e[3] + 256 * e[2]), at + 4)
         /\ Len(e) = 5 => ReadLength(ber, at, end)
                            = Definite(e[5] + 256 * (e[4] + 256 * (e[3] + 256 * e[2])), at + 5)
<1> /\ ber \in Seq(Octets) /\ e \in Seq(Octets) /\ at \in Nat \ {0} /\ Len(ber) \in Nat
    /\ end \in Nat /\ end <= Len(ber) /\ at + Len(e) - 1 <= end
    /\ \A i \in 1..Len(e) : ber[at + i - 1] = e[i]
  BY DEF Stands
<1>0. PICK k \in 1..4 : Len(e) = k + 1 /\ e[1] = 128 + k /\ at + k <= end
  <2>1. Len(e) - 1 \in 1..4 /\ Len(e) = (Len(e) - 1) + 1 /\ e[1] = 128 + (Len(e) - 1)
        /\ at + (Len(e) - 1) <= end
    OBVIOUS
  <2> QED
    BY <2>1
<1> DEFINE octets == SubSeq(ber, at + 1, at + k)
<1>1. ber[at] = 128 + k /\ ber[at + 1] # 0 /\ at + k <= Len(ber) /\ Len(ber) \in Nat
  <2>1. 1 \in 1..Len(e) /\ 2 \in 1..Len(e)
    BY <1>0
  <2>2. ber[at + 1 - 1] = e[1] /\ ber[at + 2 - 1] = e[2]
    BY <2>1
  <2> QED
    BY <1>0, <2>2
<1>2. /\ ~(at > end) /\ ber[at] # 128 /\ ~(ber[at] < 128) /\ ber[at] % 128 = k
      /\ ~(ber[at] % 128 > 4 \/ at + (ber[at] % 128) > end)
  <2>2. ber[at] % 128 = k
    BY <1>1, LowBits
  <2> QED
    BY <1>0, <1>1, <2>2
<1>3. ReadLength(ber, at, end) = Definite(NumberOf(octets), at + 1 + k)
  <2>1. ReadLength(ber, at, end) =
          IF at > end THEN Wrong
          ELSE IF ber[at] = 128
          THEN [ok |-> TRUE, length |-> 0, indefinite |-> TRUE, next |-> at + 1]
          ELSE IF ber[at] < 128 THEN Definite(ber[at], at + 1)
          ELSE IF ber[at] % 128 > 4 \/ at + (ber[at] % 128) > end THEN Wrong
          ELSE IF ber[at + 1] = 0 THEN Wrong
          ELSE Definite(NumberOf(SubSeq(ber, at + 1, at + (ber[at] % 128))), at + 1 + (ber[at] % 128))
    BY Zenon DEF ReadLength
  <2>2. ReadLength(ber, at, end)
          = Definite(NumberOf(SubSeq(ber, at + 1, at + (ber[at] % 128))), at + 1 + (ber[at] % 128))
    BY <1>1, <1>2, <2>1
  <2> QED
    BY <1>2, <2>2
<1>4. /\ \A i \in at + 1..at + k : ber[i] \in Octets
      /\ at + 1 \in Int /\ at + k \in Int
  BY <1>1
<1>5. Len(octets) = k /\ \A i \in 1..k : octets[i] = ber[at + i]
  <2>1. /\ Len(octets) = IF at + 1 <= at + k THEN (at + k) - (at + 1) + 1 ELSE 0
        /\ \A i \in 1..(at + k) - (at + 1) + 1 : octets[i] = ber[(at + 1) + i - 1]
    BY <1>4, SubSeqProperties
  <2> HIDE DEF octets
  <2>2. Len(octets) = k
    BY <2>1
  <2>3. \A i \in 1..k : octets[i] = ber[at + i]
    <3> SUFFICES ASSUME NEW i \in 1..k PROVE octets[i] = ber[at + i]
      OBVIOUS
    <3>1. i \in 1..(at + k) - (at + 1) + 1 /\ (at + 1) + i - 1 = at + i
      OBVIOUS
    <3> QED
      BY <2>1, <3>1
  <2> QED
    BY <2>2, <2>3
<1>6. \A i \in 1..k : octets[i] = e[i + 1]
  <2> SUFFICES ASSUME NEW i \in 1..k PROVE octets[i] = e[i + 1]
    OBVIOUS
  <2>1. i + 1 \in 1..Len(e) /\ at + (i + 1) - 1 = at + i
    BY <1>0
  <2>2. ber[at + (i + 1) - 1] = e[i + 1]
    BY <2>1
  <2> HIDE DEF octets
  <2> QED
    BY <1>5, <2>1, <2>2
<1> HIDE DEF octets
<1>7. \A i \in 0..3 : i < k => octets[Len(octets) - i] = e[k + 1 - i]
  <2> SUFFICES ASSUME NEW i \in 0..3, i < k PROVE octets[Len(octets) - i] = e[k + 1 - i]
    OBVIOUS
  <2>1. k - i \in 1..k /\ (k - i) + 1 = k + 1 - i
    OBVIOUS
  <2> QED
    BY <1>5, <1>6, <2>1
<1> DEFINE digit(i) == IF i < Len(octets) THEN octets[Len(octets) - i] ELSE 0
<1>8. NumberOf(octets) = digit(0) + 256 * (digit(1) + 256 * (digit(2) + 256 * digit(3)))
  BY DEF NumberOf
<1>9. \A i \in 0..3 : digit(i) = IF i < k THEN e[k + 1 - i] ELSE 0
  BY <1>5, <1>7
<1> HIDE DEF digit
<1>10. \A i \in 1..k : e[i + 1] \in Nat
  <2>1. \A i \in 1..k : i + 1 \in 1..Len(e)
    BY <1>0
  <2>2. \A i \in 1..Len(e) : e[i] \in Octets
    OBVIOUS
  <2>3. \A x \in Octets : x \in Nat
    BY DEF Octets
  <2> QED
    BY <2>1, <2>2, <2>3
<1>11. CASE k = 1
  <2>1. digit(0) = e[2] /\ digit(1) = 0 /\ digit(2) = 0 /\ digit(3) = 0 /\ e[2] \in Nat
    BY <1>9, <1>10, <1>11
  <2>2. NumberOf(octets) = e[2]
    BY <1>8, <2>1
  <2> QED
    BY <1>0, <1>3, <1>11, <2>2
<1>12. CASE k = 2
  <2>1. /\ digit(0) = e[3] /\ digit(1) = e[2] /\ digit(2) = 0 /\ digit(3) = 0
        /\ e[2] \in Nat /\ e[3] \in Nat
    BY <1>9, <1>10, <1>12
  <2>2. NumberOf(octets) = e[3] + 256 * e[2]
    BY <1>8, <2>1
  <2> QED
    BY <1>0, <1>3, <1>12, <2>2
<1>13. CASE k = 3
  <2>1. /\ digit(0) = e[4] /\ digit(1) = e[3] /\ digit(2) = e[2] /\ digit(3) = 0
        /\ e[2] \in Nat /\ e[3] \in Nat /\ e[4] \in Nat
    BY <1>9, <1>10, <1>13
  <2>2. NumberOf(octets) = e[4] + 256 * (e[3] + 256 * e[2])
    <3>1. digit(2) + 256 * digit(3) = e[2]
      BY <2>1
    <3>2. digit(1) + 256 * (digit(2) + 256 * digit(3)) = e[3] + 256 * e[2]
      BY <2>1, <3>1, Zenon
    <3>3. digit(0) + 256 * (digit(1) + 256 * (digit(2) + 256 * digit(3)))
            = e[4] + 256 * (e[3] + 256 * e[2])
      BY <2>1, <3>2, Zenon
    <3> QED
      BY <1>8, <3>3, Zenon
  <2> QED
    BY <1>0, <1>3, <1>13, <2>2
<1>14. CASE k = 4
  <2>1. digit(0) = e[5] /\ digit(1) = e[4] /\ digit(2) = e[3] /\ digit(3) = e[2]
    BY <1>9, <1>14
  <2>2. NumberOf(octets) = e[5] + 256 * (e[4] + 256 * (e[3] + 256 * e[2]))
    BY <1>8, <2>1
  <2> QED
    BY <1>0, <1>3, <1>14, <2>2
<1> QED
  BY <1>0, <1>11, <1>12, <1>13, <1>14

\* The number without its last octet, without the last two, without the last three.
Bytes(n, by1, by2, by3) == by1 = n \div 256 /\ by2 = by1 \div 256 /\ by3 = by2 \div 256

\* The octets of a number make the number.
LEMMA OctetsOf ==
  ASSUME NEW n, Representable(n),
         NEW by1, NEW by2, NEW by3, Bytes(n, by1, by2, by3)
  PROVE  /\ n \in Nat /\ by1 \in Nat /\ by2 \in Nat /\ by3 \in Octets
         /\ n = (n % 256) + 256 * by1 /\ by1 = (by1 % 256) + 256 * by2
         /\ by2 = (by2 % 256) + 256 * by3
         /\ n % 256 \in Octets /\ by1 % 256 \in Octets /\ by2 % 256 \in Octets
         /\ by1 = 0 => n \in Octets /\ by2 = 0
         /\ by2 = 0 => by1 \in Octets /\ by1 % 256 = by1 /\ by3 = 0
         /\ by3 = 0 => by2 \in Octets
BY DEF Bytes, Representable, Octets

LEMMA ShorterFits ==
  ASSUME NEW n, Representable(n), NEW m \in Nat, m <= n
  PROVE  Representable(m)
BY DEF Representable, Octets

\* The forms of a length, and what they hold.
LEMMA LengthForms ==
  ASSUME NEW n, Representable(n), NEW e \in Lengths(n),
         NEW by1, NEW by2, NEW by3, Bytes(n, by1, by2, by3)
  PROVE  \/ n < 128 /\ n \in Octets /\ e = <<n>>
         \/ n # 0 /\ n \in Octets /\ e = <<129, n>>
         \/ by1 # 0 /\ by1 \in Octets /\ by2 = 0 /\ e = <<130, by1, n % 256>>
         \/ by2 # 0 /\ by2 \in Octets /\ by3 = 0 /\ e = <<131, by2, by1 % 256, n % 256>>
         \/ by3 # 0 /\ by3 \in Octets /\ e = <<132, by3, by2 % 256, by1 % 256, n % 256>>
<1>1. /\ n \in Nat /\ by3 \in Octets
      /\ by1 = 0 => n \in Octets
      /\ by2 = 0 => by1 \in Octets
      /\ by3 = 0 => by2 \in Octets
  BY OctetsOf
<1>2. n < 128 => n \in Octets
  BY <1>1 DEF Octets
<1>3. CASE e = EncodeLength(n)
  <2>1. e = IF n < 128 THEN <<n>>
            ELSE IF by1 = 0 THEN <<129, n>>
            ELSE IF by2 = 0 THEN <<130, by1, n % 256>>
            ELSE IF by3 = 0 THEN <<131, by2, by1 % 256, n % 256>>
            ELSE <<132, by3, by2 % 256, by1 % 256, n % 256>>
    BY <1>3 DEF EncodeLength, Bytes
  <2> QED
    BY <1>1, <1>2, <2>1
<1>4. CASE e # EncodeLength(n)
  <2>1. n \in 1..127 /\ e = <<129, n>>
    BY <1>4 DEF Lengths
  <2> QED
    BY <2>1 DEF Octets
<1> QED
  BY <1>3, <1>4

LEMMA LengthType ==
  ASSUME NEW n, Representable(n), NEW e \in Lengths(n)
  PROVE  e \in Seq(Octets) /\ Len(e) \in 1..5
<1>1. PICK by1, by2, by3 : Bytes(n, by1, by2, by3)
  BY DEF Bytes
<1>2. n % 256 \in Octets /\ by1 % 256 \in Octets /\ by2 % 256 \in Octets
  BY <1>1, OctetsOf
<1>3. \/ n \in Octets /\ e = <<n>>
      \/ n \in Octets /\ e = <<129, n>>
      \/ by1 \in Octets /\ e = <<130, by1, n % 256>>
      \/ by2 \in Octets /\ e = <<131, by2, by1 % 256, n % 256>>
      \/ by3 \in Octets /\ e = <<132, by3, by2 % 256, by1 % 256, n % 256>>
  BY <1>1, LengthForms
<1>4. 129 \in Octets /\ 130 \in Octets /\ 131 \in Octets /\ 132 \in Octets
  BY DEF Octets
<1>5. CASE n \in Octets /\ e = <<n>>
  BY <1>5
<1>6. CASE n \in Octets /\ e = <<129, n>>
  BY <1>4, <1>6
<1>7. CASE by1 \in Octets /\ e = <<130, by1, n % 256>>
  BY <1>2, <1>4, <1>7
<1>8. CASE by2 \in Octets /\ e = <<131, by2, by1 % 256, n % 256>>
  BY <1>2, <1>4, <1>8
<1>9. CASE by3 \in Octets /\ e = <<132, by3, by2 % 256, by1 % 256, n % 256>>
  BY <1>2, <1>4, <1>9
<1> QED
  BY <1>3, <1>5, <1>6, <1>7, <1>8, <1>9

\* A length is read from each of its forms.
LEMMA LengthRead ==
  ASSUME NEW ber, NEW at, NEW end, NEW n, Representable(n), NEW e \in Lengths(n),
         Stands(e, ber, at, end)
  PROVE  ReadLength(ber, at, end) = Definite(n, at + Len(e))
<1>1. PICK by1, by2, by3 : Bytes(n, by1, by2, by3)
  BY DEF Bytes
<1>2. /\ n = (n % 256) + 256 * by1 /\ by1 = (by1 % 256) + 256 * by2 /\ by2 = (by2 % 256) + 256 * by3
      /\ n \in Nat /\ by1 \in Nat /\ by2 \in Nat
      /\ by2 = 0 => by1 % 256 = by1
  BY <1>1, OctetsOf
<1>3. \/ n < 128 /\ e = <<n>>
      \/ n # 0 /\ e = <<129, n>>
      \/ by1 # 0 /\ by2 = 0 /\ e = <<130, by1, n % 256>>
      \/ by2 # 0 /\ by3 = 0 /\ e = <<131, by2, by1 % 256, n % 256>>
      \/ by3 # 0 /\ e = <<132, by3, by2 % 256, by1 % 256, n % 256>>
  BY <1>1, LengthForms
<1>4. e \in Seq(Octets)
  BY LengthType
<1>10. ASSUME Len(e) \in 2..5, e[1] = 127 + Len(e), e[2] # 0
       PROVE  /\ Len(e) = 2 => ReadLength(ber, at, end) = Definite(e[2], at + 2)
              /\ Len(e) = 3 => ReadLength(ber, at, end) = Definite(e[3] + 256 * e[2], at + 3)
              /\ Len(e) = 4 => ReadLength(ber, at, end)
                                 = Definite(e[4] + 256 * (e[3] + 256 * e[2]), at + 4)
              /\ Len(e) = 5 => ReadLength(ber, at, end)
                                 = Definite(e[5] + 256 * (e[4] + 256 * (e[3] + 256 * e[2])), at + 5)
  BY <1>10, LongLength
<1>5. CASE n < 128 /\ e = <<n>>
  <2>1. Len(e) = 1 /\ e[1] = n
    BY <1>5
  <2>2. ber[at] = n
    <3>1. 1 \in 1..Len(e) /\ at + 1 - 1 = at
      BY <2>1 DEF Stands
    <3>2. ber[at + 1 - 1] = e[1] /\ at \in Nat
      BY <3>1 DEF Stands
    <3> QED
      BY <2>1, <3>1, <3>2
  <2>3. ~(at > end) /\ at \in Nat
    BY <2>1 DEF Stands
  <2> QED
    BY <1>2, <1>5, <2>1, <2>2, <2>3 DEF ReadLength
<1>6. CASE n # 0 /\ e = <<129, n>>
  <2>1. Len(e) = 2 /\ e[1] = 127 + 2 /\ e[2] = n
    BY <1>6
  <2>0. Len(e) \in 2..5 /\ e[1] = 127 + Len(e) /\ e[2] # 0
    BY <1>6, <2>1
  <2>2. ReadLength(ber, at, end) = Definite(n, at + 2)
    BY <2>1, <2>0, <1>10
  <2> QED
    BY <2>1, <2>2
<1>7. CASE by1 # 0 /\ by2 = 0 /\ e = <<130, by1, n % 256>>
  <2>1. /\ Len(e) = 3 /\ e[1] = 127 + 3 /\ e[2] = by1 /\ e[3] = n % 256
    BY <1>7
  <2>0. Len(e) \in 2..5 /\ e[1] = 127 + Len(e) /\ e[2] # 0
    BY <1>7, <2>1
  <2>2. ReadLength(ber, at, end) = Definite((n % 256) + 256 * by1, at + 3)
    BY <2>1, <2>0, <1>10
  <2> QED
    BY <1>2, <1>7, <2>1, <2>2
<1>8. CASE by2 # 0 /\ by3 = 0 /\ e = <<131, by2, by1 % 256, n % 256>>
  <2>1. /\ Len(e) = 4 /\ e[1] = 127 + 4 /\ e[2] = by2 /\ e[3] = by1 % 256
        /\ e[4] = n % 256
    BY <1>8
  <2>0. Len(e) \in 2..5 /\ e[1] = 127 + Len(e) /\ e[2] # 0
    BY <1>8, <2>1
  <2>2. ReadLength(ber, at, end) = Definite((n % 256) + 256 * ((by1 % 256) + 256 * by2), at + 4)
    BY <2>1, <2>0, <1>10
  <2> QED
    BY <1>2, <1>8, <2>1, <2>2
<1>9. CASE by3 # 0 /\ e = <<132, by3, by2 % 256, by1 % 256, n % 256>>
  <2>1. /\ Len(e) = 5 /\ e[1] = 127 + 5 /\ e[2] = by3
        /\ e[3] = by2 % 256 /\ e[4] = by1 % 256 /\ e[5] = n % 256
    BY <1>9
  <2>0. Len(e) \in 2..5 /\ e[1] = 127 + Len(e) /\ e[2] # 0
    BY <1>9, <2>1
  <2>2. ReadLength(ber, at, end)
          = Definite((n % 256) + 256 * ((by1 % 256) + 256 * ((by2 % 256) + 256 * by3)), at + 5)
    BY <2>1, <2>0, <1>10
  <2>3. (n % 256) + 256 * ((by1 % 256) + 256 * ((by2 % 256) + 256 * by3)) = n
    BY <1>2
  <2> QED
    BY <2>1, <2>2, <2>3
<1> QED
  BY <1>3, <1>5, <1>6, <1>7, <1>8, <1>9

-----------------------------------------------------------------------------
(* Elements, and elements one after the other.                             *)

\* A tag of one octet that does not end a value without a length.
Tag(t) == t \in Octets /\ t # 0 /\ t % 32 # 31

\* An element is read where it stands, and what is in it may nest so deep.
ElementCall(e, k, ber, f, at, end, depth, n) ==
  /\ Nests(ber, f) /\ Stands(e, ber, at, end)
  /\ depth \in Nat /\ depth + k <= MaxBERDepth
  /\ n \in Nat /\ Len(e) + 1 <= n /\ n <= Len(ber) + 1

\* The encoding is read as the other one.
Reads(e, d, k) ==
  \A ber, f, at, end, depth, n :
    ElementCall(e, k, ber, f, at, end, depth, n)
    => f[n][Call("element", at, end, depth)] = [ok |-> TRUE, der |-> d, next |-> at + Len(e)]

Encodes(e, d, k) ==
  e \in Seq(Octets) /\ Len(e) >= 2 /\ e[1] # 0 /\ Reads(e, d, k)

\* And so are the elements of a value, up to what ends them.
Closing(what) == IF what = "open" THEN EndOfContents ELSE <<>>
LoopCall(what, e, k, ber, f, at, end, depth, n) ==
  /\ Nests(ber, f) /\ Stands(e \o Closing(what), ber, at, end)
  /\ what = "body" => end = at + Len(e) - 1
  /\ depth \in Nat /\ (depth + 1) + k <= MaxBERDepth
  /\ n \in Nat /\ Len(e) + 2 <= n /\ n <= Len(ber) + 1
LoopReads(what, e, d, k) ==
  \A ber, f, at, end, depth, n :
    LoopCall(what, e, k, ber, f, at, end, depth, n)
    => f[n][Call(what, at, end, depth)]
         = [ok |-> TRUE, der |-> d, next |-> at + Len(e) + Len(Closing(what))]

LEMMA ClosingType ==
  ASSUME NEW what \in {"body", "open"}
  PROVE  /\ Closing(what) \in Seq(Octets)
         /\ Len(Closing(what)) = IF what = "open" THEN 2 ELSE 0
         /\ what = "open" => Closing(what) = EndOfContents
         /\ what = "body" => Closing(what) = <<>>
<1>1. 0 \in Octets
  BY DEF Octets
<1>2. <<0, 0>> \in Seq(Octets) /\ Len(<<0, 0>>) = 2 /\ <<>> \in Seq(Octets) /\ Len(<<>>) = 0
  BY <1>1
<1> QED
  BY <1>2 DEF Closing, EndOfContents

LEMMA LoopStops ==
  ASSUME NEW what \in {"body", "open"}, NEW k \in Nat
  PROVE  LoopReads(what, <<>>, <<>>, k)
<1> SUFFICES ASSUME NEW ber, NEW f, NEW at, NEW end, NEW depth, NEW n,
                    LoopCall(what, <<>>, k, ber, f, at, end, depth, n)
             PROVE  f[n][Call(what, at, end, depth)]
                      = [ok |-> TRUE, der |-> <<>>, next |-> at + Len(<<>>) + Len(Closing(what))]
  BY DEF LoopReads
<1>1. Closing(what) \in Seq(Octets) /\ Len(<<>>) = 0 /\ <<>> \o Closing(what) = Closing(what)
  BY ClosingType, ConcatEmptySeq
<1>2. /\ Nests(ber, f) /\ Stands(Closing(what), ber, at, end)
      /\ what = "body" => end = at - 1
      /\ depth \in Nat /\ (depth + 1) + k <= MaxBERDepth
      /\ n \in Nat /\ 2 <= n /\ n <= Len(ber) + 1
  <2>1. /\ Nests(ber, f) /\ Stands(Closing(what), ber, at, end)
        /\ what = "body" => end = at + Len(<<>>) - 1
        /\ depth \in Nat /\ (depth + 1) + k <= MaxBERDepth
        /\ n \in Nat /\ Len(<<>>) + 2 <= n /\ n <= Len(ber) + 1
    BY <1>1 DEF LoopCall
  <2>2. at \in Nat
    BY <2>1 DEF Stands
  <2> QED
    BY <1>1, <2>1, <2>2
<1>3. /\ ber \in Seq(Octets) /\ Len(ber) \in Nat /\ at \in Nat \ {0} /\ end \in 0..Len(ber)
      /\ at + Len(Closing(what)) - 1 <= end
  BY <1>2 DEF Stands
<1>4. at \in 1..Len(ber) + 1 /\ n \in 1..Len(ber) + 1 /\ depth \in 0..MaxBERDepth + 1
  <2>1. Len(Closing(what)) \in Nat
    BY <1>1
  <2> QED
    BY <1>2, <1>3, <2>1, DepthAssumption
<1>5. f[n][Call(what, at, end, depth)] = ReadElements(ber, f[n - 1], what, at, end, depth)
  BY <1>2, <1>3, <1>4, Answered
<1>6. CASE what = "body"
  <2>1. at > end /\ Len(Closing(what)) = 0
    BY <1>2, <1>3, <1>6, ClosingType
  <2>2. ReadElements(ber, f[n - 1], what, at, end, depth) = [ok |-> TRUE, der |-> <<>>, next |-> at]
    BY <1>6, <2>1, Zenon DEF ReadElements
  <2>3. at + Len(<<>>) + Len(Closing(what)) = at
    BY <1>1, <1>3, <2>1
  <2> QED
    BY <1>5, <2>2, <2>3
<1>7. CASE what = "open"
  <2>0. Len(Closing(what)) = 2
    BY <1>7, ClosingType
  <2>1. Len(Closing(what)) = 2 /\ at + 1 <= end
    BY <1>3, <2>0
  <2>2. SubSeq(ber, at, at + Len(Closing(what)) - 1) = Closing(what)
    BY <1>2, StandsTaken
  <2>3. AtEndOfContents(ber, at, end)
    <3>1. at + Len(Closing(what)) - 1 = at + 1
      BY <1>3, <2>1
    <3> QED
      BY <1>7, <2>1, <2>2, <3>1, ClosingType DEF AtEndOfContents
  <2>4. ReadElements(ber, f[n - 1], what, at, end, depth)
          = [ok |-> TRUE, der |-> <<>>, next |-> at + 2]
    <3>1. what # "body"
      BY <1>7
    <3> QED
      BY <1>7, <2>3, <3>1, Zenon DEF ReadElements
  <2> QED
    <3>1. at + Len(<<>>) + Len(Closing(what)) = at + 2
      BY <1>1, <1>3, <2>1
    <3> QED
      BY <1>5, <2>4, <3>1
<1> QED
  BY <1>6, <1>7

LEMMA LoopGoesOn ==
  ASSUME NEW what \in {"body", "open"}, NEW k \in Nat, NEW e, NEW d, NEW e2, NEW d2,
         Encodes(e, d, k), e2 \in Seq(Octets), LoopReads(what, e2, d2, k)
  PROVE  LoopReads(what, e \o e2, d \o d2, k)
<1> DEFINE all == e \o e2
<1> SUFFICES ASSUME NEW ber, NEW f, NEW at, NEW end, NEW depth, NEW n,
                    LoopCall(what, all, k, ber, f, at, end, depth, n)
             PROVE  f[n][Call(what, at, end, depth)]
                      = [ok |-> TRUE, der |-> d \o d2, next |-> at + Len(all) + Len(Closing(what))]
  BY DEF LoopReads
<1>1. /\ e \in Seq(Octets) /\ Len(e) \in Nat /\ Len(e) >= 2 /\ e[1] # 0 /\ Len(e2) \in Nat
      /\ Closing(what) \in Seq(Octets) /\ Len(Closing(what)) \in Nat
  BY ClosingType DEF Encodes
<1>2. /\ all \in Seq(Octets) /\ Len(all) = Len(e) + Len(e2)
      /\ e2 \o Closing(what) \in Seq(Octets)
      /\ all \o Closing(what) = e \o (e2 \o Closing(what))
  <2>1. all \in Seq(Octets) /\ Len(all) = Len(e) + Len(e2)
    BY <1>1, ConcatProperties
  <2>2. e2 \o Closing(what) \in Seq(Octets)
    BY <1>1, ConcatProperties
  <2>3. all \o Closing(what) = e \o (e2 \o Closing(what))
    <3>1. e \in Seq(Octets) /\ e2 \in Seq(Octets) /\ Closing(what) \in Seq(Octets)
      BY <1>1
    <3> QED
      BY <3>1, ConcatAssociative
  <2> QED
    BY <2>1, <2>2, <2>3
<1> HIDE DEF all
<1>0. /\ Nests(ber, f) /\ Stands(all \o Closing(what), ber, at, end)
      /\ what = "body" => end = at + Len(all) - 1
      /\ depth \in Nat /\ (depth + 1) + k <= MaxBERDepth
      /\ n \in Nat /\ Len(all) + 2 <= n /\ n <= Len(ber) + 1
  BY DEF LoopCall
<1>3. Stands(e, ber, at, end) /\ Stands(e2 \o Closing(what), ber, at + Len(e), end)
  BY <1>0, <1>1, <1>2, StandsParts
<1>4. /\ ber \in Seq(Octets) /\ Len(ber) \in Nat /\ at \in Nat \ {0} /\ end \in 0..Len(ber)
      /\ at + Len(e) - 1 <= end /\ ber[at] = e[1]
  <2>1. /\ ber \in Seq(Octets) /\ Len(ber) \in Nat /\ at \in Nat \ {0} /\ end \in 0..Len(ber)
        /\ at + Len(e) - 1 <= end /\ \A i \in 1..Len(e) : ber[at + i - 1] = e[i]
    BY <1>3 DEF Stands
  <2>2. 1 \in 1..Len(e) /\ at + 1 - 1 = at
    BY <1>1, <2>1
  <2> QED
    BY <2>1, <2>2
<1>11. /\ n - 1 \in Nat /\ Len(e) + 1 <= n - 1 /\ Len(e2) + 2 <= n - 1
       /\ n - 1 <= Len(ber) + 1 /\ n \in 1..Len(ber) + 1
       /\ what = "body" => end = (at + Len(e)) + Len(e2) - 1
  <2> DEFINE x == Len(e)
             y == Len(e2)
             z == Len(all)
             last == Len(ber)
  <2>1. /\ x \in Nat /\ x >= 2 /\ y \in Nat /\ z = x + y /\ last \in Nat
        /\ n \in Nat /\ z + 2 <= n /\ n <= last + 1 /\ at \in Nat
        /\ what = "body" => end = at + z - 1
    BY <1>0, <1>1, <1>2, <1>4
  <2> HIDE DEF x, y, z, last
  <2>2. /\ n - 1 \in Nat /\ x + 1 <= n - 1 /\ y + 2 <= n - 1
        /\ n - 1 <= last + 1 /\ n \in 1..last + 1
    BY <2>1
  <2>3. at + z - 1 = (at + x) + y - 1
    BY <2>1
  <2> QED
    BY <2>1, <2>2, <2>3 DEF x, y, last
<1>5. at \in 1..Len(ber) + 1 /\ n \in 1..Len(ber) + 1 /\ depth \in 0..MaxBERDepth + 1
  <2>1. at \in 1..Len(ber) + 1
    BY <1>1, <1>4
  <2>2. depth \in 0..MaxBERDepth + 1
    BY <1>0, DepthAssumption
  <2> QED
    BY <1>11, <2>1, <2>2
<1>6. f[n][Call(what, at, end, depth)] = ReadElements(ber, f[n - 1], what, at, end, depth)
  <2>1. what \in {"element", "body", "open"} /\ what # "element"
    OBVIOUS
  <2>2. f[n][Call(what, at, end, depth)]
          = IF what = "element" THEN ReadElement(ber, f[n - 1], at, end, depth)
            ELSE ReadElements(ber, f[n - 1], what, at, end, depth)
    <3>1. Nests(ber, f) /\ ber \in Seq(Octets) /\ end \in 0..Len(ber)
      BY <1>0, <1>4
    <3> QED
      BY <1>5, <2>1, <3>1, Answered
  <2> QED
    BY <2>1, <2>2
<1>7. /\ ~(what = "body" /\ at > end)
      /\ ~(what = "open" /\ AtEndOfContents(ber, at, end))
  <2>1. ~(at > end)
    BY <1>1, <1>4
  <2>2. ASSUME AtEndOfContents(ber, at, end) PROVE FALSE
    <3>1. SubSeq(ber, at, at + 1) = <<0, 0>> /\ at + 1 <= end
      BY <2>2 DEF AtEndOfContents, EndOfContents
    <3>2. SubSeq(ber, at, at + 1)[1] = ber[at]
      <4>1. \A i \in at..at + 1 : ber[i] \in Octets
        BY <1>4, <3>1
      <4>2. at \in Int /\ at + 1 \in Int
        BY <1>4
      <4>3. \A i \in 1..(at + 1) - at + 1 : SubSeq(ber, at, at + 1)[i] = ber[at + i - 1]
        BY <4>1, <4>2, SubSeqProperties
      <4>4. 1 \in 1..(at + 1) - at + 1 /\ at + 1 - 1 = at
        BY <1>4
      <4> QED
        BY <4>3, <4>4
    <3>3. SubSeq(ber, at, at + 1)[1] = 0
      <4>1. <<0, 0>>[1] = 0
        OBVIOUS
      <4> QED
        BY <3>1, <4>1, Zenon
    <3> QED
      BY <1>1, <1>4, <3>2, <3>3
  <2> QED
    BY <2>1, <2>2
<1>8. f[n - 1][Call("element", at, end, depth + 1)]
        = [ok |-> TRUE, der |-> d, next |-> at + Len(e)]
  <2>1. ElementCall(e, k, ber, f, at, end, depth + 1, n - 1)
    <3>1. depth + 1 \in Nat
      BY <1>0
    <3> QED
      BY <1>0, <1>3, <1>11, <3>1 DEF ElementCall
  <2> QED
    BY <2>1 DEF Encodes, Reads
<1>9. f[n - 1][Call(what, at + Len(e), end, depth)]
        = [ok |-> TRUE, der |-> d2, next |-> (at + Len(e)) + Len(e2) + Len(Closing(what))]
  <2>1. LoopCall(what, e2, k, ber, f, at + Len(e), end, depth, n - 1)
    BY <1>0, <1>3, <1>11 DEF LoopCall
  <2> QED
    BY <2>1 DEF LoopReads
<1>10. ReadElements(ber, f[n - 1], what, at, end, depth)
         = [ok |-> TRUE, der |-> d \o d2, next |-> (at + Len(e)) + Len(e2) + Len(Closing(what))]
  <2> DEFINE first == f[n - 1][Call("element", at, end, depth + 1)]
             others == f[n - 1][Call(what, first.next, end, depth)]
  <2>1. first.ok /\ first.der = d /\ first.next = at + Len(e)
    BY <1>8
  <2>2. /\ others.ok /\ others.der = d2
        /\ others.next = (at + Len(e)) + Len(e2) + Len(Closing(what))
    BY <1>9, <2>1
  <2>3. ReadElements(ber, f[n - 1], what, at, end, depth)
          = IF ~first.ok THEN Wrong
            ELSE IF ~others.ok THEN Wrong
            ELSE [ok |-> TRUE, der |-> first.der \o others.der, next |-> others.next]
    BY <1>7, Zenon DEF ReadElements
  <2> HIDE DEF first, others
  <2> QED
    BY <2>1, <2>2, <2>3
<1>12. (at + Len(e)) + Len(e2) + Len(Closing(what)) = at + Len(all) + Len(Closing(what))
  BY <1>1, <1>2, <1>4
<1> QED
  BY <1>6, <1>10, <1>12

LEMMA TagRead ==
  ASSUME NEW ber, NEW at, NEW end, NEW e, Stands(e, ber, at, end),
         NEW t, Tag(t), Len(e) >= 1, e[1] = t
  PROVE  TagEnd(ber, at, end) = at /\ SubSeq(ber, at, at) = <<t>>
<1>1. /\ ber \in Seq(Octets) /\ Len(e) \in Nat /\ at \in Nat \ {0} /\ end \in 0..Len(ber)
      /\ at + Len(e) - 1 <= end /\ \A i \in 1..Len(e) : ber[at + i - 1] = e[i]
  BY DEF Stands
<1>2. ber[at] = t
  <2>1. 1 \in 1..Len(e) /\ at + 1 - 1 = at
    BY <1>1
  <2> QED
    BY <1>1, <2>1
<1>3. ~(at > end) /\ t % 32 # 31 /\ t \in Octets
  BY <1>1 DEF Tag
<1>4. TagEnd(ber, at, end) = at
  <2>1. TagEnd(ber, at, end) = IF at > end THEN 0 ELSE IF ber[at] % 32 # 31 THEN at ELSE TagEnd(ber, at, end)
    BY <1>2, <1>3 DEF TagEnd
  <2> QED
    BY <1>2, <1>3, <2>1
<1>5. SubSeq(ber, at, at) = <<t>>
  <2>1. at \in Int /\ \A i \in at..at : ber[i] \in Octets
    BY <1>1, <1>2, <1>3
  <2>2. /\ SubSeq(ber, at, at) \in Seq(Octets)
        /\ Len(SubSeq(ber, at, at)) = IF at <= at THEN at - at + 1 ELSE 0
        /\ \A i \in 1..at - at + 1 : SubSeq(ber, at, at)[i] = ber[at + i - 1]
    BY <2>1, SubSeqProperties
  <2>3. Len(SubSeq(ber, at, at)) = 1
    BY <1>1, <2>2
  <2>4. 1 \in 1..at - at + 1 /\ at + 1 - 1 = at
    BY <1>1
  <2>5. SubSeq(ber, at, at)[1] = t
    BY <1>2, <2>2, <2>4
  <2>6. <<t>> \in Seq(Octets) /\ Len(<<t>>) = 1 /\ <<t>>[1] = t
    BY <1>3
  <2>7. \A i \in 1..Len(SubSeq(ber, at, at)) : SubSeq(ber, at, at)[i] = <<t>>[i]
    <3>1. \A i \in 1..Len(SubSeq(ber, at, at)) : i = 1
      BY <2>3
    <3> QED
      BY <2>5, <2>6, <3>1
  <2> QED
    BY <2>2, <2>3, <2>6, <2>7, SeqEqual
<1> QED
  BY <1>4, <1>5

\* An element is its tag, its length and its value.
LEMMA ElementType ==
  ASSUME NEW t, Tag(t), NEW c \in Seq(Octets), NEW length \in Seq(Octets)
  PROVE  LET header == <<t>> \o length
             e == header \o c
         IN /\ header \in Seq(Octets) /\ Len(header) = 1 + Len(length) /\ header[1] = t
            /\ e \in Seq(Octets) /\ Len(e) = 1 + Len(length) + Len(c) /\ e[1] = t
<1> DEFINE tag == <<t>>
           header == tag \o length
           e == header \o c
<1>1. Len(length) \in Nat /\ Len(c) \in Nat
  OBVIOUS
<1>2. tag \in Seq(Octets) /\ Len(tag) = 1 /\ tag[1] = t
  BY DEF Tag
<1> HIDE DEF tag
<1>3. header \in Seq(Octets) /\ Len(header) = 1 + Len(length) /\ header[1] = t
  <2>1. header \in Seq(Octets) /\ Len(header) = Len(tag) + Len(length)
    BY <1>1, <1>2, ConcatProperties
  <2>2. \A i \in 1..Len(tag) + Len(length) :
          header[i] = IF i <= Len(tag) THEN tag[i] ELSE length[i - Len(tag)]
    BY <1>1, <1>2, ConcatProperties
  <2>3. 1 \in 1..Len(tag) + Len(length)
    BY <1>1, <1>2
  <2>4. header[1] = t
    BY <1>2, <2>2, <2>3
  <2> QED
    BY <1>2, <2>1, <2>4
<1>4. e \in Seq(Octets) /\ Len(e) = 1 + Len(length) + Len(c) /\ e[1] = t
  <2>1. e \in Seq(Octets) /\ Len(e) = Len(header) + Len(c)
    BY <1>3, ConcatProperties
  <2>2. \A i \in 1..Len(header) + Len(c) :
          e[i] = IF i <= Len(header) THEN header[i] ELSE c[i - Len(header)]
    BY <1>3, ConcatProperties
  <2>3. 1 \in 1..Len(header) + Len(c) /\ 1 <= Len(header)
    BY <1>1, <1>3
  <2>4. e[1] = header[1]
    BY <2>2, <2>3
  <2> QED
    BY <1>3, <2>1, <2>4
<1> QED
  BY <1>3, <1>4 DEF tag

\* The length is read behind the tag, and the value stands behind the length.
LEMMA HeaderRead ==
  ASSUME NEW ber, NEW at, NEW end, NEW t, Tag(t), NEW c \in Seq(Octets), Representable(Len(c)),
         NEW length \in Lengths(Len(c)), Stands((<<t>> \o length) \o c, ber, at, end)
  PROVE  LET next == at + 1 + Len(length)
             e == (<<t>> \o length) \o c
         IN /\ TagEnd(ber, at, end) = at /\ SubSeq(ber, at, at) = <<t>>
            /\ ReadLength(ber, at + 1, end) = Definite(Len(c), next)
            /\ Stands(c, ber, next, end) /\ next + Len(c) - 1 <= end
            /\ next + Len(c) = at + Len(e) /\ next \in Nat
<1> DEFINE tag == <<t>>
           header == tag \o length
           e == header \o c
           next == at + 1 + Len(length)
<1>1. length \in Seq(Octets) /\ Len(length) \in 1..5 /\ Len(c) \in Nat
  BY LengthType
<1>2. tag \in Seq(Octets) /\ Len(tag) = 1 /\ tag[1] = t
  BY DEF Tag
<1>3. /\ header \in Seq(Octets) /\ Len(header) = 1 + Len(length) /\ header[1] = t
      /\ e \in Seq(Octets) /\ Len(e) = 1 + Len(length) + Len(c)
  BY <1>1, ElementType
<1>4. Stands(e, ber, at, end)
  OBVIOUS
<1> HIDE DEF tag
<1>6. Stands(header, ber, at, end) /\ Stands(c, ber, at + Len(header), end)
  BY <1>3, <1>4, StandsParts
<1>7. Stands(tag, ber, at, end) /\ Stands(length, ber, at + 1, end)
  <2>1. Stands(tag, ber, at, end) /\ Stands(length, ber, at + Len(tag), end)
    BY <1>1, <1>2, <1>6, StandsParts
  <2> QED
    BY <1>2, <2>1
<1>8. at \in Nat /\ end \in Nat /\ at + Len(e) - 1 <= end
  <2> HIDE DEF e
  <2> QED
    BY <1>4 DEF Stands
<1>9. TagEnd(ber, at, end) = at /\ SubSeq(ber, at, at) = <<t>>
  BY <1>2, <1>7, TagRead
<1>10. ReadLength(ber, at + 1, end) = Definite(Len(c), next)
  BY <1>7, LengthRead
<1>11. at + Len(header) = next
  BY <1>1, <1>3, <1>8
<1>12. Stands(c, ber, next, end)
  BY <1>6, <1>11
<1>13. next + Len(c) - 1 <= end /\ next + Len(c) = at + Len(e) /\ next \in Nat
  <2> HIDE DEF e
  <2> QED
    BY <1>1, <1>3, <1>8
<1> QED
  BY <1>9, <1>10, <1>12, <1>13 DEF tag

\* A call for an element that stands there is answered.
LEMMA ElementAnswered ==
  ASSUME NEW e, NEW k \in Nat, NEW ber, NEW f, NEW at, NEW end, NEW depth, NEW n,
         ElementCall(e, k, ber, f, at, end, depth, n)
  PROVE  /\ f[n][Call("element", at, end, depth)] = ReadElement(ber, f[n - 1], at, end, depth)
         /\ ~(depth > MaxBERDepth)
<1>1. /\ Nests(ber, f) /\ ber \in Seq(Octets) /\ at \in Nat \ {0} /\ end \in 0..Len(ber)
      /\ Len(e) \in Nat /\ Len(ber) \in Nat /\ at + Len(e) - 1 <= end
      /\ depth \in Nat /\ depth + k <= MaxBERDepth
      /\ n \in Nat /\ Len(e) + 1 <= n /\ n <= Len(ber) + 1
  BY DEF ElementCall, Stands
<1>2. at \in 1..Len(ber) + 1 /\ n \in 1..Len(ber) + 1 /\ depth \in 0..MaxBERDepth + 1
  BY <1>1, DepthAssumption
<1>3. ~(depth > MaxBERDepth)
  BY <1>1, DepthAssumption
<1> QED
  BY <1>1, <1>2, <1>3, Answered

\* Where the tag and the length of an element end.
Starts(ber, at, end, t, length) ==
  /\ at # 0 /\ TagEnd(ber, at, end) = at /\ SubSeq(ber, at, at) = <<t>>
  /\ ReadLength(ber, at + 1, end) = length

LEMMA ElementOf ==
  ASSUME NEW ber, NEW at, NEW end, NEW depth, NEW before, NEW t, NEW length,
         Starts(ber, at, end, t, length), ~(depth > MaxBERDepth), length.ok
  PROVE  LET last == length.next + length.length - 1
             inner == IF length.indefinite THEN before[Call("open", length.next, end, depth)]
                      ELSE before[Call("body", length.next, last, depth)]
         IN ReadElement(ber, before, at, end, depth)
              = IF last > end THEN Wrong
                ELSE IF ~Constructed(t)
                THEN IF length.indefinite THEN Wrong
                     ELSE Rewritten(<<t>>, SubSeq(ber, length.next, last), last + 1)
                ELSE IF ~inner.ok THEN Wrong
                ELSE Rewritten(<<t>>, inner.der,
                               IF length.indefinite THEN inner.next ELSE last + 1)
<1>1. <<t>>[1] = t
  OBVIOUS
<1>2. /\ ~(depth > MaxBERDepth \/ TagEnd(ber, at, end) = 0)
      /\ TagEnd(ber, at, end) = at /\ SubSeq(ber, at, at) = <<t>>
      /\ ReadLength(ber, at + 1, end) = length
  BY DEF Starts
<1> QED
  BY <1>1, <1>2, Zenon DEF ReadElement

LEMMA DefiniteElement ==
  ASSUME NEW ber, NEW at, NEW end \in Nat, NEW depth, NEW before, NEW t,
         NEW m \in Nat, NEW next \in Nat, Starts(ber, at, end, t, Definite(m, next)),
         ~(depth > MaxBERDepth), next + m - 1 <= end
  PROVE  /\ ~Constructed(t) => ReadElement(ber, before, at, end, depth)
                                  = Rewritten(<<t>>, SubSeq(ber, next, next + m - 1), next + m)
         /\ Constructed(t) /\ before[Call("body", next, next + m - 1, depth)].ok
              => ReadElement(ber, before, at, end, depth)
                   = Rewritten(<<t>>, before[Call("body", next, next + m - 1, depth)].der, next + m)
<1> DEFINE last == next + m - 1
           inner == before[Call("body", next, last, depth)]
           length == Definite(m, next)
<1>1. length.ok /\ ~length.indefinite /\ length.next = next /\ length.length = m
  BY DEF Definite
<1>2. Starts(ber, at, end, t, length)
  OBVIOUS
<1> HIDE DEF length
<1>3. ReadElement(ber, before, at, end, depth)
        = IF last > end THEN Wrong
          ELSE IF ~Constructed(t) THEN Rewritten(<<t>>, SubSeq(ber, next, last), last + 1)
          ELSE IF ~inner.ok THEN Wrong
          ELSE Rewritten(<<t>>, inner.der, last + 1)
  BY <1>1, <1>2, ElementOf
<1>4. ~(last > end) /\ last + 1 = next + m
  OBVIOUS
<1> HIDE DEF last, inner
<1>5. /\ ~Constructed(t) => ReadElement(ber, before, at, end, depth)
                               = Rewritten(<<t>>, SubSeq(ber, next, last), next + m)
      /\ Constructed(t) /\ inner.ok => ReadElement(ber, before, at, end, depth)
                                         = Rewritten(<<t>>, inner.der, next + m)
  BY <1>3, <1>4
<1> QED
  BY <1>5 DEF last, inner

LEMMA PrimitiveRead ==
  ASSUME NEW t, Tag(t), ~Constructed(t), NEW c \in Seq(Octets), Representable(Len(c)),
         NEW length \in Lengths(Len(c))
  PROVE  Encodes((<<t>> \o length) \o c, Primitive(t, c), 0)
<1> DEFINE e == (<<t>> \o length) \o c
<1>1. /\ length \in Seq(Octets) /\ Len(length) \in 1..5 /\ Len(c) \in Nat
      /\ e \in Seq(Octets) /\ Len(e) = 1 + Len(length) + Len(c) /\ e[1] = t
  BY LengthType, ElementType
<1>2. ASSUME NEW ber, NEW f, NEW at, NEW end, NEW depth, NEW n,
             ElementCall(e, 0, ber, f, at, end, depth, n)
      PROVE  f[n][Call("element", at, end, depth)]
               = [ok |-> TRUE, der |-> Primitive(t, c), next |-> at + Len(e)]
  <2> DEFINE next == at + 1 + Len(length)
             last == next + Len(c) - 1
  <2>1. /\ f[n][Call("element", at, end, depth)] = ReadElement(ber, f[n - 1], at, end, depth)
        /\ ~(depth > MaxBERDepth)
    BY <1>2, ElementAnswered
  <2>2. /\ TagEnd(ber, at, end) = at /\ SubSeq(ber, at, at) = <<t>>
        /\ ReadLength(ber, at + 1, end) = Definite(Len(c), next)
        /\ Stands(c, ber, next, end) /\ last <= end
        /\ next + Len(c) = at + Len(e) /\ next \in Nat
    BY <1>2, HeaderRead DEF ElementCall
  <2>3. SubSeq(ber, next, last) = c
    BY <2>2, StandsTaken
  <2>4. at \in Nat \ {0} /\ end \in Nat
    BY <1>2 DEF ElementCall, Stands
  <2> HIDE DEF e, next
  <2>5. ReadElement(ber, f[n - 1], at, end, depth) = Rewritten(<<t>>, SubSeq(ber, next, last), next + Len(c))
    <3>1. Starts(ber, at, end, t, Definite(Len(c), next))
      BY <2>2, <2>4 DEF Starts
    <3> QED
      BY <1>1, <2>1, <2>2, <2>4, <3>1, DefiniteElement
  <2> QED
    BY <2>1, <2>2, <2>3, <2>5 DEF Rewritten, Primitive
<1> HIDE DEF e
<1>3. e[1] # 0 /\ Len(e) >= 2
  BY <1>1 DEF Tag
<1>4. Encodes(e, Primitive(t, c), 0)
  BY <1>1, <1>2, <1>3 DEF Encodes, Reads
<1> QED
  BY <1>4 DEF e

LEMMA CompositeRead ==
  ASSUME NEW t, Tag(t), Constructed(t), NEW c \in Seq(Octets), Representable(Len(c)),
         NEW length \in Lengths(Len(c)), NEW d, NEW k \in Nat, LoopReads("body", c, d, k)
  PROVE  Encodes((<<t>> \o length) \o c, Encoded(<<t>>, d), k + 1)
<1> DEFINE e == (<<t>> \o length) \o c
<1>1. /\ length \in Seq(Octets) /\ Len(length) \in 1..5 /\ Len(c) \in Nat
      /\ e \in Seq(Octets) /\ Len(e) = 1 + Len(length) + Len(c) /\ e[1] = t
  BY LengthType, ElementType
<1>0. Len(e) >= Len(c) + 2
  <2> DEFINE whole == Len(e)
             part == Len(c)
             some == Len(length)
  <2>1. whole = 1 + some + part /\ some \in 1..5 /\ part \in Nat
    BY <1>1
  <2> HIDE DEF whole, part, some
  <2>2. whole >= part + 2
    BY <2>1
  <2> QED
    BY <2>2 DEF whole, part
<1>2. ASSUME NEW ber, NEW f, NEW at, NEW end, NEW depth, NEW n,
             ElementCall(e, k + 1, ber, f, at, end, depth, n)
      PROVE  f[n][Call("element", at, end, depth)]
               = [ok |-> TRUE, der |-> Encoded(<<t>>, d), next |-> at + Len(e)]
  <2> DEFINE next == at + 1 + Len(length)
             last == next + Len(c) - 1
  <2>1. /\ f[n][Call("element", at, end, depth)] = ReadElement(ber, f[n - 1], at, end, depth)
        /\ ~(depth > MaxBERDepth)
    BY <1>2, ElementAnswered
  <2>2. /\ TagEnd(ber, at, end) = at /\ SubSeq(ber, at, at) = <<t>>
        /\ ReadLength(ber, at + 1, end) = Definite(Len(c), next)
        /\ Stands(c, ber, next, end) /\ last <= end
        /\ next + Len(c) = at + Len(e) /\ next \in Nat
    BY <1>2, HeaderRead DEF ElementCall
  <2>3. /\ at \in Nat \ {0} /\ end \in Nat /\ Nests(ber, f) /\ depth \in Nat
        /\ depth + (k + 1) <= MaxBERDepth
        /\ n \in Nat /\ Len(e) + 1 <= n /\ n <= Len(ber) + 1 /\ Len(ber) \in Nat
    BY <1>2 DEF ElementCall, Stands
  <2> HIDE DEF e, next
  <2>4. f[n - 1][Call("body", next, last, depth)]
          = [ok |-> TRUE, der |-> d, next |-> next + Len(c) + Len(Closing("body"))]
    <3>1. LoopCall("body", c, k, ber, f, next, last, depth, n - 1)
      <4>1. c \o Closing("body") = c
        BY ClosingType, ConcatEmptySeq
      <4>2. last \in Nat
        <5>1. next # 0
          BY <2>2 DEF Stands
        <5> QED
          BY <1>1, <2>2, <5>1
      <4>3. Stands(c, ber, next, last)
        BY <2>2, <4>2, StandsWithin
      <4>4. /\ (depth + 1) + k <= MaxBERDepth
            /\ n - 1 \in Nat /\ Len(c) + 2 <= n - 1 /\ n - 1 <= Len(ber) + 1
        <5>1. (depth + 1) + k <= MaxBERDepth
          BY <2>3, DepthAssumption
        <5> DEFINE whole == Len(e)
                   part == Len(c)
                   all == Len(ber)
        <5>3. part \in Nat /\ whole \in Nat /\ whole >= part + 2 /\ all \in Nat
              /\ n \in Nat /\ whole + 1 <= n /\ n <= all + 1
          BY <1>0, <1>1, <2>3
        <5> HIDE DEF whole, part, all
        <5>4. n - 1 \in Nat /\ part + 2 <= n - 1 /\ n - 1 <= all + 1
          BY <5>3
        <5> QED
          BY <5>1, <5>4 DEF part, all
      <4> QED
        BY <2>3, <4>1, <4>3, <4>4 DEF LoopCall
    <3> QED
      BY <3>1 DEF LoopReads
  <2>5. f[n - 1][Call("body", next, last, depth)].ok /\ f[n - 1][Call("body", next, last, depth)].der = d
    BY <2>4
  <2>6. ReadElement(ber, f[n - 1], at, end, depth) = Rewritten(<<t>>, d, next + Len(c))
    <3>1. Starts(ber, at, end, t, Definite(Len(c), next))
      BY <2>2, <2>3 DEF Starts
    <3> DEFINE before == f[n - 1]
    <3>2. before[Call("body", next, next + Len(c) - 1, depth)].ok
          /\ before[Call("body", next, next + Len(c) - 1, depth)].der = d
      BY <2>5
    <3> HIDE DEF before
    <3>3. Constructed(t) /\ before[Call("body", next, next + Len(c) - 1, depth)].ok
            => ReadElement(ber, before, at, end, depth)
                 = Rewritten(<<t>>, before[Call("body", next, next + Len(c) - 1, depth)].der, next + Len(c))
      <4> DEFINE m == Len(c)
      <4>1. /\ m \in Nat /\ next \in Nat /\ end \in Nat /\ next + m - 1 <= end
            /\ ~(depth > MaxBERDepth) /\ Starts(ber, at, end, t, Definite(m, next))
        BY <1>1, <2>1, <2>2, <2>3, <3>1
      <4> HIDE DEF m
      <4>2. Constructed(t) /\ before[Call("body", next, next + m - 1, depth)].ok
              => ReadElement(ber, before, at, end, depth)
                   = Rewritten(<<t>>, before[Call("body", next, next + m - 1, depth)].der, next + m)
        BY <4>1, DefiniteElement
      <4> QED
        BY <4>2 DEF m
    <3>4. ReadElement(ber, before, at, end, depth) = Rewritten(<<t>>, d, next + Len(c))
      BY <3>2, <3>3
    <3> QED
      BY <3>4 DEF before
  <2> QED
    BY <2>1, <2>2, <2>6 DEF Rewritten
<1> HIDE DEF e
<1>3. e[1] # 0 /\ Len(e) >= 2
  BY <1>1 DEF Tag
<1>4. Encodes(e, Encoded(<<t>>, d), k + 1)
  BY <1>1, <1>2, <1>3 DEF Encodes, Reads
<1> QED
  BY <1>4 DEF e

LEMMA OpenLength ==
  ASSUME NEW t, Tag(t), NEW c \in Seq(Octets)
  PROVE  Len((<<t, 128>> \o c) \o EndOfContents) = Len(c) + 4
<1> DEFINE header == <<t, 128>>
           open == header \o c
<1>1. 128 \in Octets /\ t \in Octets
  BY DEF Tag, Octets
<1>2. header \in Seq(Octets) /\ Len(header) = 2
  BY <1>1
<1>3. EndOfContents \in Seq(Octets) /\ Len(EndOfContents) = 2
  BY ClosingType
<1> HIDE DEF header
<1>4. open \in Seq(Octets) /\ Len(open) = Len(header) + Len(c)
  BY <1>2, ConcatProperties
<1> HIDE DEF open
<1>5. Len(open \o EndOfContents) = Len(open) + Len(EndOfContents)
  BY <1>3, <1>4, ConcatProperties
<1>6. Len(c) \in Nat
  OBVIOUS
<1>7. Len(open \o EndOfContents) = Len(c) + 4
  BY <1>2, <1>3, <1>4, <1>5, <1>6
<1> QED
  BY <1>7 DEF open, header

\* An element without a length is its tag, a mark, its value and an end.
LEMMA OpenRead ==
  ASSUME NEW t, Tag(t), Constructed(t), NEW c \in Seq(Octets),
         NEW d, NEW k \in Nat, LoopReads("open", c, d, k)
  PROVE  Encodes((<<t, 128>> \o c) \o EndOfContents, Encoded(<<t>>, d), k + 1)
<1> DEFINE header == <<t, 128>>
           value == c \o EndOfContents
           e == (header \o c) \o EndOfContents
<1>1. /\ header \in Seq(Octets) /\ Len(header) = 2 /\ header[1] = t /\ header[2] = 128
      /\ Len(c) \in Nat
      /\ EndOfContents \in Seq(Octets) /\ Len(EndOfContents) = 2
  <2>1. 128 \in Octets /\ t \in Octets
    BY DEF Tag, Octets
  <2>2. header \in Seq(Octets) /\ Len(header) = 2 /\ header[1] = t /\ header[2] = 128
    BY <2>1
  <2>3. EndOfContents \in Seq(Octets) /\ Len(EndOfContents) = 2
    BY ClosingType
  <2> QED
    BY <2>2, <2>3
<1> HIDE DEF header
<1>2. /\ value \in Seq(Octets) /\ Len(value) = Len(c) + 2
      /\ e = header \o value /\ e \in Seq(Octets) /\ Len(e) = Len(c) + 4 /\ e[1] = t
  <2> HIDE DEF EndOfContents
  <2>0. EndOfContents \in Seq(Octets) /\ Len(EndOfContents) = 2
    BY <1>1
  <2>1. value \in Seq(Octets) /\ Len(value) = Len(c) + 2
    <3>1. c \o EndOfContents \in Seq(Octets) /\ Len(c \o EndOfContents) = Len(c) + Len(EndOfContents)
      BY <2>0, ConcatProperties
    <3> QED
      BY <2>0, <3>1
  <2>2. e = header \o value
    BY <1>1, ConcatAssociative
  <2> HIDE DEF value, e
  <2>3. /\ header \o value \in Seq(Octets) /\ Len(header \o value) = Len(header) + Len(value)
        /\ \A i \in 1..Len(header) + Len(value) :
             (header \o value)[i] = IF i <= Len(header) THEN header[i] ELSE value[i - Len(header)]
    <3>1. header \in Seq(Octets) /\ value \in Seq(Octets)
      BY <1>1, <2>1
    <3> QED
      BY <3>1, ConcatProperties, Zenon
  <2>4. Len(header) + Len(value) = Len(c) + 4 /\ 1 \in 1..Len(header) + Len(value) /\ 1 <= Len(header)
    BY <1>1, <2>1
  <2> QED
    BY <1>1, <2>1, <2>2, <2>3, <2>4
<1>3. value = c \o Closing("open")
  BY ClosingType
<1> HIDE DEF value, e
<1>4. ASSUME NEW ber, NEW f, NEW at, NEW end, NEW depth, NEW n,
             ElementCall(e, k + 1, ber, f, at, end, depth, n)
      PROVE  f[n][Call("element", at, end, depth)]
               = [ok |-> TRUE, der |-> Encoded(<<t>>, d), next |-> at + Len(e)]
  <2>1. /\ f[n][Call("element", at, end, depth)] = ReadElement(ber, f[n - 1], at, end, depth)
        /\ ~(depth > MaxBERDepth)
    BY <1>4, ElementAnswered
  <2>2. /\ Stands(e, ber, at, end) /\ Nests(ber, f) /\ depth \in Nat
        /\ depth + (k + 1) <= MaxBERDepth
        /\ n \in Nat /\ Len(e) + 1 <= n /\ n <= Len(ber) + 1
    BY <1>4 DEF ElementCall
  <2>3. Stands(header, ber, at, end) /\ Stands(value, ber, at + 2, end)
    <3>1. Stands(header, ber, at, end) /\ Stands(value, ber, at + Len(header), end)
      BY <1>1, <1>2, <2>2, StandsParts
    <3> QED
      BY <1>1, <3>1
  <2>4. /\ at \in Nat \ {0} /\ end \in Nat /\ at + 1 <= end /\ ber[at + 1] = 128
        /\ Len(ber) \in Nat
    <3>1. /\ at \in Nat \ {0} /\ end \in Nat /\ at + Len(header) - 1 <= end /\ Len(ber) \in Nat
          /\ \A i \in 1..Len(header) : ber[at + i - 1] = header[i]
      BY <2>3 DEF Stands
    <3>2. 2 \in 1..Len(header) /\ at + 2 - 1 = at + 1
      BY <1>1, <3>1
    <3>3. ber[at + 1] = 128
      BY <1>1, <3>1, <3>2
    <3> QED
      BY <1>1, <3>1, <3>3
  <2> DEFINE length == [ok |-> TRUE, length |-> 0, indefinite |-> TRUE, next |-> (at + 1) + 1]
             inner == f[n - 1][Call("open", length.next, end, depth)]
             last == length.next + length.length - 1
  <2>5. Starts(ber, at, end, t, length)
    <3>1. TagEnd(ber, at, end) = at /\ SubSeq(ber, at, at) = <<t>>
      BY <1>1, <2>3, TagRead
    <3>2. ~(at + 1 > end)
      BY <2>4
    <3>3. ReadLength(ber, at + 1, end) = length
      BY <2>4, <3>2, Zenon DEF ReadLength
    <3> QED
      BY <2>4, <3>1, <3>3 DEF Starts
  <2>6. length.ok /\ length.indefinite /\ length.next = at + 2 /\ length.length = 0
    BY <2>4
  <2>7. ~(last > end)
    BY <2>4, <2>6
  <2> HIDE DEF length
  <2>8. inner = [ok |-> TRUE, der |-> d, next |-> (at + 2) + Len(c) + Len(Closing("open"))]
    <3>1. LoopCall("open", c, k, ber, f, at + 2, end, depth, n - 1)
      <4>1. /\ (depth + 1) + k <= MaxBERDepth
            /\ n - 1 \in Nat /\ Len(c) + 2 <= n - 1 /\ n - 1 <= Len(ber) + 1
        BY <1>1, <1>2, <2>2, <2>4, DepthAssumption
      <4> QED
        BY <1>3, <2>2, <2>3, <4>1 DEF LoopCall
    <3>2. f[n - 1][Call("open", at + 2, end, depth)]
            = [ok |-> TRUE, der |-> d, next |-> (at + 2) + Len(c) + Len(Closing("open"))]
      BY <3>1 DEF LoopReads
    <3> QED
      BY <2>6, <3>2
  <2>9. inner.ok /\ inner.der = d /\ inner.next = at + Len(e)
    <3>1. (at + 2) + Len(c) + Len(Closing("open")) = at + Len(e)
      <4> DEFINE part == Len(c)
                 whole == Len(e)
                 close == Len(Closing("open"))
      <4>1. close = 2 /\ part \in Nat /\ whole = part + 4 /\ at \in Nat
        BY <1>1, <1>2, <2>4, ClosingType
      <4> HIDE DEF part, whole, close
      <4>2. (at + 2) + part + close = at + whole
        BY <4>1
      <4> QED
        BY <4>2 DEF part, whole, close
    <3> QED
      BY <2>8, <3>1
  <2>10. ReadElement(ber, f[n - 1], at, end, depth)
           = IF last > end THEN Wrong
             ELSE IF ~Constructed(t) THEN Wrong
             ELSE IF ~inner.ok THEN Wrong
             ELSE Rewritten(<<t>>, inner.der, inner.next)
    <3> DEFINE before == f[n - 1]
    <3> HIDE DEF before
    <3>1. ReadElement(ber, before, at, end, depth)
            = IF last > end THEN Wrong
              ELSE IF ~Constructed(t) THEN Wrong
              ELSE IF ~before[Call("open", length.next, end, depth)].ok THEN Wrong
              ELSE Rewritten(<<t>>, before[Call("open", length.next, end, depth)].der,
                             before[Call("open", length.next, end, depth)].next)
      BY <2>1, <2>5, <2>6, ElementOf
    <3> QED
      BY <3>1, Zenon DEF before
  <2> HIDE DEF inner, last
  <2>11. ReadElement(ber, f[n - 1], at, end, depth) = Rewritten(<<t>>, inner.der, inner.next)
    BY <2>6, <2>7, <2>9, <2>10, Zenon
  <2> QED
    BY <2>1, <2>9, <2>11 DEF Rewritten
<1>5. e[1] # 0 /\ Len(e) >= 2
  BY <1>1, <1>2 DEF Tag
<1>6. Encodes(e, Encoded(<<t>>, d), k + 1)
  BY <1>2, <1>4, <1>5 DEF Encodes, Reads
<1> QED
  BY <1>6 DEF e, header

-----------------------------------------------------------------------------
(* All the encodings of a value are read as its distinguished one.         *)

\* They nest so deep, and have at most so many octets.
AllEncode(encodings, d, k, m) == \A e \in encodings : Encodes(e, d, k) /\ Len(e) <= m

LEMMA DeeperCall ==
  ASSUME NEW e, NEW k \in Nat, NEW more \in Nat, k <= more,
         NEW ber, NEW f, NEW at, NEW end, NEW depth, NEW n,
         ElementCall(e, more, ber, f, at, end, depth, n)
  PROVE  ElementCall(e, k, ber, f, at, end, depth, n)
<1>1. depth \in Nat /\ depth + more <= MaxBERDepth
  BY DEF ElementCall
<1>2. depth + k <= MaxBERDepth
  BY <1>1, DepthAssumption
<1> QED
  BY <1>2 DEF ElementCall

LEMMA Deeper ==
  ASSUME NEW encodings, NEW d, NEW k \in Nat, NEW m, AllEncode(encodings, d, k, m),
         NEW more \in Nat, k <= more
  PROVE  AllEncode(encodings, d, more, m)
<1> SUFFICES ASSUME NEW e \in encodings PROVE Encodes(e, d, more) /\ Len(e) <= m
  BY DEF AllEncode
<1>1. Encodes(e, d, k) /\ Len(e) <= m
  BY DEF AllEncode
<1>2. Reads(e, d, more)
  <2> SUFFICES ASSUME NEW ber, NEW f, NEW at, NEW end, NEW depth, NEW n,
                      ElementCall(e, more, ber, f, at, end, depth, n)
               PROVE  f[n][Call("element", at, end, depth)]
                        = [ok |-> TRUE, der |-> d, next |-> at + Len(e)]
    BY DEF Reads
  <2>1. ElementCall(e, k, ber, f, at, end, depth, n)
    BY DeeperCall
  <2> QED
    BY <1>1, <2>1 DEF Encodes, Reads
<1> QED
  BY <1>1, <1>2 DEF Encodes

LEMMA ElementLength ==
  ASSUME NEW t, Tag(t), NEW c \in Seq(Octets), Representable(Len(c)), NEW length \in Lengths(Len(c))
  PROVE  Len((<<t>> \o length) \o c) <= Len(c) + 6
<1> DEFINE e == (<<t>> \o length) \o c
           part == Len(c)
           some == Len(length)
           whole == Len(e)
<1>1. whole = 1 + some + part /\ some \in 1..5 /\ part \in Nat
  BY LengthType, ElementType
<1> HIDE DEF whole, part, some
<1>2. whole <= part + 6
  BY <1>1
<1> QED
  BY <1>2 DEF whole, part

LEMMA PrimitiveEncoded ==
  ASSUME NEW t, Tag(t), ~Constructed(t), NEW c \in Seq(Octets), Representable(Len(c))
  PROVE  AllEncode(AllPrimitive(t, c), Primitive(t, c), 0, Len(c) + 6)
<1> SUFFICES ASSUME NEW e \in AllPrimitive(t, c)
             PROVE  Encodes(e, Primitive(t, c), 0) /\ Len(e) <= Len(c) + 6
  BY DEF AllEncode
<1>1. PICK length \in Lengths(Len(c)) : e = (<<t>> \o length) \o c
  BY DEF AllPrimitive
<1>2. Encodes((<<t>> \o length) \o c, Primitive(t, c), 0)
  BY PrimitiveRead
<1>3. Len((<<t>> \o length) \o c) <= Len(c) + 6
  BY ElementLength
<1> QED
  BY <1>1, <1>2, <1>3

\* The forms of a value whose elements are these.
Forms(t, c) == AllPrimitive(t, c) \cup {<<t, 128>> \o c \o EndOfContents}

LEMMA FormsEncoded ==
  ASSUME NEW t, Tag(t), Constructed(t), NEW c \in Seq(Octets), NEW d, NEW k \in Nat,
         LoopReads("body", c, d, k), LoopReads("open", c, d, k),
         NEW m \in Nat, Len(c) <= m, Representable(m)
  PROVE  AllEncode(Forms(t, c), Encoded(<<t>>, d), k + 1, m + 6)
<1>0. Len(c) \in Nat /\ Representable(Len(c))
  BY ShorterFits
<1> SUFFICES ASSUME NEW e \in Forms(t, c)
             PROVE  Encodes(e, Encoded(<<t>>, d), k + 1) /\ Len(e) <= m + 6
  BY DEF AllEncode
<1>1. CASE e \in AllPrimitive(t, c)
  <2>1. PICK length \in Lengths(Len(c)) : e = (<<t>> \o length) \o c
    BY <1>1 DEF AllPrimitive
  <2>2. Encodes((<<t>> \o length) \o c, Encoded(<<t>>, d), k + 1)
    BY <1>0, CompositeRead
  <2>3. Len((<<t>> \o length) \o c) <= Len(c) + 6
    BY <1>0, ElementLength
  <2> DEFINE whole == Len(e)
             part == Len(c)
  <2>4. whole <= part + 6 /\ part <= m /\ part \in Nat /\ whole \in Nat
    <3>1. e \in Seq(Octets)
      BY <2>1, <2>2 DEF Encodes
    <3> QED
      BY <1>0, <2>1, <2>3, <3>1
  <2> HIDE DEF whole, part
  <2>5. whole <= m + 6
    BY <2>4
  <2> QED
    BY <2>1, <2>2, <2>5 DEF whole
<1>2. CASE e = <<t, 128>> \o c \o EndOfContents
  <2>1. Encodes((<<t, 128>> \o c) \o EndOfContents, Encoded(<<t>>, d), k + 1)
    BY OpenRead
  <2> DEFINE whole == Len(e)
             part == Len(c)
  <2>2. whole = part + 4
    BY <1>2, OpenLength
  <2>3. part \in Nat /\ part <= m
    BY <1>0
  <2> HIDE DEF whole, part
  <2>4. whole <= m + 6
    BY <2>2, <2>3
  <2> QED
    BY <1>2, <2>1, <2>4 DEF whole
<1> QED
  BY <1>1, <1>2 DEF Forms

LEMMA JoinedParts ==
  ASSUME NEW parts
  PROVE  /\ Len(parts) = 1 => Joined(parts) = parts[1] \o <<>>
         /\ Len(parts) = 2 => Joined(parts) = parts[1] \o (parts[2] \o <<>>)
<1> DEFINE Lasts(f) == f = [n \in 0..Len(parts) |->
                              IF n = 0 THEN <<>> ELSE parts[Len(parts) + 1 - n] \o f[n - 1]]
           last == CHOOSE f : Lasts(f)
<1>1. Joined(parts) = last[Len(parts)]
  BY Zenon DEF Joined
<1>2. ASSUME Len(parts) = 1
      PROVE  Joined(parts) = parts[1] \o <<>>
  <2> DEFINE g == [n \in 0..1 |-> IF n = 0 THEN <<>> ELSE parts[1] \o <<>>]
  <2>1. g[0] = <<>>
    OBVIOUS
  <2>2. ASSUME NEW n \in 0..1
        PROVE  g[n] = IF n = 0 THEN <<>> ELSE parts[Len(parts) + 1 - n] \o g[n - 1]
    <3>1. CASE n = 0
      BY <2>1, <3>1
    <3>2. CASE n = 1
      <4>1. g[n] = parts[1] \o <<>> /\ n - 1 = 0 /\ Len(parts) + 1 - n = 1
        BY <1>2, <3>2
      <4> HIDE DEF g
      <4> QED
        BY <2>1, <3>2, <4>1
    <3> QED
      BY <3>1, <3>2
  <2>3. g = [n \in 0..1 |-> g[n]]
    OBVIOUS
  <2> HIDE DEF g
  <2>4. Lasts(g)
    BY <1>2, <2>2, <2>3
  <2> HIDE DEF Lasts
  <2>5. Lasts(last)
    BY <2>4, Zenon
  <2> HIDE DEF last
  <2>6. last[0] = <<>> /\ last[1] = parts[1] \o last[0]
    <3>1. last = [n \in 0..1 |-> IF n = 0 THEN <<>> ELSE parts[1 + 1 - n] \o last[n - 1]]
      BY <1>2, <2>5, Zenon DEF Lasts
    <3>2. last[0] = IF 0 = 0 THEN <<>> ELSE parts[1 + 1 - 0] \o last[0 - 1]
      BY <3>1
    <3>3. last[1] = IF 1 = 0 THEN <<>> ELSE parts[1 + 1 - 1] \o last[1 - 1]
      BY <3>1
    <3>4. 1 + 1 - 1 = 1 /\ 1 - 1 = 0 /\ 1 # 0
      OBVIOUS
    <3> QED
      BY <3>2, <3>3, <3>4, Zenon
  <2> QED
    BY <1>1, <1>2, <2>6
<1>3. ASSUME Len(parts) = 2
      PROVE  Joined(parts) = parts[1] \o (parts[2] \o <<>>)
  <2> DEFINE one == parts[2] \o <<>>
             two == parts[1] \o one
             g == [n \in 0..2 |-> IF n = 0 THEN <<>> ELSE IF n = 1 THEN one ELSE two]
  <2> HIDE DEF one, two
  <2>1. g[0] = <<>> /\ g[1] = one /\ g[2] = two
    OBVIOUS
  <2>2. ASSUME NEW n \in 0..2
        PROVE  g[n] = IF n = 0 THEN <<>> ELSE parts[Len(parts) + 1 - n] \o g[n - 1]
    <3> HIDE DEF g
    <3>1. CASE n = 0
      BY <2>1, <3>1
    <3>2. CASE n = 1
      <4>1. n - 1 = 0 /\ Len(parts) + 1 - n = 2 /\ n # 0
        BY <1>3, <3>2
      <4> QED
        BY <2>1, <3>2, <4>1, Zenon DEF one
    <3>3. CASE n = 2
      <4>1. n - 1 = 1 /\ Len(parts) + 1 - n = 1 /\ n # 0
        BY <1>3, <3>3
      <4> QED
        BY <2>1, <3>3, <4>1, Zenon DEF two
    <3> QED
      BY <3>1, <3>2, <3>3
  <2>3. g = [n \in 0..2 |-> g[n]]
    OBVIOUS
  <2> HIDE DEF g
  <2>4. Lasts(g)
    BY <1>3, <2>2, <2>3
  <2> HIDE DEF Lasts
  <2>5. Lasts(last)
    BY <2>4, Zenon
  <2> HIDE DEF last
  <2>6. last[0] = <<>> /\ last[1] = parts[2] \o last[0] /\ last[2] = parts[1] \o last[1]
    <3>0. 0 \in 0..2 /\ 1 \in 0..2 /\ 2 \in 0..2
      OBVIOUS
    <3>1. last = [n \in 0..2 |-> IF n = 0 THEN <<>> ELSE parts[2 + 1 - n] \o last[n - 1]]
      BY <1>3, <2>5, Zenon DEF Lasts
    <3>2. last[0] = IF 0 = 0 THEN <<>> ELSE parts[2 + 1 - 0] \o last[0 - 1]
      BY <3>0, <3>1, Zenon
    <3>3. last[1] = IF 1 = 0 THEN <<>> ELSE parts[2 + 1 - 1] \o last[1 - 1]
      BY <3>0, <3>1, Zenon
    <3>4. last[2] = IF 2 = 0 THEN <<>> ELSE parts[2 + 1 - 2] \o last[2 - 1]
      BY <3>0, <3>1, Zenon
    <3>5. 2 + 1 - 1 = 2 /\ 1 - 1 = 0 /\ 1 # 0 /\ 2 + 1 - 2 = 1 /\ 2 - 1 = 1 /\ 2 # 0
      OBVIOUS
    <3> QED
      BY <3>2, <3>3, <3>4, <3>5, Zenon
  <2> QED
    BY <1>1, <1>3, <2>6, Zenon
<1> QED
  BY <1>2, <1>3

\* A value with one element, and one with two.
LEMMA OneElement ==
  ASSUME NEW what \in {"body", "open"}, NEW k \in Nat, NEW e, NEW d, Encodes(e, d, k)
  PROVE  /\ e \o <<>> \in Seq(Octets) /\ Len(e \o <<>>) = Len(e)
         /\ LoopReads(what, e \o <<>>, d \o <<>>, k)
<1>1. e \in Seq(Octets) /\ <<>> \in Seq(Octets)
  BY DEF Encodes
<1>2. e \o <<>> = e
  BY <1>1, ConcatEmptySeq
<1>3. LoopReads(what, <<>>, <<>>, k)
  BY LoopStops
<1>4. LoopReads(what, e \o <<>>, d \o <<>>, k)
  BY <1>1, <1>3, LoopGoesOn
<1> QED
  BY <1>1, <1>2, <1>4

BothEncode(e1, d1, e2, d2, k) == Encodes(e1, d1, k) /\ Encodes(e2, d2, k)

LEMMA TwoElements ==
  ASSUME NEW what \in {"body", "open"}, NEW k \in Nat,
         NEW e1, NEW d1, NEW e2, NEW d2, BothEncode(e1, d1, e2, d2, k)
  PROVE  /\ e1 \o (e2 \o <<>>) \in Seq(Octets) /\ Len(e1 \o (e2 \o <<>>)) = Len(e1) + Len(e2)
         /\ LoopReads(what, e1 \o (e2 \o <<>>), d1 \o (d2 \o <<>>), k)
<1> DEFINE others == e2 \o <<>>
           rest == d2 \o <<>>
<1>0. Encodes(e1, d1, k) /\ Encodes(e2, d2, k)
  BY DEF BothEncode
<1>1. others \in Seq(Octets) /\ Len(others) = Len(e2) /\ LoopReads(what, others, rest, k)
  BY <1>0, OneElement
<1>2. e1 \in Seq(Octets)
  BY <1>0 DEF Encodes
<1> HIDE DEF others, rest
<1>3. LoopReads(what, e1 \o others, d1 \o rest, k)
  BY <1>0, <1>1, LoopGoesOn
<1>4. e1 \o others \in Seq(Octets) /\ Len(e1 \o others) = Len(e1) + Len(others)
  BY <1>1, <1>2, ConcatProperties
<1> QED
  BY <1>1, <1>3, <1>4 DEF others, rest

LEMMA FunctionIsSequence ==
  ASSUME NEW S, NEW n \in Nat, NEW parts \in [1..n -> S]
  PROVE  parts \in Seq(S) /\ Len(parts) = n
OBVIOUS

LEMMA OneEncoded ==
  ASSUME NEW t, Tag(t), Constructed(t), NEW k \in Nat, NEW m \in Nat, Representable(m),
         NEW es, NEW d, AllEncode(es, d, k, m)
  PROVE  AllEncode(AllComposite(t, <<es>>), Composite(t, <<d>>), k + 1, m + 6)
<1> DEFINE values == <<es>>
<1> SUFFICES ASSUME NEW e \in AllComposite(t, values)
             PROVE  Encodes(e, Composite(t, <<d>>), k + 1) /\ Len(e) <= m + 6
  BY DEF AllEncode
<1>1. PICK parts \in Selections(values) : e \in Forms(t, Joined(parts))
  BY DEF AllComposite, Forms
<1>2. DOMAIN values = 1..1 /\ values[1] = es
  OBVIOUS
<1> HIDE DEF values
<1> DEFINE S == UNION {values[i] : i \in DOMAIN values}
<1>3. parts \in Seq(S) /\ Len(parts) = 1 /\ parts[1] \in es
  <2>1. parts \in [DOMAIN values -> S] /\ \A i \in DOMAIN values : parts[i] \in values[i]
    BY <1>1, Zenon DEF Selections
  <2> HIDE DEF S
  <2>2. parts \in [1..1 -> S]
    BY <1>2, <2>1
  <2>3. parts \in Seq(S) /\ Len(parts) = 1
    BY <2>2, FunctionIsSequence
  <2> QED
    BY <1>2, <2>1, <2>3
<1> HIDE DEF S
<1>4. Joined(parts) = parts[1] \o <<>>
  BY <1>3, JoinedParts
<1>5. Composite(t, <<d>>) = Encoded(<<t>>, d \o <<>>)
  <2>1. Len(<<d>>) = 1 /\ <<d>>[1] = d
    OBVIOUS
  <2>2. Joined(<<d>>) = d \o <<>>
    BY <2>1, JoinedParts
  <2> QED
    BY <2>2 DEF Composite
<1>6. Encodes(parts[1], d, k) /\ Len(parts[1]) <= m
  BY <1>3 DEF AllEncode
<1> DEFINE c == parts[1] \o <<>>
<1>7. /\ c \in Seq(Octets) /\ Len(c) <= m
      /\ LoopReads("body", c, d \o <<>>, k) /\ LoopReads("open", c, d \o <<>>, k)
  BY <1>6, OneElement
<1> HIDE DEF c
<1>8. AllEncode(Forms(t, c), Encoded(<<t>>, d \o <<>>), k + 1, m + 6)
  BY <1>7, FormsEncoded
<1>9. e \in Forms(t, c)
  BY <1>1, <1>4 DEF c
<1> QED
  BY <1>5, <1>8, <1>9 DEF AllEncode

LEMMA TwoEncoded ==
  ASSUME NEW t, Tag(t), Constructed(t), NEW k \in Nat,
         NEW m1 \in Nat, NEW m2 \in Nat, Representable(m1 + m2),
         NEW es1, NEW d1, AllEncode(es1, d1, k, m1),
         NEW es2, NEW d2, AllEncode(es2, d2, k, m2)
  PROVE  AllEncode(AllComposite(t, <<es1, es2>>), Composite(t, <<d1, d2>>), k + 1, m1 + m2 + 6)
<1> DEFINE values == <<es1, es2>>
<1> SUFFICES ASSUME NEW e \in AllComposite(t, values)
             PROVE  Encodes(e, Composite(t, <<d1, d2>>), k + 1) /\ Len(e) <= m1 + m2 + 6
  BY DEF AllEncode
<1>1. PICK parts \in Selections(values) : e \in Forms(t, Joined(parts))
  BY DEF AllComposite, Forms
<1>2. DOMAIN values = 1..2 /\ values[1] = es1 /\ values[2] = es2
  OBVIOUS
<1> HIDE DEF values
<1> DEFINE S == UNION {values[i] : i \in DOMAIN values}
<1>3. /\ parts \in Seq(S) /\ Len(parts) = 2
      /\ parts[1] \in es1 /\ parts[2] \in es2
  <2>1. parts \in [DOMAIN values -> S] /\ \A i \in DOMAIN values : parts[i] \in values[i]
    BY <1>1, Zenon DEF Selections
  <2> HIDE DEF S
  <2>2. parts \in [1..2 -> S]
    BY <1>2, <2>1
  <2>3. parts \in Seq(S) /\ Len(parts) = 2
    BY <2>2, FunctionIsSequence
  <2> QED
    BY <1>2, <2>1, <2>3
<1> HIDE DEF S
<1>4. Joined(parts) = parts[1] \o (parts[2] \o <<>>)
  BY <1>3, JoinedParts
<1> DEFINE both == d1 \o (d2 \o <<>>)
<1>5. Composite(t, <<d1, d2>>) = Encoded(<<t>>, both)
  <2>1. Len(<<d1, d2>>) = 2 /\ <<d1, d2>>[1] = d1 /\ <<d1, d2>>[2] = d2
    OBVIOUS
  <2>2. Joined(<<d1, d2>>) = d1 \o (d2 \o <<>>)
    BY <2>1, JoinedParts
  <2> QED
    BY <2>2 DEF Composite
<1>6. /\ Encodes(parts[1], d1, k) /\ Len(parts[1]) <= m1
      /\ Encodes(parts[2], d2, k) /\ Len(parts[2]) <= m2
  BY <1>3 DEF AllEncode
<1> DEFINE c == parts[1] \o (parts[2] \o <<>>)
<1>7. /\ c \in Seq(Octets) /\ Len(c) = Len(parts[1]) + Len(parts[2])
      /\ LoopReads("body", c, both, k) /\ LoopReads("open", c, both, k)
  <2> DEFINE e1 == parts[1]
             e2 == parts[2]
  <2>1. BothEncode(e1, d1, e2, d2, k)
    BY <1>6 DEF BothEncode
  <2> HIDE DEF e1, e2
  <2>2. ASSUME NEW what \in {"body", "open"}
        PROVE  /\ e1 \o (e2 \o <<>>) \in Seq(Octets)
               /\ Len(e1 \o (e2 \o <<>>)) = Len(e1) + Len(e2)
               /\ LoopReads(what, e1 \o (e2 \o <<>>), d1 \o (d2 \o <<>>), k)
    BY <2>1, TwoElements
  <2>3. "body" \in {"body", "open"} /\ "open" \in {"body", "open"}
    OBVIOUS
  <2> QED
    BY <2>2, <2>3, Zenon DEF e1, e2
<1>8. Len(c) <= m1 + m2
  <2> DEFINE x == Len(parts[1])
             y == Len(parts[2])
             z == Len(c)
  <2>1. x \in Nat /\ y \in Nat /\ z = x + y /\ x <= m1 /\ y <= m2
    BY <1>6, <1>7 DEF Encodes
  <2> HIDE DEF x, y, z
  <2>2. z <= m1 + m2
    BY <2>1
  <2> QED
    BY <2>2 DEF z
<1> HIDE DEF c, both
<1>9. AllEncode(Forms(t, c), Encoded(<<t>>, both), k + 1, (m1 + m2) + 6)
  <2>1. m1 + m2 \in Nat
    OBVIOUS
  <2> QED
    BY <1>7, <1>8, <2>1, FormsEncoded
<1>10. e \in Forms(t, c)
  BY <1>1, <1>4 DEF c
<1> QED
  BY <1>5, <1>9, <1>10 DEF AllEncode

\* What is transcoded comes out as the distinguished encoding.
LEMMA Transcoded ==
  ASSUME NEW encodings, NEW d, NEW k \in Nat, k <= MaxBERDepth, NEW m, AllEncode(encodings, d, k, m),
         NEW ber \in encodings
  PROVE  BerToDER(ber) = [ok |-> TRUE, der |-> d, next |-> 1 + Len(ber)]
<1>1. ber \in Seq(Octets) /\ Len(ber) >= 2 /\ Reads(ber, d, k) /\ Len(ber) \in Nat
  BY DEF AllEncode, Encodes
<1>2. PICK f : /\ Nests(ber, f)
               /\ Transcoding(ber) = f[Len(ber) + 1][Call("element", 1, Len(ber), 0)]
  BY <1>1, TranscodingCalls
<1>3. ElementCall(ber, k, ber, f, 1, Len(ber), 0, Len(ber) + 1)
  <2>1. Stands(ber, ber, 1, Len(ber))
    <3>1. \A i \in 1..Len(ber) : 1 + i - 1 = i
      OBVIOUS
    <3>2. 1 + Len(ber) - 1 <= Len(ber) /\ Len(ber) \in 0..Len(ber)
      BY <1>1
    <3> QED
      BY <1>1, <3>1, <3>2 DEF Stands
  <2>2. 0 + k <= MaxBERDepth /\ Len(ber) + 1 \in Nat /\ Len(ber) + 1 <= Len(ber) + 1
    BY <1>1
  <2> QED
    BY <1>2, <2>1, <2>2 DEF ElementCall
<1>4. Transcoding(ber) = [ok |-> TRUE, der |-> d, next |-> 1 + Len(ber)]
  BY <1>1, <1>2, <1>3 DEF Reads
<1>5. ber # <<>>
  BY <1>1
<1> QED
  BY <1>4, <1>5 DEF BerToDER

-----------------------------------------------------------------------------
(* The content, however it is cut.                                         *)

LEMMA Flattened ==
  ASSUME NEW chunks
  PROVE  /\ Len(chunks) = 1 => FlattenSeq(chunks) = chunks[1]
         /\ Len(chunks) = 2 => FlattenSeq(chunks) = chunks[1] \o chunks[2]
<1> DEFINE Flattens(f) == f = [i \in 1..Len(chunks) |->
                                 IF i = 1 THEN chunks[i] ELSE f[i - 1] \o chunks[i]]
           flatten == CHOOSE f : Flattens(f)
<1>1. Len(chunks) # 0 => FlattenSeq(chunks) = flatten[Len(chunks)]
  BY Zenon DEF FlattenSeq
<1>2. ASSUME Len(chunks) = 1
      PROVE  FlattenSeq(chunks) = chunks[1]
  <2> DEFINE g == [i \in 1..1 |-> chunks[1]]
  <2>1. Flattens(g)
    BY <1>2
  <2>2. Flattens(flatten)
    <3> HIDE DEF Flattens, g
    <3> QED
      BY <2>1, Zenon
  <2> HIDE DEF flatten
  <2>3. flatten[1] = chunks[1]
    BY <1>2, <2>2
  <2> QED
    BY <1>1, <1>2, <2>3
<1>3. ASSUME Len(chunks) = 2
      PROVE  FlattenSeq(chunks) = chunks[1] \o chunks[2]
  <2> DEFINE both == chunks[1] \o chunks[2]
  <2>0. both = chunks[1] \o chunks[2]
    OBVIOUS
  <2> HIDE DEF both
  <2> DEFINE g == [i \in 1..2 |-> IF i = 1 THEN chunks[1] ELSE both]
  <2>1. Flattens(g)
    <3>1. \A i \in 1..2 : g[i] = IF i = 1 THEN chunks[i] ELSE g[i - 1] \o chunks[i]
      <4>0. 1 \in 1..2 /\ 2 \in 1..2 /\ 2 # 1
        OBVIOUS
      <4>1. g[1] = chunks[1] /\ g[2] = both
        BY <4>0
      <4>2. ASSUME NEW i \in 1..2, i # 1
            PROVE  i = 2 /\ i - 1 = 1
        BY <4>2
      <4> HIDE DEF g
      <4> QED
        BY <2>0, <4>1, <4>2
    <3>2. g = [i \in 1..2 |-> g[i]]
      OBVIOUS
    <3> HIDE DEF g
    <3>3. g = [i \in 1..2 |-> IF i = 1 THEN chunks[i] ELSE g[i - 1] \o chunks[i]]
      BY <3>1, <3>2
    <3> QED
      BY <1>3, <3>3
  <2>2. Flattens(flatten)
    <3> HIDE DEF Flattens, g
    <3> QED
      BY <2>1, Zenon
  <2> HIDE DEF flatten
  <2>3. flatten[1] = chunks[1] /\ flatten[2] = flatten[2 - 1] \o chunks[2]
    BY <1>3, <2>2
  <2>4. flatten[2] = both
    <3>1. 2 - 1 = 1
      OBVIOUS
    <3> QED
      BY <2>0, <2>3, <3>1, Zenon
  <2> QED
    BY <1>1, <1>3, <2>0, <2>4
<1> QED
  BY <1>2, <1>3

\* A content that is cut is the same content, but for one without octets.
LEMMA CutRead ==
  ASSUME NEW octets, octets \in Seq(Octets), NEW cut \in Cuts(octets)
  PROVE  ContentValue(<<cut>>) \in {<<>>, <<octets>>}
<1>1. CASE cut = Whole(octets)
  BY <1>1 DEF ContentValue, Whole
<1>2. ASSUME NEW chunks, cut = Chunked(chunks), FlattenSeq(chunks) = octets
      PROVE  ContentValue(<<cut>>) \in {<<>>, <<octets>>}
  BY <1>2 DEF ContentValue, Chunked
<1>3. CASE cut = Chunked(<<octets>>)
  <2>1. Len(<<octets>>) = 1 /\ <<octets>>[1] = octets
    OBVIOUS
  <2> QED
    BY <1>2, <1>3, <2>1, Flattened
<1>4. ASSUME NEW i \in 1..Len(octets) - 1,
             cut = Chunked(<<SubSeq(octets, 1, i), SubSeq(octets, i + 1, Len(octets))>>)
      PROVE  ContentValue(<<cut>>) \in {<<>>, <<octets>>}
  <2> DEFINE a == SubSeq(octets, 1, i)
             b == SubSeq(octets, i + 1, Len(octets))
             chunks == <<a, b>>
  <2>1. Len(octets) \in Nat /\ i \in Nat /\ i < Len(octets) /\ 1 <= i
    BY <1>4
  <2>2. a \in Seq(Octets) /\ b \in Seq(Octets) /\ Len(a) = i /\ Len(b) = Len(octets) - i
    BY <2>1
  <2>3. /\ \A j \in 1..i : a[j] = octets[j]
        /\ \A j \in 1..Len(octets) - i : b[j] = octets[i + j]
    BY <2>1
  <2> HIDE DEF a, b
  <2> DEFINE both == a \o b
  <2>4. /\ both \in Seq(Octets) /\ Len(both) = Len(a) + Len(b)
        /\ \A j \in 1..Len(a) + Len(b) :
             both[j] = IF j <= Len(a) THEN a[j] ELSE b[j - Len(a)]
    BY <2>2, ConcatProperties
  <2> HIDE DEF both
  <2>5. Len(both) = Len(octets)
    BY <2>1, <2>2, <2>4
  <2>6. ASSUME NEW j \in 1..Len(octets)
        PROVE  both[j] = octets[j]
    <3>1. both[j] = IF j <= i THEN a[j] ELSE b[j - i]
      BY <2>1, <2>2, <2>4
    <3>2. CASE j <= i
      BY <2>3, <3>1, <3>2
    <3>3. CASE ~(j <= i)
      <4>1. j - i \in 1..Len(octets) - i /\ i + (j - i) = j
        BY <2>1, <3>3
      <4>2. b[j - i] = octets[i + (j - i)]
        BY <2>3, <4>1
      <4> QED
        BY <3>1, <3>3, <4>1, <4>2
    <3> QED
      BY <3>2, <3>3
  <2>7. both = octets
    BY <2>4, <2>5, <2>6, SeqEqual
  <2>8. Len(chunks) = 2 /\ chunks[1] = a /\ chunks[2] = b
    OBVIOUS
  <2>9. cut = Chunked(chunks)
    BY <1>4 DEF a, b
  <2> HIDE DEF chunks
  <2>10. FlattenSeq(chunks) = octets
    BY <2>7, <2>8, Flattened DEF both
  <2> QED
    BY <1>2, <2>9, <2>10
<1> QED
  BY <1>1, <1>3, <1>4 DEF Cuts

-----------------------------------------------------------------------------
(* The encodings of a message.                                             *)

LEMMA Tags ==
  /\ \A t \in {2, 4, 36, 48, 160} : Tag(t)
  /\ ~Constructed(2) /\ ~Constructed(4)
  /\ Constructed(36) /\ Constructed(48) /\ Constructed(160)
BY DEF Tag, Constructed, Octets

LEMMA Wider ==
  ASSUME NEW encodings, NEW d, NEW k \in Nat, NEW m \in Nat, AllEncode(encodings, d, k, m),
         NEW more \in Nat, k <= more, NEW some \in Nat, m <= some
  PROVE  AllEncode(encodings, d, more, some)
<1> SUFFICES ASSUME NEW e \in encodings PROVE Encodes(e, d, more) /\ Len(e) <= some
  BY DEF AllEncode
<1>1. Encodes(e, d, more)
  BY Deeper DEF AllEncode
<1>2. Len(e) \in Nat /\ Len(e) <= m
  BY <1>1 DEF AllEncode, Encodes
<1> QED
  BY <1>1, <1>2

\* A string of octets, and the chunks of one.
LEMMA StringEncoded ==
  ASSUME NEW c \in Seq(Octets), NEW m \in Nat, Len(c) <= m, Representable(m)
  PROVE  AllEncode(AllPrimitive(4, c), Primitive(4, c), 0, m + 6)
<1>1. Len(c) \in Nat /\ Representable(Len(c))
  BY ShorterFits
<1>2. AllEncode(AllPrimitive(4, c), Primitive(4, c), 0, Len(c) + 6)
  BY <1>1, Tags, PrimitiveEncoded
<1>3. Len(c) + 6 \in Nat /\ m + 6 \in Nat /\ Len(c) + 6 <= m + 6
  BY <1>1
<1> QED
  BY <1>2, <1>3, Wider

\* The content of a message, as an element of it.
ContentIn(eContent, Simple(_, _), Compound(_, _)) ==
  LET strings == [i \in DOMAIN eContent.chunks |-> Simple(4, eContent.chunks[i])]
  IN Compound(160, IF eContent.compound THEN <<Compound(36, strings)>> ELSE strings)

LEMMA ContentEncoded ==
  ASSUME NEW octets, Encodable(octets), NEW cut \in Cuts(octets)
  PROVE  AllEncode(ContentIn(cut, AllPrimitive, AllComposite), ContentIn(cut, Primitive, Composite),
                   2, Len(octets) + 24)
<1> DEFINE n == Len(octets)
<1>1. octets \in Seq(Octets) /\ n \in Nat /\ Representable(n + 40)
  BY DEF Encodable
<1>2. \A more \in Nat : more <= n + 40 => Representable(more)
  <2>1. n + 40 \in Nat
    BY <1>1
  <2> QED
    BY <1>1, <2>1, ShorterFits
<1> HIDE DEF n
<1>3. CASE cut = Whole(octets)
  <2>1. AllEncode(AllPrimitive(4, octets), Primitive(4, octets), 0, n + 6)
    <3>1. n <= n /\ Representable(n)
      BY <1>1, <1>2
    <3> QED
      BY <1>1, <3>1, StringEncoded DEF n
  <2>2. AllEncode(AllComposite(160, <<AllPrimitive(4, octets)>>),
                  Composite(160, <<Primitive(4, octets)>>), 0 + 1, (n + 6) + 6)
    <3>1. n + 6 \in Nat /\ Representable(n + 6)
      BY <1>1, <1>2
    <3> QED
      BY <2>1, <3>1, Tags, OneEncoded
  <2>3. AllEncode(AllComposite(160, <<AllPrimitive(4, octets)>>),
                  Composite(160, <<Primitive(4, octets)>>), 2, n + 24)
    <3>1. /\ 0 + 1 \in Nat /\ (n + 6) + 6 \in Nat /\ n + 24 \in Nat
          /\ 0 + 1 <= 2 /\ (n + 6) + 6 <= n + 24
      BY <1>1
    <3> QED
      BY <2>2, <3>1, Wider
  <2>4. /\ cut.chunks = <<octets>> /\ ~cut.compound
        /\ [i \in DOMAIN cut.chunks |-> AllPrimitive(4, cut.chunks[i])] = <<AllPrimitive(4, octets)>>
        /\ [i \in DOMAIN cut.chunks |-> Primitive(4, cut.chunks[i])] = <<Primitive(4, octets)>>
    BY <1>3 DEF Whole
  <2> QED
    BY <2>3, <2>4 DEF ContentIn, n
<1>4. ASSUME NEW chunks, cut = Chunked(chunks), NEW m \in Nat, m <= n + 18,
             NEW strings, strings = [i \in DOMAIN chunks |-> AllPrimitive(4, chunks[i])],
             NEW ders, ders = [i \in DOMAIN chunks |-> Primitive(4, chunks[i])],
             AllEncode(AllComposite(36, strings), Composite(36, ders), 1, m)
      PROVE  AllEncode(ContentIn(cut, AllPrimitive, AllComposite), ContentIn(cut, Primitive, Composite),
                       2, n + 24)
  <2>1. AllEncode(AllComposite(160, <<AllComposite(36, strings)>>),
                  Composite(160, <<Composite(36, ders)>>), 1 + 1, m + 6)
    <3>1. Representable(m)
      BY <1>1, <1>2, <1>4
    <3> QED
      BY <1>4, <3>1, Tags, OneEncoded
  <2>2. AllEncode(AllComposite(160, <<AllComposite(36, strings)>>),
                  Composite(160, <<Composite(36, ders)>>), 2, n + 24)
    <3>1. /\ 1 + 1 \in Nat /\ m + 6 \in Nat /\ n + 24 \in Nat
          /\ 1 + 1 <= 2 /\ m + 6 <= n + 24
      BY <1>1, <1>4
    <3> QED
      BY <2>1, <3>1, Wider
  <2>3. cut.chunks = chunks /\ cut.compound
    BY <1>4 DEF Chunked
  <2> QED
    BY <1>4, <2>2, <2>3 DEF ContentIn
<1>5. CASE cut = Chunked(<<octets>>)
  <2> DEFINE chunks == <<octets>>
  <2>1. /\ [i \in DOMAIN chunks |-> AllPrimitive(4, chunks[i])] = <<AllPrimitive(4, octets)>>
        /\ [i \in DOMAIN chunks |-> Primitive(4, chunks[i])] = <<Primitive(4, octets)>>
    OBVIOUS
  <2>2. AllEncode(AllPrimitive(4, octets), Primitive(4, octets), 0, n + 6)
    <3>1. n <= n /\ Representable(n)
      BY <1>1, <1>2
    <3> QED
      BY <1>1, <3>1, StringEncoded DEF n
  <2>3. AllEncode(AllComposite(36, <<AllPrimitive(4, octets)>>),
                  Composite(36, <<Primitive(4, octets)>>), 0 + 1, (n + 6) + 6)
    <3>1. n + 6 \in Nat /\ Representable(n + 6)
      BY <1>1, <1>2
    <3> QED
      BY <2>2, <3>1, Tags, OneEncoded
  <2>4. n + 12 \in Nat /\ n + 12 <= n + 18 /\ (n + 6) + 6 = n + 12 /\ 0 + 1 = 1
    BY <1>1
  <2>5. cut = Chunked(chunks)
    BY <1>5
  <2>6. AllEncode(AllComposite(36, <<AllPrimitive(4, octets)>>),
                  Composite(36, <<Primitive(4, octets)>>), 1, n + 12)
    BY <2>3, <2>4
  <2> HIDE DEF chunks
  <2> QED
    BY <1>4, <2>1, <2>4, <2>5, <2>6 DEF n
<1>6. ASSUME NEW i \in 1..Len(octets) - 1,
             cut = Chunked(<<SubSeq(octets, 1, i), SubSeq(octets, i + 1, Len(octets))>>)
      PROVE  AllEncode(ContentIn(cut, AllPrimitive, AllComposite), ContentIn(cut, Primitive, Composite),
                       2, n + 24)
  <2> DEFINE a == SubSeq(octets, 1, i)
             b == SubSeq(octets, i + 1, Len(octets))
             chunks == <<a, b>>
             rest == n - i
  <2>1. /\ a \in Seq(Octets) /\ b \in Seq(Octets) /\ Len(a) = i /\ Len(b) = rest
        /\ i \in Nat /\ rest \in Nat /\ i <= n /\ i + rest = n /\ rest <= n
    BY <1>1 DEF n
  <2> HIDE DEF a, b, rest
  <2>2. /\ [j \in DOMAIN chunks |-> AllPrimitive(4, chunks[j])]
             = <<AllPrimitive(4, a), AllPrimitive(4, b)>>
        /\ [j \in DOMAIN chunks |-> Primitive(4, chunks[j])] = <<Primitive(4, a), Primitive(4, b)>>
    OBVIOUS
  <2>3. AllEncode(AllPrimitive(4, a), Primitive(4, a), 0, i + 6)
    <3>1. Len(a) <= i /\ Representable(i)
      BY <1>1, <1>2, <2>1
    <3> QED
      BY <2>1, <3>1, StringEncoded
  <2>4. AllEncode(AllPrimitive(4, b), Primitive(4, b), 0, rest + 6)
    <3>1. Len(b) <= rest /\ Representable(rest)
      BY <1>1, <1>2, <2>1
    <3> QED
      BY <2>1, <3>1, StringEncoded
  <2>5. AllEncode(AllComposite(36, <<AllPrimitive(4, a), AllPrimitive(4, b)>>),
                  Composite(36, <<Primitive(4, a), Primitive(4, b)>>),
                  0 + 1, (i + 6) + (rest + 6) + 6)
    <3>1. i + 6 \in Nat /\ rest + 6 \in Nat /\ Representable((i + 6) + (rest + 6))
      <4>1. (i + 6) + (rest + 6) = n + 12 /\ n + 12 \in Nat /\ n + 12 <= n + 40
        BY <1>1, <2>1
      <4>2. Representable(n + 12)
        BY <1>2, <4>1
      <4> QED
        BY <2>1, <4>1, <4>2
    <3> QED
      BY <2>3, <2>4, <3>1, Tags, TwoEncoded
  <2>6. /\ n + 18 \in Nat /\ n + 18 <= n + 18 /\ 0 + 1 = 1
        /\ (i + 6) + (rest + 6) + 6 = n + 18
    BY <1>1, <2>1
  <2>7. cut = Chunked(chunks)
    BY <1>6 DEF a, b
  <2>8. AllEncode(AllComposite(36, <<AllPrimitive(4, a), AllPrimitive(4, b)>>),
                  Composite(36, <<Primitive(4, a), Primitive(4, b)>>), 1, n + 18)
    BY <2>5, <2>6
  <2> HIDE DEF chunks
  <2> QED
    BY <1>4, <2>2, <2>6, <2>7, <2>8
<1> QED
  BY <1>3, <1>5, <1>6 DEF Cuts, n

\* A message of which every encoding is read as its distinguished one.
LEMMA MessageEncoded ==
  ASSUME NEW octets, Encodable(octets), NEW sd,
         sd.eContent = <<>> \/ \E cut \in Cuts(octets) : sd.eContent = <<cut>>
  PROVE  AllEncode(ToBER(sd), ToDER(sd), 3, Len(octets) + 40)
<1> DEFINE n == Len(octets)
           version == <<1>>
<1>1. n \in Nat /\ Representable(n + 40) /\ n + 40 \in Nat
  BY DEF Encodable
<1>2. \A more \in Nat : more <= n + 40 => Representable(more)
  BY <1>1, ShorterFits
<1> HIDE DEF n
<1>3. AllEncode(AllPrimitive(2, version), Primitive(2, version), 0, 7)
  <2>1. version \in Seq(Octets) /\ Len(version) = 1
    BY DEF Octets
  <2>2. Representable(1) /\ 1 + 6 = 7
    BY <1>1, <1>2
  <2> HIDE DEF version
  <2>3. AllEncode(AllPrimitive(2, version), Primitive(2, version), 0, Len(version) + 6)
    BY <2>1, <2>2, Tags, PrimitiveEncoded
  <2> QED
    BY <2>1, <2>2, <2>3
<1> HIDE DEF version
<1>4. AllEncode(AllPrimitive(2, version), Primitive(2, version), 2, 7)
  BY <1>3, Wider
<1>5. CASE sd.eContent = <<>>
  <2>1. AllEncode(AllComposite(48, <<AllPrimitive(2, version)>>),
                  Composite(48, <<Primitive(2, version)>>), 2 + 1, 7 + 6)
    <3>1. Representable(7)
      BY <1>1, <1>2
    <3> QED
      BY <1>4, <3>1, Tags, OneEncoded
  <2>2. AllEncode(AllComposite(48, <<AllPrimitive(2, version)>>),
                  Composite(48, <<Primitive(2, version)>>), 3, n + 40)
    <3>1. 2 + 1 <= 3 /\ 7 + 6 <= n + 40 /\ 2 + 1 \in Nat /\ 7 + 6 \in Nat
      BY <1>1
    <3> QED
      BY <1>1, <2>1, <3>1, Wider
  <2>3. \A x : <<>> \o <<x>> = <<x>>
    OBVIOUS
  <2>4. /\ ToBER(sd) = AllComposite(48, <<AllPrimitive(2, version)>>)
        /\ ToDER(sd) = Composite(48, <<Primitive(2, version)>>)
    BY <1>5, <2>3, Zenon DEF ToBER, ToDER, Encoding, IsDetached, version
  <2> QED
    BY <2>2, <2>4 DEF n
<1>6. CASE \E cut \in Cuts(octets) : sd.eContent = <<cut>>
  <2>1. PICK cut \in Cuts(octets) : sd.eContent = <<cut>>
    BY <1>6
  <2> DEFINE bers == ContentIn(cut, AllPrimitive, AllComposite)
             der == ContentIn(cut, Primitive, Composite)
  <2>2. AllEncode(bers, der, 2, n + 24)
    BY ContentEncoded DEF n
  <2>3. sd.eContent[1] = cut /\ ~IsDetached(sd)
    BY <2>1 DEF IsDetached
  <2>4. ASSUME NEW x, NEW y PROVE <<x>> \o <<y>> = <<x, y>>
    <3> DEFINE a == <<x>>
               b == <<y>>
               both == <<x, y>>
    <3>1. /\ a \in Seq({x, y}) /\ b \in Seq({x, y}) /\ both \in Seq({x, y})
          /\ Len(a) = 1 /\ Len(b) = 1 /\ Len(both) = 2
          /\ a[1] = x /\ b[1] = y /\ both[1] = x /\ both[2] = y
      OBVIOUS
    <3> HIDE DEF a, b, both
    <3>2. /\ a \o b \in Seq({x, y}) /\ Len(a \o b) = 2
          /\ \A i \in 1..2 : (a \o b)[i] = both[i]
      BY <3>1, ConcatProperties
    <3>3. a \o b = both
      BY <3>1, <3>2, SeqEqual
    <3> QED
      BY <3>3 DEF a, b, both
  <2>5. /\ ToBER(sd) = AllComposite(48, <<bers, AllPrimitive(2, version)>>)
        /\ ToDER(sd) = Composite(48, <<der, Primitive(2, version)>>)
    <3>1. /\ ToBER(sd) = AllComposite(48, <<ContentIn(sd.eContent[1], AllPrimitive, AllComposite)>>
                                           \o <<AllPrimitive(2, version)>>)
          /\ ToDER(sd) = Composite(48, <<ContentIn(sd.eContent[1], Primitive, Composite)>>
                                        \o <<Primitive(2, version)>>)
      BY <2>3, Zenon DEF ToBER, ToDER, Encoding, ContentIn, version
    <3> HIDE DEF bers, der
    <3>2. /\ ContentIn(sd.eContent[1], AllPrimitive, AllComposite) = bers
          /\ ContentIn(sd.eContent[1], Primitive, Composite) = der
      BY <2>3 DEF bers, der
    <3> QED
      BY <2>4, <3>1, <3>2
  <2> HIDE DEF bers, der
  <2>6. AllEncode(AllComposite(48, <<bers, AllPrimitive(2, version)>>),
                  Composite(48, <<der, Primitive(2, version)>>), 2 + 1, (n + 24) + 7 + 6)
    <3>1. n + 24 \in Nat /\ Representable((n + 24) + 7)
      BY <1>1, <1>2
    <3> QED
      BY <1>4, <2>2, <3>1, Tags, TwoEncoded
  <2>7. AllEncode(AllComposite(48, <<bers, AllPrimitive(2, version)>>),
                  Composite(48, <<der, Primitive(2, version)>>), 3, n + 40)
    <3>1. /\ 2 + 1 <= 3 /\ (n + 24) + 7 + 6 <= n + 40
          /\ 2 + 1 \in Nat /\ (n + 24) + 7 + 6 \in Nat
      BY <1>1
    <3> QED
      BY <1>1, <2>6, <3>1, Wider
  <2> QED
    BY <2>5, <2>7 DEF n
<1> QED
  BY <1>5, <1>6

\* Whatever encoding of a message arrives, the message is what is read.
LEMMA MessageRead ==
  ASSUME NEW octets, Encodable(octets), message.eContent = <<>>
           \/ \E cut \in Cuts(octets) : message.eContent = <<cut>>,
         NEW ber \in ToBER(message)
  PROVE  Parsed(ber) = <<message>>
<1>1. AllEncode(ToBER(message), ToDER(message), 3, Len(octets) + 40)
  BY MessageEncoded
<1>2. BerToDER(ber) = [ok |-> TRUE, der |-> ToDER(message), next |-> 1 + Len(ber)]
  BY <1>1, NestingAssumption, DepthAssumption, Transcoded
<1> QED
  BY <1>2 DEF Parsed, Unmarshalled

-----------------------------------------------------------------------------
(* What is signed.                                                         *)

\* One of the encodings comes first, whatever their other octets are.
LEMMA LaterOctet ==
  ASSUME NEW a, NEW b, DOMAIN a \subseteq Nat \ {0}, a[1] \in Nat, b[1] \in Nat, a[1] > b[1]
  PROVE  ~Precedes(a, b)
<1> SUFFICES ASSUME NEW i \in DOMAIN a, a[i] < b[i], \A j \in 1..i - 1 : a[j] = b[j]
             PROVE  FALSE
  BY DEF Precedes
<1>1. i # 1
  OBVIOUS
<1>2. 1 \in 1..i - 1
  BY <1>1
<1> QED
  BY <1>2

\* Three encodings that start with different octets can be put in order.
LEMMA OrderExists ==
  ASSUME NEW e,
         \A i \in 1..3 : DOMAIN e[i] \subseteq Nat \ {0} /\ e[i][1] \in Nat,
         \A i, j \in 1..3 : i # j => e[i][1] # e[j][1]
  PROVE  \E p \in Injection(1..3, 1..3) :
           \A i, j \in 1..3 : i < j => ~Precedes(e[p[j]], e[p[i]])
<1>1. ASSUME NEW a \in 1..3, NEW b \in 1..3, NEW c \in 1..3,
             e[a][1] < e[b][1], e[b][1] < e[c][1]
      PROVE  \E p \in Injection(1..3, 1..3) :
               \A i, j \in 1..3 : i < j => ~Precedes(e[p[j]], e[p[i]])
  <2> DEFINE p == [i \in 1..3 |-> IF i = 1 THEN a ELSE IF i = 2 THEN b ELSE c]
  <2>1. p \in Injection(1..3, 1..3)
    BY <1>1 DEF Injection, IsInjective
  <2>2. ~Precedes(e[b], e[a]) /\ ~Precedes(e[c], e[b]) /\ ~Precedes(e[c], e[a])
    <3>1. ~Precedes(e[b], e[a])
      BY <1>1, LaterOctet
    <3>2. ~Precedes(e[c], e[b])
      BY <1>1, LaterOctet
    <3>3. e[c][1] > e[a][1]
      BY <1>1
    <3>4. ~Precedes(e[c], e[a])
      BY <3>3, LaterOctet
    <3> QED
      BY <3>1, <3>2, <3>4
  <2>3. p[1] = a /\ p[2] = b /\ p[3] = c
    OBVIOUS
  <2>4. ASSUME NEW i \in 1..3, NEW j \in 1..3, i < j
        PROVE  ~Precedes(e[p[j]], e[p[i]])
    <3> HIDE DEF p
    <3>1. \/ i = 1 /\ j = 2
          \/ i = 1 /\ j = 3
          \/ i = 2 /\ j = 3
      BY <2>4
    <3> QED
      BY <3>1, <2>2, <2>3
  <2> HIDE DEF p
  <2> QED
    BY <2>1, <2>4
<1>2. \E a, b, c \in 1..3 : e[a][1] < e[b][1] /\ e[b][1] < e[c][1]
  <2>1. e[1][1] # e[2][1] /\ e[2][1] # e[3][1] /\ e[1][1] # e[3][1]
    OBVIOUS
  <2>2. e[1][1] \in Nat /\ e[2][1] \in Nat /\ e[3][1] \in Nat
    OBVIOUS
  <2>3. 1 \in 1..3 /\ 2 \in 1..3 /\ 3 \in 1..3
    OBVIOUS
  <2> QED
    BY <2>1, <2>2, <2>3
<1> QED
  BY <1>1, <1>2

\* Three attributes in order ascend in the first octets of their encodings.
LEMMA InAscendingOrder ==
  ASSUME NEW attributes, DOMAIN attributes = 1..3, NEW e,
         \A i \in 1..3 : 1 \in DOMAIN e[i] /\ DOMAIN e[i] \subseteq Nat \ {0} /\ e[i][1] \in Nat,
         \A i, j \in 1..3 : i # j => e[i][1] # e[j][1]
  PROVE  \E p \in Injection(1..3, 1..3) :
           /\ InOrderOf(attributes, e) = [i \in 1..3 |-> attributes[p[i]]]
           /\ \A i, j \in 1..3 : i < j => e[p[i]][1] < e[p[j]][1]
<1> DEFINE Sorts(p) == \A i, j \in 1..3 : i < j => ~Precedes(e[p[j]], e[p[i]])
<1> DEFINE order == CHOOSE p \in Injection(1..3, 1..3) : Sorts(p)
<1>1. \E p \in Injection(1..3, 1..3) : Sorts(p)
  BY OrderExists
<1>2. order \in Injection(1..3, 1..3) /\ Sorts(order)
  <2> HIDE DEF Sorts
  <2> QED
    BY <1>1
<1>3. InOrderOf(attributes, e) = [i \in 1..3 |-> attributes[order[i]]]
  BY DEF InOrderOf
<1> HIDE DEF order
<1>4. ASSUME NEW i \in 1..3, NEW j \in 1..3, i < j
      PROVE  e[order[i]][1] < e[order[j]][1]
  <2>1. order[i] \in 1..3 /\ order[j] \in 1..3 /\ order[i] # order[j]
    BY <1>2, <1>4 DEF Injection, IsInjective
  <2>2. /\ e[order[i]][1] \in Nat /\ e[order[j]][1] \in Nat /\ e[order[i]][1] # e[order[j]][1]
        /\ 1 \in DOMAIN e[order[j]]
    BY <2>1
  <2>3. ~Precedes(e[order[j]], e[order[i]])
    BY <1>2, <1>4
  <2>4. ~(e[order[j]][1] < e[order[i]][1])
    <3> SUFFICES ASSUME e[order[j]][1] < e[order[i]][1] PROVE FALSE
      OBVIOUS
    <3>1. \A k \in 1..1 - 1 : e[order[j]][k] = e[order[i]][k]
      OBVIOUS
    <3> QED
      BY <2>2, <2>3, <3>1 DEF Precedes
  <2> QED
    BY <2>2, <2>4
<1> QED
  BY <1>2, <1>3, <1>4

\* And attributes that ascend are in order.
LEMMA InOrderAlready ==
  ASSUME NEW attributes, attributes = [i \in 1..3 |-> attributes[i]], NEW e,
         \A i \in 1..3 : 1 \in DOMAIN e[i] /\ DOMAIN e[i] \subseteq Nat \ {0} /\ e[i][1] \in Nat,
         \A i, j \in 1..3 : i < j => e[i][1] < e[j][1]
  PROVE  InOrderOf(attributes, e) = attributes
<1>1. DOMAIN attributes = 1..3
  OBVIOUS
<1>2. \A i, j \in 1..3 : i # j => e[i][1] # e[j][1]
  <2> SUFFICES ASSUME NEW i \in 1..3, NEW j \in 1..3, i # j PROVE e[i][1] # e[j][1]
    OBVIOUS
  <2>1. e[i][1] < e[j][1] \/ e[j][1] < e[i][1]
    OBVIOUS
  <2>2. e[i][1] \in Nat /\ e[j][1] \in Nat
    OBVIOUS
  <2> QED
    BY <2>1, <2>2
<1>3. PICK p \in Injection(1..3, 1..3) :
        /\ InOrderOf(attributes, e) = [i \in 1..3 |-> attributes[p[i]]]
        /\ \A i, j \in 1..3 : i < j => e[p[i]][1] < e[p[j]][1]
  BY <1>1, <1>2, InAscendingOrder
<1>4. p \in [1..3 -> 1..3]
  BY DEF Injection
<1>5. ASSUME NEW i \in 1..3, NEW j \in 1..3, i < j
      PROVE  p[i] < p[j]
  <2>1. p[i] \in 1..3 /\ p[j] \in 1..3 /\ e[p[i]][1] < e[p[j]][1]
    BY <1>3, <1>4, <1>5
  <2>2. e[p[i]][1] \in Nat /\ e[p[j]][1] \in Nat
    BY <2>1
  <2>3. ~(p[j] < p[i]) /\ p[i] # p[j]
    <3>1. p[j] < p[i] => e[p[j]][1] < e[p[i]][1]
      BY <2>1
    <3> QED
      BY <2>1, <2>2, <3>1
  <2> QED
    BY <2>1, <2>3
<1>6. p[1] \in 1..3 /\ p[2] \in 1..3 /\ p[3] \in 1..3 /\ p[1] < p[2] /\ p[2] < p[3]
  BY <1>4, <1>5
<1>7. p[1] = 1 /\ p[2] = 2 /\ p[3] = 3
  BY <1>6
<1>8. \A i \in 1..3 : p[i] = i
  BY <1>7
<1> QED
  BY <1>3, <1>8

\* What the identifier of the content, the time and the digest are told apart by.
LEMMA Encodings ==
  ASSUME NEW digest, digest \in {"SHA256", "SHA384", "SHA512"}, NEW of
  PROVE  LET type == Attribute("contentType", <<"data">>)
             time == Attribute("signingTime", <<"now">>)
             hash == Attribute("messageDigest", Digest(digest, of))
         IN /\ ValueEncoding(type) = <<11, 6>> /\ ValueEncoding(time) = <<15, 23>>
            /\ ValueEncoding(hash) \in {<<34, 4>>, <<50, 4>>, <<66, 4>>}
<1> QED
  BY DEF ValueEncoding, Attribute, DigestSize, Digest

\* The encoding of a whole attribute starts with that of its value, and more.
LEMMA WholeEncoding ==
  ASSUME NEW a, NEW x \in Nat, NEW y \in Nat, ValueEncoding(a) = <<x, y>>
  PROVE  /\ 1 \in DOMAIN FullEncoding(a) /\ DOMAIN FullEncoding(a) \subseteq Nat \ {0}
         /\ FullEncoding(a)[1] = x + 13
<1>1. FullEncoding(a) = <<x + 13, Identifier[a.type]>> \o <<x, y>>
  BY DEF FullEncoding
<1> DEFINE S == {x + 13, Identifier[a.type], x, y}
<1>2. <<x + 13, Identifier[a.type]>> \in Seq(S) /\ <<x, y>> \in Seq(S)
  OBVIOUS
<1>3. FullEncoding(a) \in Seq(S) /\ Len(FullEncoding(a)) = 4
  BY <1>1, <1>2, ConcatProperties
<1>4. FullEncoding(a)[1] = <<x + 13, Identifier[a.type]>>[1]
  BY <1>1, <1>2, ConcatProperties
<1> HIDE DEF S
<1>5. DOMAIN FullEncoding(a) = 1..4
  BY <1>3
<1> QED
  BY <1>4, <1>5

\* The attribute of a type is found again in whatever order they are.
LEMMA ValueOfThree ==
  ASSUME NEW attributes, DOMAIN attributes = 1..3, NEW type, NEW k \in 1..3, NEW value,
         attributes[k] = Attribute(type, value),
         \A i \in 1..3 : i # k => attributes[i].type # type,
         NEW p \in Injection(1..3, 1..3)
  PROVE  OnlyValue([i \in 1..3 |-> attributes[p[i]]], type) = <<value>>
<1> DEFINE reordered == [i \in 1..3 |-> attributes[p[i]]]
           of == {i \in DOMAIN reordered : reordered[i].type = type}
<1>1. p \in [1..3 -> 1..3] /\ \A i, j \in 1..3 : p[i] = p[j] => i = j
  BY DEF Injection, IsInjective
<1>2. PICK at \in 1..3 : p[at] = k
  <2>1. p[1] \in 1..3 /\ p[2] \in 1..3 /\ p[3] \in 1..3
    BY <1>1
  <2>2. p[1] # p[2] /\ p[2] # p[3] /\ p[1] # p[3]
    BY <1>1
  <2>3. p[1] = k \/ p[2] = k \/ p[3] = k
    BY <2>1, <2>2
  <2> QED
    BY <2>3
<1>3. of = {at}
  <2>1. attributes[k].type = type
    BY DEF Attribute
  <2>2. \A i \in 1..3 : reordered[i].type = type <=> p[i] = k
    BY <1>1, <2>1
  <2>3. \A i \in 1..3 : p[i] = k <=> i = at
    BY <1>1, <1>2
  <2>4. DOMAIN reordered = 1..3
    OBVIOUS
  <2> HIDE DEF reordered
  <2> QED
    BY <2>2, <2>3, <2>4
<1>4. reordered[at] = Attribute(type, value)
  BY <1>2
<1>5. reordered[at].values = <<value>> /\ Len(reordered[at].values) = 1
  BY <1>4 DEF Attribute
<1>6. (CHOOSE i \in of : TRUE) = at
  BY <1>3
<1>7. \E i \in of : of = {i} /\ Len(reordered[i].values) = 1
  BY <1>3, <1>5
<1> QED
  BY <1>5, <1>6, <1>7 DEF OnlyValue

\* A signature of a content that names a certificate.
SignedBy(si, octets, certificate, key) ==
  /\ WellSigned(si, "data", octets) /\ si.signature.key = key
  /\ si.version = 1 /\ si.sid = [issuer |-> certificate.issuer, serial |-> certificate.serial]
  /\ \E digest \in DOMAIN DigestSize : si.signed = <<NewAttributes("data", octets, digest)>>

\* A signature is made as the standard asks for: what is verified in the order of
\* the message is what was signed in the order of a set.
LEMMA SignatureIsWell ==
  ASSUME NEW sd, NEW octets, sd.type = "data", sd.eContent = <<Whole(octets)>>,
         NEW certificate, NEW key
  PROVE  SignedBy(SignerInfo(sd, certificate, key), octets, certificate, key)
<1> DEFINE si == SignerInfo(sd, certificate, key)
           digest == DigestAlgorithmForPublicKey(EncodedKey(key))
           attributes == << Attribute("signingTime", <<"now">>),
                            Attribute("messageDigest", Digest(digest, octets)),
                            Attribute("contentType", <<"data">>) >>
           values == [i \in DOMAIN attributes |-> ValueEncoding(attributes[i])]
           sorted == NewAttributes("data", octets, digest)
           full == [i \in DOMAIN sorted |-> FullEncoding(sorted[i])]
<1>1. ContentValue(sd.eContent)[1] = octets
  BY DEF ContentValue, Whole
<1>2. digest \in {"SHA256", "SHA384", "SHA512"}
  BY DEF DigestAlgorithmForPublicKey
<1>3. /\ si.signature = [key |-> key, digest |-> Digest(digest, MarshaledForSigning(sorted))]
      /\ si.method = [algorithm |-> PublicKeyAlgorithm(key), digest |-> digest]
      /\ si.digest = digest /\ si.signed = <<sorted>> /\ si.version = 1
      /\ si.sid = [issuer |-> certificate.issuer, serial |-> certificate.serial]
  BY <1>1 DEF SignerInfo
<1>4. DOMAIN attributes = 1..3
  OBVIOUS
<1>5. /\ attributes[1] = Attribute("signingTime", <<"now">>)
      /\ attributes[2] = Attribute("messageDigest", Digest(digest, octets))
      /\ attributes[3] = Attribute("contentType", <<"data">>)
  OBVIOUS
<1> HIDE DEF attributes, digest, si
<1>6. PICK x, y : /\ ValueEncoding(attributes[1]) = <<15, 23>>
                  /\ ValueEncoding(attributes[2]) = <<x, y>> /\ x \in {34, 50, 66} /\ y = 4
                  /\ ValueEncoding(attributes[3]) = <<11, 6>>
  BY <1>2, <1>5, Encodings
<1> DEFINE first == <<15, x, 11>>
<1>7. \A i \in 1..3 : first[i] \in Nat /\ DOMAIN values[i] = 1..2 /\ values[i][1] = first[i]
  BY <1>4, <1>6
<1>8. first[1] # first[2] /\ first[2] # first[3] /\ first[1] # first[3]
  BY <1>6
<1>9. \A i, j \in 1..3 : i # j => first[i] # first[j]
  BY <1>8
<1> HIDE DEF first
<1>10. PICK p \in Injection(1..3, 1..3) :
         /\ sorted = [i \in 1..3 |-> attributes[p[i]]]
         /\ \A i, j \in 1..3 : i < j => values[p[i]][1] < values[p[j]][1]
  <2>1. /\ \A i \in 1..3 : /\ 1 \in DOMAIN values[i] /\ DOMAIN values[i] \subseteq Nat \ {0}
                           /\ values[i][1] \in Nat
        /\ \A i, j \in 1..3 : i # j => values[i][1] # values[j][1]
    BY <1>7, <1>9
  <2> HIDE DEF values
  <2>2. \E p \in Injection(1..3, 1..3) :
          /\ InOrderOf(attributes, values) = [i \in 1..3 |-> attributes[p[i]]]
          /\ \A i, j \in 1..3 : i < j => values[p[i]][1] < values[p[j]][1]
    BY <1>4, <2>1, InAscendingOrder
  <2>3. sorted = InOrderOf(attributes, values)
    BY DEF NewAttributes, SortAttributes, values, attributes
  <2> HIDE DEF sorted
  <2> QED
    BY <2>2, <2>3
<1>11. p \in [1..3 -> 1..3]
  BY DEF Injection
<1> HIDE DEF sorted
<1>12. ASSUME NEW i \in 1..3
       PROVE  /\ 1 \in DOMAIN full[i] /\ DOMAIN full[i] \subseteq Nat \ {0}
              /\ full[i][1] = values[p[i]][1] + 13 /\ values[p[i]][1] \in Nat
  <2>1. p[i] \in 1..3 /\ sorted[i] = attributes[p[i]] /\ full[i] = FullEncoding(attributes[p[i]])
    BY <1>10, <1>11
  <2>2. PICK a \in Nat, b \in Nat : ValueEncoding(attributes[p[i]]) = <<a, b>>
    BY <1>6, <2>1
  <2>3. values[p[i]] = <<a, b>>
    BY <1>4, <2>1, <2>2
  <2>4. /\ 1 \in DOMAIN FullEncoding(attributes[p[i]])
        /\ DOMAIN FullEncoding(attributes[p[i]]) \subseteq Nat \ {0}
        /\ FullEncoding(attributes[p[i]])[1] = a + 13
    BY <2>2, WholeEncoding
  <2> HIDE DEF full, values
  <2> QED
    BY <2>1, <2>3, <2>4
<1>13. InOrderOf(sorted, full) = sorted
  <2> HIDE DEF full, values
  <2>1. sorted = [i \in 1..3 |-> sorted[i]]
    BY <1>10
  <2>2. \A i \in 1..3 : /\ 1 \in DOMAIN full[i] /\ DOMAIN full[i] \subseteq Nat \ {0}
                        /\ full[i][1] \in Nat
    BY <1>12
  <2>3. ASSUME NEW i \in 1..3, NEW j \in 1..3, i < j PROVE full[i][1] < full[j][1]
    <3>1. values[p[i]][1] < values[p[j]][1]
      BY <1>10, <2>3
    <3>2. /\ full[i][1] = values[p[i]][1] + 13 /\ values[p[i]][1] \in Nat
          /\ full[j][1] = values[p[j]][1] + 13 /\ values[p[j]][1] \in Nat
      BY <1>12
    <3> QED
      BY <3>1, <3>2
  <2> QED
    BY <2>1, <2>2, <2>3, InOrderAlready
<1>14. MarshaledForSigning(sorted) = SetOctets(sorted)
  BY <1>13 DEF MarshaledForSigning
<1>15. /\ OnlyValue(sorted, "contentType") = << <<"data">> >>
       /\ OnlyValue(sorted, "messageDigest") = <<Digest(digest, octets)>>
  <2>1. /\ attributes[1].type = "signingTime" /\ attributes[2].type = "messageDigest"
        /\ attributes[3].type = "contentType"
    BY <1>5 DEF Attribute
  <2>2. /\ \A i \in 1..3 : i # 3 => attributes[i].type # "contentType"
        /\ \A i \in 1..3 : i # 2 => attributes[i].type # "messageDigest"
    BY <2>1
  <2>3. OnlyValue([i \in 1..3 |-> attributes[p[i]]], "contentType") = << <<"data">> >>
    BY <1>4, <1>5, <2>2, ValueOfThree
  <2>4. OnlyValue([i \in 1..3 |-> attributes[p[i]]], "messageDigest") = <<Digest(digest, octets)>>
    BY <1>4, <1>5, <2>2, ValueOfThree
  <2> QED
    BY <1>10, <2>3, <2>4
<1>16. WellSigned(si, "data", octets)
  <2>1. SignedPart(si, octets) = SetOctets(sorted) /\ si.signed # <<>> /\ si.signed[1] = sorted
    BY <1>3 DEF SignedPart
  <2>2. si.signature = [key |-> si.signature.key,
                        digest |-> Digest(si.method.digest, SignedPart(si, octets))]
    BY <1>3, <1>14, <2>1
  <2>3. si.method.algorithm = PublicKeyAlgorithm(si.signature.key)
    BY <1>3
  <2> QED
    BY <1>3, <1>15, <2>1, <2>2, <2>3 DEF WellSigned
<1>17. digest \in DOMAIN DigestSize
  BY <1>2 DEF DigestSize
<1>18. si.signed = <<NewAttributes("data", octets, digest)>>
  BY <1>3 DEF sorted
<1> QED
  BY <1>3, <1>16, <1>17, <1>18 DEF si, SignedBy

\* A signature of a content: as it is, or by its digest among attributes.
Faithful(signature) ==
  \/ signature.octets = signature.content
  \/ \E attributes \in AttributeLists :
       /\ signature.octets = SetOctets(attributes)
       /\ \E digest : OnlyValue(attributes, "messageDigest") = <<Digest(digest, signature.content)>>

\* The attributes are some of those there are.
KnownAttributes(si) == si.signed # <<>> => si.signed[1] \in AttributeLists

\* What was signed in the way of the standard.
LEMMA WellSignedIsFaithful ==
  ASSUME NEW si, NEW type, NEW octets, WellSigned(si, type, octets), KnownAttributes(si)
  PROVE  LET given == Signature(si, octets)
         IN /\ Faithful(given) /\ given.key = si.signature.key
            /\ given.octets = si.signature.digest[2]
<1> DEFINE part == SignedPart(si, octets)
           signature == Signature(si, octets)
<1>1. /\ si.signature = [key |-> si.signature.key, digest |-> Digest(si.method.digest, part)]
      /\ si.signed # <<>> =>
           OnlyValue(si.signed[1], "messageDigest") = <<Digest(si.digest, octets)>>
  BY DEF WellSigned
<1>2. si.signed = <<>> => part = octets
  BY DEF SignedPart
<1>3. si.signed # <<>> => part = SetOctets(si.signed[1]) /\ si.signed[1] \in AttributeLists
  BY DEF SignedPart, KnownAttributes
<1>4. signature = [key |-> si.signature.key, content |-> octets, octets |-> part]
  BY DEF Signature
<1> HIDE DEF part, signature
<1>5. si.signature.digest = Digest(si.method.digest, part)
  BY <1>1
<1>6. si.signature.digest[2] = part
  BY <1>5 DEF Digest
<1>7. signature.key = si.signature.key /\ signature.content = octets /\ signature.octets = part
  BY <1>4
<1>8. Faithful(signature)
  BY <1>1, <1>2, <1>3, <1>7 DEF Faithful
<1> QED
  BY <1>6, <1>7, <1>8 DEF signature

\* A signature that was just made has no stamp and is of the content.
LEMMA SignatureMade ==
  ASSUME NEW sd, NEW octets \in Messages, sd.type = "data", sd.eContent = <<Whole(octets)>>,
         NEW certificate, NEW key
  PROVE  LET si == SignerInfo(sd, certificate, key)
         IN /\ SignatureFields \subseteq DOMAIN si
            /\ si.unsigned = <<>> /\ si.signature.key = key
            /\ KnownAttributes(si) /\ WellSigned(si, "data", octets)
<1> DEFINE si == SignerInfo(sd, certificate, key)
<1>1. SignatureFields \subseteq DOMAIN si /\ si.unsigned = <<>>
  BY DEF SignerInfo, SignatureFields
<1> HIDE DEF si
<1>2. SignedBy(si, octets, certificate, key)
  BY SignatureIsWell DEF si
<1>3. /\ WellSigned(si, "data", octets) /\ si.signature.key = key
      /\ \E digest \in DOMAIN DigestSize : si.signed = <<NewAttributes("data", octets, digest)>>
  BY <1>2 DEF SignedBy
<1>4. KnownAttributes(si)
  <2>1. PICK digest \in DOMAIN DigestSize : si.signed = <<NewAttributes("data", octets, digest)>>
    BY <1>3
  <2>2. NewAttributes("data", octets, digest) \in AttributeLists
    BY DEF AttributeLists
  <2> QED
    BY <2>1, <2>2 DEF KnownAttributes
<1> QED
  BY <1>1, <1>3, <1>4 DEF si

-----------------------------------------------------------------------------
(* The certificates.                                                       *)

LEMMA CertificatesAdded ==
  ASSUME NEW S, NEW certificates \in Seq(S), NEW chain \in Seq(S)
  PROVE  AddCertificates(certificates, chain) \in Seq(S)
<1> DEFINE Sequences == Seq(S)
           m == Len(chain)
           step == [n \in 1..m |-> [cs \in Sequences |-> AddCertificate(cs, chain[n])]]
           Added(f) == f = [n \in 0..m |-> IF n = 0 THEN certificates
                                           ELSE AddCertificate(f[n - 1], chain[n])]
<1>1. m \in Nat /\ \A n \in 1..m : chain[n] \in S
  OBVIOUS
<1>2. ASSUME NEW cs \in Sequences, NEW n \in 1..m
      PROVE  AddCertificate(cs, chain[n]) \in Sequences
  BY <1>1 DEF AddCertificate
<1> HIDE DEF Sequences, m
<1>3. step \in [1..m -> [Sequences -> Sequences]]
  <2>1. \A n \in 1..m : [cs \in Sequences |-> AddCertificate(cs, chain[n])] \in [Sequences -> Sequences]
    BY <1>2
  <2> QED
    BY <2>1
<1>4. certificates \in Sequences
  BY DEF Sequences
<1>5. PICK f \in [0..m -> Sequences] : Follows(f, certificates, m, step)
  <2>1. Stepwise(Sequences, certificates, m, step)
    BY <1>1, <1>3, <1>4 DEF Stepwise
  <2> HIDE DEF step
  <2> QED
    BY <2>1, Recursion
<1>6. Added(f)
  <2>1. ASSUME NEW n \in 0..m, n # 0
        PROVE  step[n][f[n - 1]] = AddCertificate(f[n - 1], chain[n])
    <3>1. n \in 1..m /\ n - 1 \in 0..m
      BY <1>1, <2>1
    <3>2. f[n - 1] \in Sequences
      BY <3>1
    <3> QED
      BY <3>1, <3>2
  <2>2. f = [n \in 0..m |-> IF n = 0 THEN certificates ELSE step[n][f[n - 1]]]
    BY <1>5 DEF Follows
  <2> HIDE DEF step
  <2>3. [n \in 0..m |-> IF n = 0 THEN certificates ELSE step[n][f[n - 1]]]
          = [n \in 0..m |-> IF n = 0 THEN certificates ELSE AddCertificate(f[n - 1], chain[n])]
    BY <2>1
  <2> QED
    BY <2>2, <2>3
<1> DEFINE added == CHOOSE f_1 : Added(f_1)
<1>7. Added(added)
  <2> HIDE DEF Added
  <2> QED
    BY <1>6, Zenon
<1>8. AddCertificates(certificates, chain) = added[m]
  BY Zenon DEF AddCertificates, m
<1> HIDE DEF added
<1>9. \A n \in 0..m : added[n] = IF n = 0 THEN certificates ELSE AddCertificate(added[n - 1], chain[n])
  BY <1>7
<1> DEFINE T == {n \in Nat : n <= m => added[n] \in Sequences}
<1>10. 0 \in T
  BY <1>1, <1>4, <1>9
<1>11. ASSUME NEW n \in Nat, n \in T PROVE n + 1 \in T
  <2> SUFFICES ASSUME n + 1 <= m PROVE added[n + 1] \in Sequences
    OBVIOUS
  <2>1. n + 1 \in 0..m /\ n + 1 \in 1..m /\ n + 1 # 0 /\ (n + 1) - 1 = n /\ n <= m
    BY <1>1
  <2>2. added[n] \in Sequences
    BY <1>11, <2>1
  <2>3. added[n + 1] = AddCertificate(added[n], chain[n + 1])
    BY <1>9, <2>1
  <2> QED
    BY <1>2, <2>1, <2>2, <2>3
<1> HIDE DEF T
<1>12. m \in T
  BY <1>1, <1>10, <1>11, SetInduction
<1>13. added[m] \in Sequences
  BY <1>1, <1>12 DEF T
<1> QED
  BY <1>8, <1>13 DEF Sequences

\* A signer's certificate is one of those that are searched, if there is one.
LEMMA CertificateFound ==
  ASSUME NEW si, NEW S, NEW certificates \in Seq(S), FindCertificate(si, certificates) # <<>>
  PROVE  \E i \in DOMAIN certificates :
           /\ Identifies(si, certificates[i])
           /\ FindCertificate(si, certificates) = <<certificates[i]>>
<1> DEFINE found == {i \in DOMAIN certificates : Identifies(si, certificates[i])}
           first == CHOOSE i \in found : \A j \in found : i <= j
<1>1. FindCertificate(si, certificates) = IF found = {} THEN <<>> ELSE <<certificates[first]>>
  BY DEF FindCertificate
<1>2. found # {}
  BY <1>1
<1>3. found \in SUBSET Nat
  OBVIOUS
<1> HIDE DEF found
<1>4. first \in found
  <2>1. \E i \in found : \A j \in found : i <= j
    BY <1>2, <1>3, LeastElement
  <2> QED
    BY <2>1
<1> HIDE DEF first
<1> QED
  BY <1>1, <1>2, <1>4 DEF found

\* The last certificate of a key is one of the key.
LEMMA CertificateOfKey ==
  ASSUME NEW S, NEW chain \in Seq(S), NEW key, NEW some \in CertificatesFor(chain, key)
  PROVE  LET own == CertificatesFor(chain, key)
             last == CHOOSE i \in own : \A j \in own : j <= i
         IN chain[last] \in S /\ chain[last].key = key
<1> DEFINE own == CertificatesFor(chain, key)
           last == CHOOSE i \in own : \A j \in own : j <= i
<1>1. own \in SUBSET (0..Len(chain)) /\ Len(chain) \in Nat
  BY DEF CertificatesFor
<1>2. \A i \in own : chain[i] \in S /\ chain[i].key = key
  BY DEF CertificatesFor
<1> HIDE DEF own
<1>3. last \in own
  <2>1. own # {}
    BY DEF own
  <2>2. \E i \in own : \A j \in own : j <= i
    BY <1>1, <2>1, GreatestElement
  <2> QED
    BY <2>2
<1> HIDE DEF last
<1>4. chain[last] \in S /\ chain[last].key = key
  BY <1>2, <1>3
<1> QED
  BY <1>4 DEF own, last

-----------------------------------------------------------------------------
(* The inductive invariant.                                                *)

\* The message belongs to the program.
Ours == {"build", "stamp"}

Fields(sd) ==
  /\ {"type", "eContent", "certificates", "digests", "signers"} \subseteq DOMAIN sd
  /\ \A i \in DOMAIN sd.signers :
       SignatureFields \subseteq DOMAIN sd.signers[i]

\* As long as it is built, the message has the content it was made for, or none.
Built ==
  stage \in Ours =>
    /\ IsSequence(message.signers)
    /\ message.type = "data" /\ content \in Messages
    /\ message.eContent \in {<<>>, <<Whole(content)>>}

\* The token is a stamp of a signature, and its nonce was used for that signature.
IsStampOf(token, i) ==
  /\ token.imprint = Digest(message.signers[i].digest, message.signers[i].signature)
  /\ token.nonce # 0 => token.nonce \in DOMAIN asked /\ asked[token.nonce] = i

\* A signature has no stamp, or one of its own.
Stamps ==
  stage \in Ours =>
    \A i \in DOMAIN message.signers :
      LET unsigned == message.signers[i].unsigned
      IN \/ unsigned = <<>>
         \/ \E token : unsigned = <<Attribute("timeStampToken", token)>> /\ IsStampOf(token, i)

\* All of them have one, or none has; and none has while stamps are fetched.
Together ==
  /\ stage = "build" =>
       \/ \A i \in DOMAIN message.signers : message.signers[i].unsigned = <<>>
       \/ \A i \in DOMAIN message.signers : message.signers[i].unsigned # <<>>
  /\ stage = "stamp" => \A i \in DOMAIN message.signers : message.signers[i].unsigned = <<>>

\* The stamps that have arrived are those of the first signatures, and the one that
\* is asked for is that of the next.
Fetched ==
  /\ asked \in Seq(Nat)
  /\ stage # "stamp" => request = <<>>
  /\ stage = "stamp" =>
       /\ IsSequence(tokens) /\ Len(tokens) <= Len(message.signers)
       /\ \A i \in DOMAIN tokens : IsStampOf(tokens[i], i)
       /\ request # <<>> =>
            /\ Len(tokens) < Len(message.signers)
            /\ \E nonce : LET next == TimestampRequestFor(message.signers[Len(tokens) + 1], nonce)
                          IN request = <<next>> /\ IsStampOf(next, Len(tokens) + 1)

\* What keys have signed was a content or attributes, and each signature of the
\* message is one that its key has made, whatever its attributes are now.
IsMade(si) ==
  \E signature \in made :
    signature.key = si.signature.key /\ signature.octets = si.signature.digest[2]
Covers ==
  /\ \A signature \in made : Faithful(signature)
  /\ \A i \in DOMAIN message.signers :
       KnownAttributes(message.signers[i]) /\ IsMade(message.signers[i])

IInv ==
  /\ stage \in Ours \cup {"closed", "sent", "read"}
  /\ Fields(message) /\ Built /\ Stamps /\ Together /\ Fetched /\ Covers
  /\ IF stage = "read" THEN AcceptedWasMade ELSE report = NoReport

-----------------------------------------------------------------------------
(* Building the message.                                                   *)

LEMMA LastOf ==
  ASSUME NEW s, IsSequence(s), NEW x
  PROVE  /\ IsSequence(Append(s, x)) /\ Len(s) \in Nat /\ DOMAIN s = 1..Len(s)
         /\ Len(Append(s, x)) = Len(s) + 1 /\ DOMAIN Append(s, x) = 1..Len(s) + 1
         /\ Append(s, x)[Len(s) + 1] = x
         /\ \A i \in 1..Len(s) : Append(s, x)[i] = s[i]
<1>1. PICK S : s \in Seq(S)
  BY DEF IsSequence
<1>2. s \in Seq(S \cup {x}) /\ x \in S \cup {x}
  BY <1>1
<1>3. Append(s, x) \in Seq(S \cup {x})
  BY <1>2, AppendProperties
<1>4. /\ Len(Append(s, x)) = Len(s) + 1 /\ Append(s, x)[Len(s) + 1] = x
      /\ \A i \in 1..Len(s) : Append(s, x)[i] = s[i]
  BY <1>2, AppendProperties
<1> QED
  BY <1>1, <1>3, <1>4 DEF IsSequence

\* Signing adds one signature at the end, or none.
LEMMA SignatureAdded ==
  ASSUME NEW sd, Fields(sd), IsSequence(sd.signers), sd.type = "data",
         NEW octets \in Messages, sd.eContent \in {<<>>, <<Whole(octets)>>}, NEW chain, NEW key
  PROVE  LET result == AddSignerInfo(sd, chain, key)
         IN /\ DOMAIN result.sd = DOMAIN sd
            /\ result.sd.type = sd.type /\ result.sd.eContent = sd.eContent
            /\ result.error # "none" => result.sd.signers = sd.signers
            /\ result.error = "none" =>
                 \E si : /\ result.sd.signers = Append(sd.signers, si)
                         /\ SignatureFields \subseteq DOMAIN si
                         /\ si.unsigned = <<>> /\ si.signature.key = key
                         /\ KnownAttributes(si) /\ WellSigned(si, "data", octets)
<1> DEFINE result == AddSignerInfo(sd, chain, key)
           complete == [sd EXCEPT !.certificates = AddCertificates(@, chain)]
           own == CertificatesFor(chain, key)
           certificate == chain[CHOOSE i \in own : \A j \in own : j <= i]
<1>1. /\ DOMAIN complete = DOMAIN sd
      /\ complete.type = sd.type /\ complete.eContent = sd.eContent
      /\ complete.signers = sd.signers
  BY DEF Fields
<1>2. \/ result.sd = complete /\ result.error # "none"
      \/ /\ result.error = "none" /\ ContentValue(sd.eContent) # <<>>
         /\ LET si == SignerInfo(sd, certificate, key)
            IN result.sd = [complete EXCEPT !.digests = @ \cup {si.digest},
                                            !.signers = Append(@, si)]
  BY DEF AddSignerInfo
<1> HIDE DEF result, complete, certificate
<1>3. CASE result.sd = complete /\ result.error # "none"
  BY <1>1, <1>3 DEF result
<1>4. CASE /\ result.error = "none" /\ ContentValue(sd.eContent) # <<>>
           /\ LET si == SignerInfo(sd, certificate, key)
              IN result.sd = [complete EXCEPT !.digests = @ \cup {si.digest},
                                              !.signers = Append(@, si)]
  <2> DEFINE si == SignerInfo(sd, certificate, key)
  <2>1. sd.eContent = <<Whole(octets)>>
    BY <1>4 DEF ContentValue
  <2>2. /\ SignatureFields \subseteq DOMAIN si
        /\ si.unsigned = <<>> /\ si.signature.key = key
        /\ KnownAttributes(si) /\ WellSigned(si, "data", octets)
    BY <2>1, SignatureMade
  <2>3. result.sd = [complete EXCEPT !.digests = @ \cup {si.digest}, !.signers = Append(@, si)]
    BY <1>4
  <2> HIDE DEF si
  <2>4. /\ DOMAIN result.sd = DOMAIN complete
        /\ result.sd.type = complete.type /\ result.sd.eContent = complete.eContent
        /\ result.sd.signers = Append(complete.signers, si)
    BY <1>1, <2>3 DEF Fields
  <2> QED
    BY <1>1, <1>4, <2>2, <2>4 DEF result
<1> QED
  BY <1>2, <1>3, <1>4

\* Without a time stamp is without any attribute.
LEMMA BareMeans ==
  ASSUME Stamps, stage \in Ours
  PROVE  Bare(message) <=> \A i \in DOMAIN message.signers : message.signers[i].unsigned = <<>>
<1>1. ASSUME NEW i \in DOMAIN message.signers
      PROVE  HasTimestamp(message.signers[i]) <=> message.signers[i].unsigned # <<>>
  <2> DEFINE unsigned == message.signers[i].unsigned
  <2>1. CASE unsigned = <<>>
    BY <2>1 DEF HasTimestamp
  <2>2. CASE unsigned # <<>>
    <3>1. PICK token : unsigned = <<Attribute("timeStampToken", token)>>
      BY <1>1, <2>2 DEF Stamps
    <3>2. 1 \in DOMAIN unsigned /\ unsigned[1].type = "timeStampToken"
      BY <3>1 DEF Attribute
    <3> QED
      BY <3>2, <2>2 DEF HasTimestamp
  <2> QED
    BY <2>1, <2>2
<1> QED
  BY <1>1 DEF Bare

LEMMA InitHolds ==
  ASSUME Init
  PROVE  IInv
<1>1. CASE stage = "build" /\ content \in Messages /\ message = NewSignedData("data", content)
           /\ made = {}
  <2>1. /\ message.signers = <<>> /\ message.type = "data"
        /\ message.eContent = <<Whole(content)>>
        /\ {"type", "eContent", "certificates", "digests", "signers"} \subseteq DOMAIN message
    BY <1>1 DEF NewSignedData
  <2>2. IsSequence(message.signers) /\ DOMAIN message.signers = {}
    <3>1. <<>> \in Seq({})
      OBVIOUS
    <3> QED
      BY <2>1, <3>1 DEF IsSequence
  <2>3. asked \in Seq(Nat) /\ request = <<>> /\ report = NoReport
    BY DEF Init
  <2> QED
    BY <1>1, <2>1, <2>2, <2>3
       DEF IInv, Ours, Fields, Built, Stamps, Together, Fetched, Covers
<1>2. CASE /\ stage = "closed"
           /\ \E other \in Others :
                /\ message = other.message
                /\ content = other.content
                /\ made = {Signature(si, content) : si \in ToSet(message.signers)}
  <2>1. PICK other \in Others : /\ message = other.message
                                /\ content = other.content
                                /\ made = {Signature(si, content) : si \in ToSet(message.signers)}
    BY <1>2
  <2>2. Fields(message)
    BY <2>1, OthersAssumption DEF Fields
  <2>3. Covers
    <3>1. ASSUME NEW i \in DOMAIN message.signers
          PROVE  LET signature == Signature(message.signers[i], content)
                 IN /\ Faithful(signature) /\ signature.key = message.signers[i].signature.key
                    /\ signature.octets = message.signers[i].signature.digest[2]
                    /\ KnownAttributes(message.signers[i]) /\ signature \in made
      <4>1. WellSigned(message.signers[i], message.type, content)
        BY <2>1, OthersAssumption
      <4>2. message.signers[i] \in ToSet(message.signers)
        BY DEF ToSet
      <4>3. KnownAttributes(message.signers[i])
        BY <2>1, <4>2 DEF KnownAttributes, AttributeLists, OthersAttributes
      <4> QED
        BY <2>1, <4>1, <4>2, <4>3, WellSignedIsFaithful
    <3>2. ASSUME NEW signature \in made
          PROVE  Faithful(signature)
      <4>1. PICK i \in DOMAIN message.signers : signature = Signature(message.signers[i], content)
        BY <2>1 DEF ToSet
      <4> QED
        BY <3>1, <4>1
    <3> QED
      BY <3>1, <3>2 DEF Covers, IsMade
  <2>4. asked \in Seq(Nat) /\ request = <<>> /\ report = NoReport
    BY DEF Init
  <2> QED
    BY <1>2, <2>2, <2>3, <2>4 DEF IInv, Ours, Built, Stamps, Together, Fetched
<1> QED
  BY <1>1, <1>2 DEF Init

LEMMA SignStep ==
  ASSUME IInv, Sign
  PROVE  IInv'
<1>1. PICK identity \in Identities :
        LET result == AddSignerInfo(message, identity.chain, identity.key)
        IN /\ message' = result.sd
           /\ made' = IF result.error = "none"
                      THEN made \cup {Signature(Last(result.sd.signers), content)} ELSE made
  BY DEF Sign
<1> DEFINE result == AddSignerInfo(message, identity.chain, identity.key)
<1>2. /\ stage = "build" /\ stage' = stage /\ content' = content /\ tokens' = tokens
      /\ request' = request /\ asked' = asked /\ report' = report /\ Bare(message)
  BY DEF Sign
<1>3. /\ Fields(message) /\ IsSequence(message.signers) /\ message.type = "data"
      /\ message.eContent \in {<<>>, <<Whole(content)>>} /\ content \in Messages
  BY <1>2 DEF IInv, Built, Ours
<1>4. \A i \in DOMAIN message.signers : message.signers[i].unsigned = <<>>
  BY <1>2, BareMeans DEF IInv, Ours
<1>5. /\ DOMAIN result.sd = DOMAIN message
      /\ result.sd.type = "data" /\ result.sd.eContent = message.eContent
      /\ result.error # "none" => result.sd.signers = message.signers
      /\ result.error = "none" =>
           \E si : /\ result.sd.signers = Append(message.signers, si)
                   /\ SignatureFields \subseteq DOMAIN si
                   /\ si.unsigned = <<>> /\ si.signature.key = identity.key
                   /\ KnownAttributes(si) /\ WellSigned(si, "data", content)
  BY <1>3, SignatureAdded
<1> HIDE DEF result
<1>6. /\ message' = result.sd
      /\ made' = IF result.error = "none"
                 THEN made \cup {Signature(Last(result.sd.signers), content)} ELSE made
  BY <1>1 DEF result
<1>7. /\ IsSequence(message'.signers)
      /\ \A i \in DOMAIN message'.signers :
           /\ SignatureFields \subseteq DOMAIN message'.signers[i]
           /\ message'.signers[i].unsigned = <<>>
           /\ KnownAttributes(message'.signers[i]) /\ IsMade(message.signers[i])'
      /\ \A signature \in made' : Faithful(signature)
  <2>1. CASE result.error # "none"
    BY <1>3, <1>4, <1>5, <1>6, <2>1 DEF IInv, Fields, Covers, IsMade
  <2>2. CASE result.error = "none"
    <3>1. PICK si : /\ message'.signers = Append(message.signers, si)
                    /\ SignatureFields \subseteq DOMAIN si
                    /\ si.unsigned = <<>> /\ si.signature.key = identity.key
                    /\ KnownAttributes(si) /\ WellSigned(si, "data", content)
      BY <1>5, <1>6, <2>2
    <3>2. Last(message'.signers) = si
      <4>1. /\ Len(message'.signers) = Len(message.signers) + 1
            /\ message'.signers[Len(message.signers) + 1] = si
        BY <1>3, <3>1, LastOf
      <4> QED
        BY <4>1 DEF Last
    <3>3. made' = made \cup {Signature(si, content)}
      BY <1>6, <2>2, <3>2
    <3>4. /\ Faithful(Signature(si, content))
          /\ Signature(si, content).key = si.signature.key
          /\ Signature(si, content).octets = si.signature.digest[2]
      BY <3>1, WellSignedIsFaithful
    <3>5. /\ IsSequence(message'.signers)
          /\ DOMAIN message.signers = 1..Len(message.signers) /\ Len(message.signers) \in Nat
          /\ DOMAIN message'.signers = 1..Len(message.signers) + 1
          /\ message'.signers[Len(message.signers) + 1] = si
          /\ \A i \in 1..Len(message.signers) : message'.signers[i] = message.signers[i]
      BY <1>3, <3>1, LastOf
    <3>6. ASSUME NEW i \in DOMAIN message'.signers
          PROVE  /\ SignatureFields \subseteq DOMAIN message'.signers[i]
                 /\ message'.signers[i].unsigned = <<>>
                 /\ KnownAttributes(message'.signers[i]) /\ IsMade(message.signers[i])'
      <4>1. CASE message'.signers[i] = si
        BY <3>1, <3>3, <3>4, <4>1 DEF IsMade
      <4>2. CASE i \in DOMAIN message.signers /\ message'.signers[i] = message.signers[i]
        BY <1>3, <1>4, <3>3, <4>2 DEF IInv, Fields, Covers, IsMade
      <4> QED
        BY <3>5, <4>1, <4>2
    <3>7. \A signature \in made' : Faithful(signature)
      BY <3>3, <3>4 DEF IInv, Covers
    <3> QED
      BY <3>5, <3>6, <3>7
  <2> QED
    BY <2>1, <2>2
<1>8. Fields(message)'
  BY <1>3, <1>5, <1>6, <1>7 DEF Fields
<1>9. Built'
  BY <1>2, <1>3, <1>5, <1>6, <1>7 DEF Built
<1>10. Stamps' /\ Together' /\ Covers'
  BY <1>2, <1>7 DEF Stamps, Together, Covers
<1>11. Fetched'
  BY <1>2 DEF IInv, Fetched
<1> QED
  BY <1>2, <1>8, <1>9, <1>10, <1>11 DEF IInv

\* The signatures stay and the content goes, or may go.
LEMMA SameSignatures ==
  ASSUME IInv, DOMAIN message' = DOMAIN message, message'.signers = message.signers,
         UNCHANGED <<request, asked, made>>
  PROVE  /\ Fields(message)' /\ Covers'
         /\ stage \in Ours => \A i \in DOMAIN message'.signers :
              LET unsigned == message'.signers[i].unsigned
              IN \/ unsigned = <<>>
                 \/ \E token : unsigned = <<Attribute("timeStampToken", token)>> /\ IsStampOf(token, i)'
<1>1. Fields(message)' /\ Covers'
  BY DEF IInv, Fields, Covers, IsMade
<1>2. \A token, i : IsStampOf(token, i) => IsStampOf(token, i)'
  BY DEF IsStampOf
<1> QED
  BY <1>1, <1>2 DEF IInv, Stamps

LEMMA DetachStep ==
  ASSUME IInv, Detach
  PROVE  IInv'
<1>1. /\ stage = "build" /\ stage' = stage /\ message' = Detached(message)
      /\ UNCHANGED <<content, tokens, request, asked, made, report>>
  BY DEF Detach
<1>2. /\ DOMAIN message' = DOMAIN message /\ message'.signers = message.signers
      /\ message'.type = message.type /\ message'.eContent = <<>>
  BY <1>1 DEF Detached, IInv, Fields
<1>3. Fields(message)' /\ Covers' /\ Stamps'
  BY <1>1, <1>2, SameSignatures DEF Ours, Stamps
<1>4. Built' /\ Together' /\ Fetched'
  BY <1>1, <1>2 DEF IInv, Built, Together, Fetched
<1> QED
  BY <1>1, <1>3, <1>4 DEF IInv

-----------------------------------------------------------------------------
(* Stamping the message.                                                   *)

LEMMA StartStep ==
  ASSUME IInv, StartStamping
  PROVE  IInv'
<1>1. /\ stage = "build" /\ stage' = "stamp" /\ tokens' = <<>> /\ Bare(message)
      /\ UNCHANGED <<message, content, request, asked, made, report>>
  BY DEF StartStamping
<1>2. \A i \in DOMAIN message.signers : message.signers[i].unsigned = <<>>
  BY <1>1, BareMeans DEF IInv, Ours
<1>3. request = <<>> /\ asked \in Seq(Nat)
  BY <1>1 DEF IInv, Fetched
<1>4. IsSequence(tokens') /\ Len(tokens') = 0 /\ DOMAIN tokens' = {}
  <2>1. <<>> \in Seq({})
    OBVIOUS
  <2> QED
    BY <1>1, <2>1 DEF IsSequence
<1>5. Len(message.signers) \in Nat
  <2>1. IsSequence(message.signers)
    BY <1>1 DEF IInv, Built, Ours
  <2> QED
    BY <2>1, LenProperties DEF IsSequence
<1>6. Fetched'
  BY <1>1, <1>3, <1>4, <1>5 DEF Fetched
<1>7. Fields(message)' /\ Built' /\ Stamps' /\ Together' /\ Covers'
  BY <1>1, <1>2 DEF IInv, Ours, Fields, Built, Stamps, Together, Covers, IsMade
<1> QED
  BY <1>1, <1>6, <1>7 DEF IInv, Ours

LEMMA AskStep ==
  ASSUME IInv, Ask
  PROVE  IInv'
<1>0. PICK at : at = Len(tokens) + 1
  OBVIOUS
<1>1. /\ stage = "stamp" /\ stage' = stage /\ request = <<>>
      /\ Len(tokens) < Len(message.signers) /\ asked' = Append(asked, at)
      /\ UNCHANGED <<message, content, tokens, made, report>>
  BY <1>0 DEF Ask
<1>2. PICK nonce \in Nonce(Len(asked) + 1) :
        request' = <<TimestampRequestFor(message.signers[at], nonce)>>
  BY <1>0 DEF Ask
<1>3. /\ asked \in Seq(Nat) /\ IsSequence(tokens) /\ Len(tokens) \in Nat
      /\ \A i \in DOMAIN tokens : IsStampOf(tokens[i], i)
  <2>1. asked \in Seq(Nat) /\ IsSequence(tokens)
    BY <1>1 DEF IInv, Fetched
  <2> QED
    BY <1>1, <2>1, LastOf DEF IInv, Fetched
<1>4. /\ asked' \in Seq(Nat) /\ DOMAIN asked = 1..Len(asked) /\ Len(asked) \in Nat
      /\ DOMAIN asked' = 1..Len(asked) + 1 /\ asked'[Len(asked) + 1] = at
      /\ \A n \in 1..Len(asked) : asked'[n] = asked[n]
  <2>1. asked' \in Seq(Nat)
    BY <1>0, <1>1, <1>3
  <2>2. IsSequence(asked)
    BY <1>3 DEF IsSequence
  <2> QED
    BY <1>1, <2>1, <2>2, LastOf
<1>5. ASSUME NEW token, NEW i, IsStampOf(token, i)
      PROVE  IsStampOf(token, i)'
  BY <1>1, <1>4, <1>5 DEF IsStampOf
<1>6. PICK next : next = TimestampRequestFor(message.signers[at], nonce)
  OBVIOUS
<1>7. IsStampOf(next, at)'
  <2>1. /\ next.imprint = Digest(message.signers[at].digest, message.signers[at].signature)
        /\ next.nonce = nonce
    BY <1>6 DEF TimestampRequestFor
  <2>2. nonce # 0 => nonce = Len(asked) + 1
    BY DEF Nonce
  <2>3. next.nonce # 0 => next.nonce \in DOMAIN asked' /\ asked'[next.nonce] = at
    BY <1>4, <2>1, <2>2
  <2>4. message' = message
    BY <1>1
  <2> QED
    BY <2>1, <2>3, <2>4 DEF IsStampOf
<1>8. Fetched'
  <2>1. \A i \in DOMAIN tokens' : IsStampOf(tokens[i], i)'
    BY <1>1, <1>3, <1>5
  <2>2. message' = message /\ request' = <<next>>
    BY <1>1, <1>2, <1>6
  <2>3. /\ IsSequence(tokens') /\ Len(tokens') <= Len(message'.signers)
        /\ Len(tokens') < Len(message'.signers)
    BY <1>1, <1>3 DEF IInv, Fetched
  <2>4. tokens' = tokens /\ stage' = "stamp" /\ at = Len(tokens') + 1
    BY <1>0, <1>1
  <2> QED
    BY <1>4, <1>6, <1>7, <2>1, <2>2, <2>3, <2>4 DEF Fetched
<1>9. Fields(message)' /\ Built' /\ Together' /\ Covers'
  BY <1>1 DEF IInv, Fields, Built, Together, Covers, IsMade
<1>10. Stamps'
  BY <1>1, <1>5 DEF IInv, Stamps
<1> QED
  BY <1>1, <1>8, <1>9, <1>10 DEF IInv

LEMMA ReceiveStep ==
  ASSUME IInv, Receive
  PROVE  IInv'
<1> DEFINE at == Len(tokens) + 1
<1>1. /\ stage = "stamp" /\ request # <<>> /\ request' = <<>>
      /\ UNCHANGED <<message, content, asked, made, report>>
  BY DEF Receive
<1>2. PICK response :
        IF IsFetched(request[1], response)
        THEN stage' = stage /\ tokens' = Append(tokens, response.token[1])
        ELSE stage' = "build" /\ tokens' = <<>>
  BY DEF Receive
<1>3. \A token, i : IsStampOf(token, i) => IsStampOf(token, i)'
  BY <1>1 DEF IsStampOf
<1>4. Fields(message)' /\ Covers' /\ asked' \in Seq(Nat)
  BY <1>1 DEF IInv, Fields, Covers, IsMade, Fetched
<1>5. stage' \in Ours => Built' /\ Stamps' /\ Together'
  BY <1>1, <1>3 DEF IInv, Ours, Built, Stamps, Together
<1>6. CASE IsFetched(request[1], response)
  <2> DEFINE token == response.token[1]
  <2>1. stage' = "stamp" /\ tokens' = Append(tokens, token)
    BY <1>1, <1>2, <1>6
  <2>2. /\ IsSequence(tokens) /\ Len(tokens) < Len(message.signers)
        /\ \A i \in DOMAIN tokens : IsStampOf(tokens[i], i)
    BY <1>1 DEF IInv, Fetched
  <2>3. PICK nonce : LET next == TimestampRequestFor(message.signers[at], nonce)
                     IN request = <<next>> /\ IsStampOf(next, at)
    BY <1>1 DEF IInv, Fetched
  <2>4. token.imprint = request[1].imprint /\ token.nonce = request[1].nonce
    BY <1>6 DEF IsFetched, Matches
  <2>5. IsStampOf(request[1], at)
    BY <2>3
  <2>6. IsStampOf(token, at)
    <3> HIDE DEF token, at
    <3> QED
      BY <2>4, <2>5 DEF IsStampOf
  <2> HIDE DEF token
  <2>7. /\ IsSequence(tokens') /\ Len(tokens') = at /\ Len(tokens) \in Nat
        /\ DOMAIN tokens = 1..Len(tokens) /\ DOMAIN tokens' = 1..Len(tokens) + 1
        /\ tokens'[at] = token /\ \A i \in 1..Len(tokens) : tokens'[i] = tokens[i]
    BY <2>1, <2>2, LastOf
  <2>8. \A i \in DOMAIN tokens' : IsStampOf(tokens'[i], i)
    BY <2>2, <2>6, <2>7
  <2>9. Len(tokens') <= Len(message'.signers)
    <3>1. IsSequence(message.signers)
      BY <1>1 DEF IInv, Built, Ours
    <3>2. Len(message.signers) \in Nat
      BY <3>1, LastOf
    <3> QED
      BY <1>1, <2>2, <2>7, <3>2
  <2>10. \A i \in DOMAIN tokens' : IsStampOf(tokens[i], i)'
    BY <1>3, <2>8
  <2>11. Fetched'
    BY <1>1, <1>4, <2>1, <2>7, <2>9, <2>10 DEF Fetched
  <2> QED
    BY <1>1, <1>4, <1>5, <2>1, <2>11 DEF IInv, Ours
<1>7. CASE ~IsFetched(request[1], response)
  <2>1. stage' = "build"
    BY <1>2, <1>7
  <2>2. Fetched'
    BY <1>1, <1>4, <2>1 DEF Fetched
  <2> QED
    BY <1>1, <1>4, <1>5, <2>1, <2>2 DEF IInv, Ours
<1> QED
  BY <1>6, <1>7

LEMMA AttachStep ==
  ASSUME IInv, AttachStamps
  PROVE  IInv'
<1>1. /\ stage = "stamp" /\ stage' = "build" /\ request = <<>>
      /\ Complete(message, tokens) /\ message' = Stamped(message, tokens)
      /\ UNCHANGED <<content, tokens, request, asked, made, report>>
  BY DEF AttachStamps
<1>2. /\ IsSequence(message.signers) /\ IsSequence(tokens)
      /\ \A i \in DOMAIN tokens : IsStampOf(tokens[i], i)
      /\ \A i \in DOMAIN message.signers : message.signers[i].unsigned = <<>>
      /\ asked \in Seq(Nat)
  BY <1>1 DEF IInv, Built, Together, Fetched, Ours
<1>3. DOMAIN tokens = DOMAIN message.signers
  <2>1. DOMAIN tokens = 1..Len(tokens) /\ DOMAIN message.signers = 1..Len(message.signers)
    BY <1>2, LastOf
  <2> QED
    BY <1>1, <2>1 DEF Complete
<1>4. /\ DOMAIN message' = DOMAIN message
      /\ message'.type = message.type /\ message'.eContent = message.eContent
      /\ message'.signers =
           [i \in DOMAIN message.signers |->
              IF i \in DOMAIN tokens THEN WithStamp(message.signers[i], tokens[i])
              ELSE message.signers[i]]
  <2> DEFINE stamped ==
        [i \in DOMAIN message.signers |->
           IF i \in DOMAIN tokens THEN WithStamp(message.signers[i], tokens[i])
           ELSE message.signers[i]]
  <2>1. message' = [message EXCEPT !.signers = stamped]
    BY <1>1 DEF Stamped
  <2>2. {"type", "eContent", "signers"} \subseteq DOMAIN message
    BY DEF IInv, Fields
  <2> HIDE DEF stamped
  <2>3. /\ DOMAIN message' = DOMAIN message
        /\ message'.type = message.type /\ message'.eContent = message.eContent
        /\ message'.signers = stamped
    BY <2>1, <2>2
  <2> QED
    BY <2>3 DEF stamped
<1>5. DOMAIN message'.signers = DOMAIN message.signers
  BY <1>4
<1>6. ASSUME NEW i \in DOMAIN message.signers
      PROVE  /\ DOMAIN message'.signers[i] = DOMAIN message.signers[i]
             /\ message'.signers[i].unsigned = <<Attribute("timeStampToken", tokens[i])>>
             /\ message'.signers[i].digest = message.signers[i].digest
             /\ message'.signers[i].signature = message.signers[i].signature
             /\ message'.signers[i].signed = message.signers[i].signed
  <2>1. message'.signers[i] =
          [message.signers[i] EXCEPT !.unsigned = Append(@, Attribute("timeStampToken", tokens[i]))]
    BY <1>3, <1>4 DEF WithStamp
  <2>2. Append(message.signers[i].unsigned, Attribute("timeStampToken", tokens[i]))
          = <<Attribute("timeStampToken", tokens[i])>>
    <3>1. \A x : Append(<<>>, x) = <<x>>
      OBVIOUS
    <3> QED
      BY <1>2, <3>1
  <2>3. {"digest", "signature", "unsigned"} \subseteq DOMAIN message.signers[i]
    BY DEF IInv, Fields, SignatureFields
  <2> QED
    BY <2>1, <2>2, <2>3
<1>7. IsSequence(message'.signers)
  <2>1. PICK n \in Nat : DOMAIN message'.signers = 1..n
    BY <1>2, <1>5, LastOf
  <2> DEFINE S == {message'.signers[i] : i \in 1..n}
  <2>2. message'.signers = [i \in 1..n |-> message'.signers[i]]
    BY <1>4, <1>5, <2>1
  <2>3. \A i \in 1..n : message'.signers[i] \in S
    OBVIOUS
  <2> HIDE DEF S
  <2>4. message'.signers \in [1..n -> S]
    BY <2>2, <2>3
  <2>5. message'.signers \in Seq(S)
    BY <2>4
  <2> QED
    BY <2>5 DEF IsSequence
<1>8. Fields(message)' /\ Covers'
  BY <1>1, <1>4, <1>5, <1>6 DEF IInv, Fields, Covers, IsMade, KnownAttributes
<1>9. Stamps'
  <2> SUFFICES ASSUME NEW i \in DOMAIN message'.signers
               PROVE  \E token : /\ message'.signers[i].unsigned
                                      = <<Attribute("timeStampToken", token)>>
                                 /\ IsStampOf(token, i)'
    BY DEF Stamps
  <2>1. IsStampOf(tokens[i], i)'
    <3>1. IsStampOf(tokens[i], i)
      BY <1>2, <1>3, <1>5
    <3>2. tokens' = tokens /\ asked' = asked
      BY <1>1
    <3> QED
      BY <1>5, <1>6, <3>1, <3>2 DEF IsStampOf
  <2>2. tokens'[i] = tokens[i]
    BY <1>1
  <2> QED
    BY <1>5, <1>6, <2>1, <2>2
<1>10. Together'
  BY <1>1, <1>5, <1>6 DEF Together
<1>11. Built' /\ Fetched'
  BY <1>1, <1>2, <1>4, <1>7 DEF IInv, Ours, Built, Fetched
<1> QED
  BY <1>1, <1>8, <1>9, <1>10, <1>11 DEF IInv, Ours

-----------------------------------------------------------------------------
(* The way of the message.                                                 *)

\* Nothing is promised of a message that has been closed but what it covers.
LEMMA OnItsWay ==
  ASSUME IInv, stage' \in {"closed", "sent", "read"}, Fields(message)', Covers',
         asked' \in Seq(Nat), request' = <<>>, stage' # "read" => report' = NoReport,
         stage' = "read" => AcceptedWasMade'
  PROVE  IInv'
BY DEF IInv, Ours, Built, Stamps, Together, Fetched

LEMMA CloseStep ==
  ASSUME IInv, Close
  PROVE  IInv'
<1>1. /\ stage = "build" /\ stage' = "closed" /\ asked' = <<>>
      /\ UNCHANGED <<request, made, report>>
  BY DEF Close
<1>2. PICK chain : message' = SetCertificates(message, chain)
  BY DEF Close
<1>3. DOMAIN message' = DOMAIN message /\ message'.signers = message.signers
  BY <1>2 DEF SetCertificates, IInv, Fields
<1>4. Fields(message)' /\ Covers'
  BY <1>1, <1>3 DEF IInv, Fields, Covers, IsMade
<1>5. asked' \in Seq(Nat) /\ request' = <<>> /\ report' = NoReport
  BY <1>1 DEF IInv, Fetched
<1> QED
  BY <1>1, <1>4, <1>5, OnItsWay

\* Whatever is done to a message leaves its signatures what they were.
LEMMA SignaturesStay ==
  ASSUME Fields(message), Covers, UNCHANGED made,
         NEW sd, DOMAIN sd = DOMAIN message, DOMAIN sd.signers = DOMAIN message.signers,
         \A i \in DOMAIN message.signers :
           /\ DOMAIN sd.signers[i] = DOMAIN message.signers[i]
           /\ sd.signers[i].signature = message.signers[i].signature
           /\ KnownAttributes(sd.signers[i]),
         message' = sd
  PROVE  Fields(message)' /\ Covers'
BY DEF Fields, Covers, IsMade

LEMMA SendStep ==
  ASSUME IInv, Send
  PROVE  IInv'
<1>1. /\ stage = "closed" /\ stage' = "sent" /\ UNCHANGED <<request, asked, made, report>>
      /\ message' \in Cut(message) \cup Damaged(message)
  BY DEF Send
<1>2. Fields(message) /\ Covers /\ asked \in Seq(Nat) /\ request = <<>> /\ report = NoReport
  BY <1>1 DEF IInv, Fetched
<1>3. CASE message'.signers = message.signers /\ DOMAIN message' = DOMAIN message
  <2>1. \A i \in DOMAIN message.signers : KnownAttributes(message.signers[i])
    BY <1>2 DEF Covers
  <2>2. Fields(message)' /\ Covers'
    BY <1>1, <1>2, <1>3, <2>1, SignaturesStay
  <2> QED
    BY <1>1, <1>2, <2>2, OnItsWay
<1>4. ASSUME NEW sd, sd = message \/ \E octets : sd = [message EXCEPT !.eContent = <<octets>>],
             NEW i, NEW signed, signed # <<>> => signed[1] \in AttributeLists,
             message' = [sd EXCEPT !.signers[i].signed = signed]
      PROVE  IInv'
  <2> DEFINE changed == [message.signers EXCEPT ![i] = [message.signers[i] EXCEPT !.signed = signed]]
  <2>1. DOMAIN sd = DOMAIN message /\ sd.signers = message.signers
    BY <1>2, <1>4 DEF Fields
  <2>2. message' = [sd EXCEPT !.signers = changed]
    BY <1>4, <2>1
  <2> HIDE DEF changed
  <2>3. /\ DOMAIN message' = DOMAIN message
        /\ message'.signers = changed
    BY <1>2, <2>1, <2>2 DEF Fields
  <2>4. DOMAIN message'.signers = DOMAIN message.signers
    BY <2>3 DEF changed
  <2>5. ASSUME NEW j \in DOMAIN message.signers
        PROVE  /\ DOMAIN message'.signers[j] = DOMAIN message.signers[j]
               /\ message'.signers[j].signature = message.signers[j].signature
               /\ KnownAttributes(message'.signers[j])
    <3>1. SignatureFields \subseteq DOMAIN message.signers[j] /\ KnownAttributes(message.signers[j])
      BY <1>2 DEF Fields, Covers
    <3>2. CASE j = i
      <4>1. message'.signers[j] = [message.signers[j] EXCEPT !.signed = signed]
        BY <2>3, <3>2 DEF changed
      <4> QED
        BY <1>4, <3>1, <4>1 DEF SignatureFields, KnownAttributes
    <3>3. CASE j # i
      BY <2>3, <3>1, <3>3 DEF changed
    <3> QED
      BY <3>2, <3>3
  <2>6. Fields(message)' /\ Covers'
    BY <1>1, <1>2, <2>3, <2>4, <2>5, SignaturesStay
  <2> QED
    BY <1>1, <1>2, <2>6, OnItsWay
<1>5. CASE message' \in Cut(message)
  <2>1. message' = message \/ \E octets : message' = [message EXCEPT !.eContent = <<octets>>]
    BY <1>5 DEF Cut
  <2> QED
    BY <1>2, <1>3, <2>1 DEF Fields
<1>6. CASE message' \in Damaged(message)
  <2>1. CASE message' \in OtherOctets(message)
    <3>1. PICK octets : message' = [message EXCEPT !.eContent = <<octets>>]
      BY <2>1 DEF OtherOctets
    <3> QED
      BY <1>2, <1>3, <3>1 DEF Fields
  <2>2. CASE message' \in OtherCertificates(message)
    <3>1. PICK certificate : message' = [message EXCEPT !.certificates = <<certificate>>]
      BY <2>2 DEF OtherCertificates
    <3> QED
      BY <1>2, <1>3, <3>1 DEF Fields
  <2>3. ASSUME NEW i, message' \in Exchanged(message, i)
        PROVE  IInv'
    <3>1. PICK altered : /\ \E octets : altered = [message EXCEPT !.eContent = <<octets>>]
                         /\ message' = WithSigned(altered, i, <<>>)
      BY <2>3 DEF Exchanged
    <3> QED
      BY <1>4, <3>1 DEF WithSigned
  <2>4. ASSUME NEW i, message' \in OtherAttributes(message, i)
        PROVE  IInv'
    <3>1. PICK signed \in OtherSigned(message) :
            \E altered \in {message} \cup OtherOctets(message) :
              message' = WithSigned(altered, i, signed)
      BY <2>4 DEF OtherAttributes
    <3>2. PICK altered \in {message} \cup OtherOctets(message) :
            message' = WithSigned(altered, i, signed)
      BY <3>1
    <3>3. altered = message \/ \E octets : altered = [message EXCEPT !.eContent = <<octets>>]
      BY <3>2 DEF OtherOctets
    <3>4. signed # <<>> => signed[1] \in AttributeLists
      <4>1. \A j \in DOMAIN message.signers :
              message.signers[j].signed # <<>> => message.signers[j].signed[1] \in AttributeLists
        BY <1>2 DEF Covers, KnownAttributes
      <4> QED
        BY <4>1 DEF OtherSigned
    <3> QED
      BY <1>4, <3>2, <3>3, <3>4 DEF WithSigned
  <2> QED
    BY <1>6, <2>1, <2>2, <2>3, <2>4 DEF Damaged
<1> QED
  BY <1>1, <1>5, <1>6

\* What a signature that verifies was made over: the content, or the attributes with
\* its digest.
LEMMA VerifiedIsSigned ==
  ASSUME NEW sd, NEW octets, NEW i \in DOMAIN sd.signers, Verifies(sd, sd.signers[i], octets)
  PROVE  LET si == sd.signers[i]
             found == FindCertificate(si, sd.certificates)
         IN /\ found # <<>> /\ found[1].key = si.signature.key
            /\ \/ si.signature.digest[2] = octets
               \/ /\ si.signed # <<>> /\ si.signature.digest[2] = SetOctets(si.signed[1])
                  /\ OnlyValue(si.signed[1], "messageDigest") = <<Digest(si.digest, octets)>>
<1> DEFINE si == sd.signers[i]
           signed == SignedMessageFor(si, octets, sd.type)
           found == FindCertificate(si, sd.certificates)
<1>1. signed # <<>> /\ found # <<>> /\ CheckSignature(found[1], si.method, signed[1], si.signature)
  BY DEF Verifies
<1>2. signed = <<octets>>
      \/ /\ si.signed # <<>> /\ signed = <<SetOctets(si.signed[1])>>
         /\ OnlyValue(si.signed[1], "messageDigest") = <<Digest(si.digest, octets)>>
  BY <1>1 DEF SignedMessageFor, MarshaledForVerification
<1> HIDE DEF signed, found, si
<1>3. si.signature = [key |-> found[1].key, digest |-> Digest(si.method.digest, signed[1])]
  BY <1>1 DEF CheckSignature
<1>4. si.signature.key = found[1].key /\ si.signature.digest[2] = signed[1]
  BY <1>3 DEF Digest
<1> QED
  BY <1>1, <1>2, <1>4 DEF si, found

\* So the signature that its key has made vouches for the content.
LEMMA SignedIsVouched ==
  ASSUME NEW signature, Faithful(signature), NEW si, KnownAttributes(si), NEW octets,
         signature.octets = si.signature.digest[2],
         \/ si.signature.digest[2] = octets
         \/ /\ si.signed # <<>> /\ si.signature.digest[2] = SetOctets(si.signed[1])
            /\ OnlyValue(si.signed[1], "messageDigest") = <<Digest(si.digest, octets)>>
  PROVE  Vouches(signature, si, octets)
<1>1. CASE signature.octets = octets
  BY <1>1 DEF Vouches
<1>2. CASE /\ si.signed # <<>> /\ signature.octets = SetOctets(si.signed[1])
           /\ OnlyValue(si.signed[1], "messageDigest") = <<Digest(si.digest, octets)>>
  <2>1. CASE signature.octets = signature.content
    BY <1>2, <2>1 DEF Vouches
  <2>2. CASE \E attributes \in AttributeLists :
               /\ signature.octets = SetOctets(attributes)
               /\ \E digest : OnlyValue(attributes, "messageDigest")
                                = <<Digest(digest, signature.content)>>
    <3>1. PICK attributes \in AttributeLists :
               /\ signature.octets = SetOctets(attributes)
               /\ \E digest : OnlyValue(attributes, "messageDigest")
                                = <<Digest(digest, signature.content)>>
      BY <2>2
    <3>2. attributes = si.signed[1]
      BY <1>2, <3>1, EncodingAssumption DEF KnownAttributes
    <3>3. PICK digest : <<Digest(si.digest, octets)>> = <<Digest(digest, signature.content)>>
      BY <1>2, <3>1, <3>2
    <3>4. Digest(si.digest, octets)[2] = Digest(digest, signature.content)[2]
      BY <3>3
    <3>5. octets = signature.content
      BY <3>4 DEF Digest
    <3> QED
      BY <3>5 DEF Vouches
  <2> QED
    BY <2>1, <2>2 DEF Faithful
<1> QED
  BY <1>1, <1>2

LEMMA ReadStep ==
  ASSUME IInv, Read
  PROVE  IInv'
<1>1. stage = "sent" /\ stage' = "read" /\ UNCHANGED <<message, request, asked, made>>
  BY DEF Read
<1>2. Fields(message)' /\ Covers' /\ asked' \in Seq(Nat) /\ request' = <<>>
  BY <1>1 DEF IInv, Fields, Covers, IsMade, Fetched
<1>3. AcceptedWasMade'
  <2> SUFFICES ASSUME report'.verdict = "good"
               PROVE  /\ report'.signers # <<>>
                      /\ \A i \in DOMAIN report'.signers :
                           \E signature \in made :
                             /\ signature.key = report'.signers[i].key
                             /\ Vouches(signature, message.signers[i], report'.octets)
    BY <1>1 DEF AcceptedWasMade, Vouches
  <2>1. PICK parsed : parsed \in {<<>>, <<message>>} /\ report' = ReportOf(parsed)
    <3>1. Parsed(wire) \in {<<>>, <<message>>}
      BY DEF Parsed, Unmarshalled
    <3> QED
      BY <3>1 DEF Read
  <2>2. parsed = <<message>>
    BY <2>1 DEF ReportOf, NoReport
  <2>3. PICK octets : /\ SignerCertificates(message) # <<>> /\ Verify(message, octets)
                      /\ report' = [verdict |-> "good", octets |-> octets,
                                    signers |-> SignerCertificates(message)[1]]
    BY <2>1, <2>2 DEF ReportOf, NoReport
  <2> DEFINE found == [i \in DOMAIN message.signers |->
                         FindCertificate(message.signers[i], message.certificates)]
  <2>4. SignerCertificates(message) = << [i \in DOMAIN message.signers |-> found[i][1]] >>
    BY <2>3 DEF SignerCertificates
  <2>5. /\ report'.octets = octets /\ DOMAIN report'.signers = DOMAIN message.signers
        /\ \A i \in DOMAIN message.signers :
             report'.signers[i] = FindCertificate(message.signers[i], message.certificates)[1]
    BY <2>3, <2>4
  <2>6. /\ message.signers # <<>>
        /\ \A i \in DOMAIN message.signers : Verifies(message, message.signers[i], octets)
    BY <2>3 DEF Verify
  <2>7. ASSUME NEW i \in DOMAIN message.signers
        PROVE  \E signature \in made :
                 /\ signature.key = report'.signers[i].key
                 /\ Vouches(signature, message.signers[i], octets)
    <3> DEFINE si == message.signers[i]
    <3>1. Verifies(message, si, octets)
      BY <2>6
    <3>2. /\ report'.signers[i].key = si.signature.key
          /\ \/ si.signature.digest[2] = octets
             \/ /\ si.signed # <<>> /\ si.signature.digest[2] = SetOctets(si.signed[1])
                /\ OnlyValue(si.signed[1], "messageDigest") = <<Digest(si.digest, octets)>>
      BY <2>5, <3>1, VerifiedIsSigned
    <3>3. KnownAttributes(si) /\ IsMade(si)
      BY DEF IInv, Covers
    <3>4. PICK signature \in made :
            signature.key = si.signature.key /\ signature.octets = si.signature.digest[2]
      BY <3>3 DEF IsMade
    <3>5. Faithful(signature)
      BY DEF IInv, Covers
    <3> HIDE DEF si
    <3>6. Vouches(signature, si, octets)
      BY <3>2, <3>3, <3>4, <3>5, SignedIsVouched
    <3> QED
      BY <3>2, <3>4, <3>6 DEF si
  <2> HIDE DEF found
  <2>8. report'.signers # <<>>
    BY <2>5, <2>6
  <2> QED
    BY <2>5, <2>7, <2>8
<1> QED
  BY <1>1, <1>2, <1>3, OnItsWay

LEMMA NextKeeps ==
  ASSUME IInv, [Next]_vars
  PROVE  IInv'
<1>1. CASE UNCHANGED vars
  BY <1>1 DEF vars, IInv, Ours, Fields, Built, IsStampOf, Stamps, Together, Fetched, Covers,
              IsMade, AcceptedWasMade, Vouches
<1> QED
  BY <1>1, SignStep, DetachStep, StartStep, AskStep, ReceiveStep, AttachStep, CloseStep, SendStep,
     ReadStep DEF Next

THEOREM Invariance == Spec => []IInv
<1>1. Init => IInv
  BY InitHolds
<1>2. IInv /\ [Next]_vars => IInv'
  BY NextKeeps
<1> QED
  BY <1>1, <1>2, PTL DEF Spec

-----------------------------------------------------------------------------
(* The invariant of messages that are read back.                           *)

\* A signature of the program has the name of a certificate of its key.
Named(si) ==
  \E c \in Certificates :
    /\ si.version = 1 /\ si.sid = [issuer |-> c.issuer, serial |-> c.serial]
    /\ c.key = si.signature.key

\* What the program makes of a content.
Prepared(sd, octets) ==
  /\ sd.certificates \in Seq(Certificates)
  /\ \A i \in DOMAIN sd.signers :
       LET si == sd.signers[i]
       IN WellSigned(si, "data", octets) /\ Named(si) /\ WellStamped(si)

\* What it sends, and what other programs have sent.
Finished(sd, octets) ==
  /\ sd.eContent = <<>> \/ \E cut \in Cuts(octets) : sd.eContent = <<cut>>
  /\ IsSequence(sd.certificates)
  /\ \A i \in DOMAIN sd.signers :
       LET si == sd.signers[i]
       IN WellSigned(si, sd.type, octets) /\ WellNamed(si, sd.certificates) /\ WellStamped(si)

RInv ==
  /\ Encodable(content)
  /\ stage \in Ours => Prepared(message, content)
  /\ stage = "stamp" => \A i \in DOMAIN tokens : tokens[i].type = "TSTInfo"
  /\ stage = "closed" =>
       Finished(message, content) /\ message.eContent \in {<<>>, <<Whole(content)>>}
  /\ stage = "sent" /\ ~damaged => Finished(message, content) /\ wire \in ToBER(message)
  /\ stage = "read" => ReadsBack

\* No other certificate of an authority has the serial number.
LEMMA NamedIsWell ==
  ASSUME NEW si, Named(si), NEW certificates \in Seq(Certificates)
  PROVE  WellNamed(si, certificates)
<1>1. PICK c \in Certificates : /\ si.version = 1
                                /\ si.sid = [issuer |-> c.issuer, serial |-> c.serial]
                                /\ c.key = si.signature.key
  BY DEF Named
<1>2. si.sid = [issuer |-> si.sid.issuer, serial |-> si.sid.serial]
  BY <1>1
<1>3. ASSUME NEW i \in DOMAIN certificates, si.sid \in NamesOf(certificates[i])
      PROVE  certificates[i].key = si.signature.key
  <2> DEFINE d == certificates[i]
  <2>1. d \in Certificates
    OBVIOUS
  <2>2. si.sid = [issuer |-> d.issuer, serial |-> d.serial]
        \/ \E id \in d.keyIds : si.sid = [keyId |-> id]
    BY <1>3 DEF NamesOf
  <2>3. ASSUME NEW id PROVE si.sid # [keyId |-> id]
    <3>1. DOMAIN si.sid = {"issuer", "serial"} /\ DOMAIN [keyId |-> id] = {"keyId"}
      BY <1>1
    <3> QED
      BY <3>1
  <2> HIDE DEF d
  <2>4. si.sid = [issuer |-> d.issuer, serial |-> d.serial]
    BY <2>2, <2>3
  <2>5. d.issuer = c.issuer /\ d.serial = c.serial
    BY <1>1, <2>4
  <2>6. d.key = c.key
    BY <1>1, <2>1, <2>5, CertificatesAssumption
  <2> QED
    BY <1>1, <2>6 DEF d
<1> QED
  BY <1>1, <1>2, <1>3 DEF WellNamed

\* What the program makes of a content is what it sends.
LEMMA PreparedIsFinished ==
  ASSUME NEW sd, NEW octets, Prepared(sd, octets), sd.type = "data",
         sd.eContent \in {<<>>, <<Whole(octets)>>}
  PROVE  Finished(sd, octets)
<1>1. sd.eContent = <<>> \/ \E cut \in Cuts(octets) : sd.eContent = <<cut>>
  BY DEF Cuts
<1>2. sd.certificates \in Seq(Certificates) /\ IsSequence(sd.certificates)
  BY DEF Prepared, IsSequence
<1>3. ASSUME NEW i \in DOMAIN sd.signers
      PROVE  /\ WellSigned(sd.signers[i], sd.type, octets)
             /\ WellNamed(sd.signers[i], sd.certificates) /\ WellStamped(sd.signers[i])
  <2>1. WellSigned(sd.signers[i], "data", octets) /\ Named(sd.signers[i]) /\ WellStamped(sd.signers[i])
    BY DEF Prepared
  <2> QED
    BY <1>2, <2>1, NamedIsWell
<1> QED
  BY <1>1, <1>2, <1>3 DEF Finished

LEMMA InitReads ==
  ASSUME Init
  PROVE  RInv
<1>1. CASE stage = "build" /\ content \in Messages /\ message = NewSignedData("data", content)
  <2>1. message.signers = <<>> /\ message.certificates = <<>>
    BY <1>1 DEF NewSignedData
  <2>2. Prepared(message, content)
    <3>1. <<>> \in Seq(Certificates) /\ DOMAIN message.signers = {}
      BY <2>1
    <3> QED
      BY <2>1, <3>1 DEF Prepared
  <2>3. Encodable(content)
    BY <1>1, MessagesAssumption
  <2> QED
    BY <1>1, <2>2, <2>3 DEF RInv
<1>2. CASE /\ stage = "closed"
           /\ \E other \in Others : message = other.message /\ content = other.content
  <2>1. PICK other \in Others : message = other.message /\ content = other.content
    BY <1>2
  <2>2. /\ Encodable(content) /\ message.eContent \in {<<>>, <<Whole(content)>>}
        /\ IsSequence(message.certificates)
        /\ \A i \in DOMAIN message.signers :
             /\ WellSigned(message.signers[i], message.type, content)
             /\ WellNamed(message.signers[i], message.certificates)
             /\ WellStamped(message.signers[i])
    BY <2>1, OthersAssumption DEF IsSequence
  <2>3. message.eContent = <<>> \/ \E cut \in Cuts(content) : message.eContent = <<cut>>
    BY <2>2 DEF Cuts
  <2> QED
    BY <1>2, <2>2, <2>3 DEF RInv, Ours, Finished
<1> QED
  BY <1>1, <1>2 DEF Init

\* A signature that is added is as the others are.
LEMMA SignatureReady ==
  ASSUME NEW sd, Fields(sd), IsSequence(sd.signers), sd.type = "data",
         NEW octets, sd.eContent \in {<<>>, <<Whole(octets)>>}, Prepared(sd, octets),
         NEW chain \in Seq(Certificates), NEW key
  PROVE  Prepared(AddSignerInfo(sd, chain, key).sd, octets)
<1> DEFINE result == AddSignerInfo(sd, chain, key)
           added == AddCertificates(sd.certificates, chain)
           complete == [sd EXCEPT !.certificates = AddCertificates(@, chain)]
           own == CertificatesFor(chain, key)
           certificate == chain[CHOOSE i \in own : \A j \in own : j <= i]
           si == SignerInfo(sd, certificate, key)
<1>1. /\ {"signers", "certificates", "digests"} \subseteq DOMAIN complete
      /\ complete.certificates = added /\ complete.signers = sd.signers
  BY DEF Fields
<1>2. added \in Seq(Certificates)
  BY CertificatesAdded DEF Prepared
<1>3. \/ result.sd = complete
      \/ /\ own # {} /\ ContentValue(sd.eContent) # <<>>
         /\ result.sd = [complete EXCEPT !.digests = @ \cup {si.digest}, !.signers = Append(@, si)]
  BY DEF AddSignerInfo
<1>4. ASSUME NEW some \in own PROVE certificate \in Certificates /\ certificate.key = key
  BY CertificateOfKey
<1>5. own # {} /\ ContentValue(sd.eContent) # <<>> =>
        WellSigned(si, "data", octets) /\ Named(si) /\ WellStamped(si)
  <2> SUFFICES ASSUME own # {}, ContentValue(sd.eContent) # <<>>
               PROVE  WellSigned(si, "data", octets) /\ Named(si) /\ WellStamped(si)
    OBVIOUS
  <2>1. sd.eContent = <<Whole(octets)>>
    BY DEF ContentValue
  <2>2. certificate \in Certificates /\ certificate.key = key
    BY <1>4
  <2>3. si.unsigned = <<>>
    BY DEF SignerInfo
  <2> HIDE DEF own, certificate
  <2>4. SignedBy(si, octets, certificate, key)
    BY <2>1, SignatureIsWell
  <2> HIDE DEF si
  <2> QED
    BY <2>2, <2>3, <2>4 DEF SignedBy, Named, WellStamped, HasTimestamp
<1> HIDE DEF result, complete, added, own, certificate, si
<1>6. CASE result.sd = complete
  BY <1>1, <1>2, <1>6 DEF Prepared, result
<1>7. CASE /\ own # {} /\ ContentValue(sd.eContent) # <<>>
           /\ result.sd = [complete EXCEPT !.digests = @ \cup {si.digest}, !.signers = Append(@, si)]
  <2>1. result.sd.certificates = added /\ result.sd.signers = Append(sd.signers, si)
    BY <1>1, <1>7
  <2>2. /\ DOMAIN sd.signers = 1..Len(sd.signers) /\ Len(sd.signers) \in Nat
        /\ DOMAIN result.sd.signers = 1..Len(sd.signers) + 1
        /\ result.sd.signers[Len(sd.signers) + 1] = si
        /\ \A i \in 1..Len(sd.signers) : result.sd.signers[i] = sd.signers[i]
    BY <2>1, LastOf
  <2>3. ASSUME NEW i \in DOMAIN result.sd.signers
        PROVE  /\ WellSigned(result.sd.signers[i], "data", octets)
               /\ Named(result.sd.signers[i]) /\ WellStamped(result.sd.signers[i])
    <3>1. CASE result.sd.signers[i] = si
      BY <1>5, <1>7, <3>1
    <3>2. CASE i \in DOMAIN sd.signers /\ result.sd.signers[i] = sd.signers[i]
      BY <3>2 DEF Prepared
    <3> QED
      BY <2>2, <3>1, <3>2
  <2> QED
    BY <1>2, <2>1, <2>3 DEF Prepared, result
<1> QED
  BY <1>3, <1>6, <1>7

LEMMA SignReads ==
  ASSUME IInv, RInv, Sign
  PROVE  RInv'
<1>1. PICK identity \in Identities :
        message' = AddSignerInfo(message, identity.chain, identity.key).sd
  BY DEF Sign
<1>2. stage = "build" /\ stage' = stage /\ content' = content
  BY DEF Sign
<1>3. /\ Fields(message) /\ IsSequence(message.signers) /\ message.type = "data"
      /\ message.eContent \in {<<>>, <<Whole(content)>>}
  BY <1>2 DEF IInv, Built, Ours
<1>4. identity.chain \in Seq(Certificates)
  BY CertificatesAssumption
<1>5. Prepared(message, content) /\ Encodable(content)
  BY <1>2 DEF RInv, Ours
<1>6. Prepared(message', content')
  BY <1>1, <1>2, <1>3, <1>4, <1>5, SignatureReady
<1> QED
  BY <1>2, <1>5, <1>6 DEF RInv

LEMMA DetachReads ==
  ASSUME IInv, RInv, Detach
  PROVE  RInv'
<1>1. stage = "build" /\ stage' = stage /\ content' = content /\ message' = Detached(message)
  BY DEF Detach
<1>2. message'.certificates = message.certificates /\ message'.signers = message.signers
  BY <1>1 DEF Detached, IInv, Fields
<1>3. Prepared(message, content) /\ Encodable(content)
  BY <1>1 DEF RInv, Ours
<1>4. Prepared(message', content')
  BY <1>1, <1>2, <1>3 DEF Prepared
<1> QED
  BY <1>1, <1>3, <1>4 DEF RInv

LEMMA StampReads ==
  ASSUME IInv, RInv, StartStamping \/ Ask \/ Receive
  PROVE  RInv'
<1>1. stage \in Ours /\ stage' \in Ours /\ UNCHANGED <<message, content>>
  BY DEF StartStamping, Ask, Receive, Ours
<1>2. Prepared(message, content)' /\ Encodable(content)'
  BY <1>1 DEF RInv, Prepared
<1>3. stage' = "stamp" => \A i \in DOMAIN tokens' : tokens'[i].type = "TSTInfo"
  <2>1. CASE StartStamping
    BY <2>1 DEF StartStamping
  <2>2. CASE Ask
    BY <2>2 DEF Ask, RInv
  <2>3. CASE Receive
    <3> SUFFICES ASSUME stage' = "stamp", NEW i \in DOMAIN tokens' PROVE tokens'[i].type = "TSTInfo"
      OBVIOUS
    <3>1. PICK response : /\ IsFetched(request[1], response)
                          /\ tokens' = Append(tokens, response.token[1])
      BY <2>3 DEF Receive
    <3>2. stage = "stamp"
      BY <2>3 DEF Receive
    <3>3. IsSequence(tokens) /\ \A j \in DOMAIN tokens : tokens[j].type = "TSTInfo"
      BY <3>2 DEF IInv, Fetched, RInv
    <3>4. response.token[1].type = "TSTInfo"
      BY <3>1 DEF IsFetched, HasInfo
    <3> DEFINE token == response.token[1]
    <3>5. /\ Len(tokens) \in Nat /\ DOMAIN tokens = 1..Len(tokens)
          /\ DOMAIN tokens' = 1..Len(tokens) + 1
          /\ tokens'[Len(tokens) + 1] = token /\ \A j \in 1..Len(tokens) : tokens'[j] = tokens[j]
      BY <3>1, <3>3, LastOf
    <3> QED
      BY <3>3, <3>4, <3>5
  <2> QED
    BY <2>1, <2>2, <2>3
<1> QED
  BY <1>1, <1>2, <1>3 DEF RInv, Ours

\* A stamp that was fetched for a signature is for this signature.
LEMMA StampedIsWell ==
  ASSUME NEW si, NEW token, token.type = "TSTInfo",
         token.imprint = Digest(si.digest, si.signature),
         si.unsigned = <<Attribute("timeStampToken", token)>>
  PROVE  WellStamped(si)
<1> DEFINE unsigned == si.unsigned
           of == {i \in DOMAIN unsigned : unsigned[i].type = "timeStampToken"}
<1>1. /\ DOMAIN unsigned = {1} /\ unsigned[1].type = "timeStampToken"
      /\ unsigned[1].values = <<token>> /\ Len(unsigned[1].values) = 1
      /\ unsigned[1].values[1] = token
  BY DEF Attribute
<1> HIDE DEF unsigned
<1>2. of = {1}
  BY <1>1
<1>3. (CHOOSE i \in of : TRUE) = 1
  BY <1>2
<1>4. OnlyValue(unsigned, "timeStampToken") = <<token>>
  BY <1>1, <1>2, <1>3 DEF OnlyValue
<1>5. token.imprint[1] = si.digest
  BY DEF Digest
<1> QED
  BY <1>1, <1>4, <1>5 DEF WellStamped, unsigned

LEMMA AttachReads ==
  ASSUME IInv, RInv, AttachStamps
  PROVE  RInv'
<1>1. /\ stage = "stamp" /\ stage' = "build" /\ content' = content
      /\ Complete(message, tokens) /\ message' = Stamped(message, tokens)
  BY DEF AttachStamps
<1>2. /\ Prepared(message, content) /\ Encodable(content)
      /\ \A i \in DOMAIN tokens : tokens[i].type = "TSTInfo"
  BY <1>1 DEF RInv, Ours
<1>3. /\ IsSequence(message.signers) /\ IsSequence(tokens)
      /\ \A i \in DOMAIN tokens : IsStampOf(tokens[i], i)
      /\ \A i \in DOMAIN message.signers : message.signers[i].unsigned = <<>>
  BY <1>1 DEF IInv, Built, Together, Fetched, Ours
<1>4. DOMAIN tokens = DOMAIN message.signers
  <2>1. DOMAIN tokens = 1..Len(tokens) /\ DOMAIN message.signers = 1..Len(message.signers)
    BY <1>3, LastOf
  <2> QED
    BY <1>1, <2>1 DEF Complete
<1>5. PICK stamped :
        /\ stamped = [i \in DOMAIN message.signers |->
                        IF i \in DOMAIN tokens THEN WithStamp(message.signers[i], tokens[i])
                        ELSE message.signers[i]]
        /\ message' = [message EXCEPT !.signers = stamped]
  BY <1>1 DEF Stamped
<1>6. message'.signers = stamped /\ message'.certificates = message.certificates
  BY <1>5 DEF IInv, Fields
<1>7. ASSUME NEW i \in DOMAIN stamped
      PROVE  WellSigned(stamped[i], "data", content) /\ Named(stamped[i]) /\ WellStamped(stamped[i])
  <2> DEFINE si == message.signers[i]
  <2>1. i \in DOMAIN message.signers
    BY <1>5
  <2>2. stamped[i] = [si EXCEPT !.unsigned = Append(@, Attribute("timeStampToken", tokens[i]))]
    BY <1>4, <1>5, <2>1 DEF WithStamp
  <2>3. /\ WellSigned(si, "data", content) /\ Named(si) /\ si.unsigned = <<>>
        /\ SignatureFields \subseteq DOMAIN si
    BY <1>2, <1>3, <2>1 DEF Prepared, IInv, Fields
  <2>4. tokens[i].type = "TSTInfo" /\ tokens[i].imprint = Digest(si.digest, si.signature)
    BY <1>2, <1>3, <1>4, <2>1 DEF IsStampOf
  <2> HIDE DEF si
  <2>5. /\ stamped[i].version = si.version /\ stamped[i].sid = si.sid
        /\ stamped[i].digest = si.digest /\ stamped[i].signed = si.signed
        /\ stamped[i].method = si.method /\ stamped[i].signature = si.signature
    BY <2>2, <2>3 DEF SignatureFields
  <2>6. stamped[i].unsigned = <<Attribute("timeStampToken", tokens[i])>>
    <3>1. \A x : Append(<<>>, x) = <<x>>
      OBVIOUS
    <3> QED
      BY <2>2, <2>3, <3>1 DEF SignatureFields
  <2>7. WellSigned(stamped[i], "data", content)
    BY <2>3, <2>5 DEF WellSigned, SignedPart
  <2>8. Named(stamped[i])
    BY <2>3, <2>5 DEF Named
  <2>9. WellStamped(stamped[i])
    BY <2>4, <2>5, <2>6, StampedIsWell
  <2> QED
    BY <2>7, <2>8, <2>9
<1>8. Prepared(message', content')
  BY <1>1, <1>2, <1>6, <1>7 DEF Prepared
<1> QED
  BY <1>1, <1>2, <1>8 DEF RInv

-----------------------------------------------------------------------------
(* The message is read back.                                               *)

LEMMA CloseReads ==
  ASSUME IInv, RInv, Close
  PROVE  RInv'
<1>1. stage = "build" /\ stage' = "closed" /\ content' = content
  BY DEF Close
<1>2. /\ Prepared(message, content) /\ Encodable(content)
      /\ message.type = "data" /\ message.eContent \in {<<>>, <<Whole(content)>>}
  BY <1>1 DEF IInv, RInv, Built, Ours
<1>3. PICK chain \in {message.certificates} \cup {<<c>> : c \in ToSet(message.certificates)} :
        message' = SetCertificates(message, chain)
  BY DEF Close
<1>4. chain \in Seq(Certificates)
  <2>1. message.certificates \in Seq(Certificates)
    BY <1>2 DEF Prepared
  <2>2. ToSet(message.certificates) \subseteq Certificates
    BY <2>1 DEF ToSet
  <2>3. \A c \in Certificates : <<c>> \in Seq(Certificates)
    OBVIOUS
  <2> QED
    BY <1>3, <2>1, <2>2, <2>3
<1>5. AddCertificates(<<>>, chain) \in Seq(Certificates)
  <2>1. <<>> \in Seq(Certificates)
    OBVIOUS
  <2> QED
    BY <1>4, <2>1, CertificatesAdded
<1>6. /\ message'.certificates \in Seq(Certificates) /\ message'.signers = message.signers
      /\ message'.type = message.type /\ message'.eContent = message.eContent
  BY <1>3, <1>5 DEF SetCertificates, IInv, Fields
<1>7. Prepared(message', content')
  BY <1>1, <1>2, <1>6 DEF Prepared
<1>8. message'.type = "data" /\ message'.eContent \in {<<>>, <<Whole(content')>>}
  BY <1>1, <1>2, <1>6
<1>9. Finished(message', content')
  BY <1>7, <1>8, PreparedIsFinished
<1> QED
  BY <1>1, <1>2, <1>8, <1>9 DEF RInv, Ours

LEMMA SendReads ==
  ASSUME IInv, RInv, Send
  PROVE  RInv'
<1>1. stage = "closed" /\ stage' = "sent" /\ content' = content
  BY DEF Send
<1>2. /\ Encodable(content) /\ Finished(message, content)
      /\ message.eContent \in {<<>>, <<Whole(content)>>}
  BY <1>1 DEF RInv
<1>3. CASE damaged'
  BY <1>1, <1>2, <1>3 DEF RInv, Ours
<1>4. CASE ~damaged'
  <2>1. message' \in Cut(message) /\ wire' \in ToBER(message')
    BY <1>4 DEF Send
  <2>2. /\ message'.eContent = <<>> \/ \E cut \in Cuts(content) : message'.eContent = <<cut>>
        /\ message'.type = message.type /\ message'.certificates = message.certificates
        /\ message'.signers = message.signers
    <3>1. CASE IsDetached(message)
      BY <2>1, <3>1 DEF Cut, IsDetached
    <3>2. CASE ~IsDetached(message)
      <4>1. message.eContent = <<Whole(content)>>
        BY <1>2, <3>2 DEF IsDetached
      <4>2. ContentValue(message.eContent)[1] = content
        BY <4>1 DEF ContentValue, Whole
      <4>3. PICK cut \in Cuts(content) : message' = [message EXCEPT !.eContent = <<cut>>]
        BY <2>1, <3>2, <4>2 DEF Cut
      <4> QED
        BY <4>3 DEF IInv, Fields
    <3> QED
      BY <3>1, <3>2
  <2>3. Finished(message', content')
    BY <1>1, <1>2, <2>2 DEF Finished
  <2> QED
    BY <1>1, <1>2, <2>1, <2>3 DEF RInv, Ours
<1> QED
  BY <1>3, <1>4

\* A signature that is as the standard asks for is verified, if its certificate is
\* there and its stamp is from the service.
LEMMA WellVerifies ==
  ASSUME NEW sd, NEW octets, Finished(sd, octets), NEW i \in DOMAIN sd.signers,
         FindCertificate(sd.signers[i], sd.certificates) # <<>>, StampsAreGenuine(sd)
  PROVE  /\ Verifies(sd, sd.signers[i], octets)
         /\ FindCertificate(sd.signers[i], sd.certificates)[1].key = sd.signers[i].signature.key
<1> DEFINE si == sd.signers[i]
           found == FindCertificate(si, sd.certificates)
<1>1. WellSigned(si, sd.type, octets) /\ WellNamed(si, sd.certificates) /\ WellStamped(si)
  BY DEF Finished
<1>2. PICK j \in DOMAIN sd.certificates :
        Identifies(si, sd.certificates[j]) /\ found = <<sd.certificates[j]>>
  BY CertificateFound DEF Finished, IsSequence
<1>3. \A k \in DOMAIN si.unsigned : si.unsigned[k].values[1].genuine
  BY DEF StampsAreGenuine
<1> HIDE DEF si, found
<1>4. found[1].key = si.signature.key
  <2> DEFINE c == sd.certificates[j]
  <2>1. si.sid \in NamesOf(c)
    BY <1>1, <1>2 DEF WellNamed, Identifies, NamesOf
  <2>2. c.key = si.signature.key
    BY <1>1, <2>1 DEF WellNamed
  <2> QED
    BY <1>2, <2>2
<1>5. SignedMessageFor(si, octets, sd.type) = <<SignedPart(si, octets)>>
  BY <1>1 DEF WellSigned, SignedMessageFor, SignedPart, MarshaledForVerification
<1>6. CheckSignature(found[1], si.method, SignedPart(si, octets), si.signature)
  BY <1>1, <1>4 DEF WellSigned, CheckSignature
<1>7. ASSUME HasTimestamp(si) PROVE TimestampVerifies(si)
  <2>1. PICK k \in DOMAIN si.unsigned :
          LET token == si.unsigned[k].values[1]
          IN /\ OnlyValue(si.unsigned, "timeStampToken") = <<token>>
             /\ token.type = "TSTInfo" /\ token.imprint = Digest(token.imprint[1], si.signature)
    BY <1>1, <1>7 DEF WellStamped
  <2> DEFINE token == si.unsigned[k].values[1]
  <2>2. /\ OnlyValue(si.unsigned, "timeStampToken") = <<token>>
        /\ token.type = "TSTInfo" /\ token.imprint = Digest(token.imprint[1], si.signature)
        /\ token.genuine
    BY <1>3, <2>1
  <2> HIDE DEF token
  <2> QED
    BY <2>2 DEF TimestampVerifies
<1>8. found # <<>>
  BY <1>2
<1>9. Verifies(sd, si, octets)
  BY <1>5, <1>6, <1>7, <1>8 DEF Verifies, found
<1> QED
  BY <1>4, <1>9 DEF si, found

LEMMA ReadReads ==
  ASSUME IInv, RInv, Read
  PROVE  RInv'
<1>1. /\ stage = "sent" /\ stage' = "read" /\ report' = ReportOf(Parsed(wire))
      /\ UNCHANGED <<message, content, damaged>>
  BY DEF Read
<1>2. Encodable(content)
  BY DEF RInv
<1>3. ReadsBack'
  <2> SUFFICES ASSUME ~damaged, message.signers # <<>>, SignerCertificates(message) # <<>>,
                      StampsAreGenuine(message),
                      IsDetached(message) \/ ContentValue(message.eContent) # <<>>
               PROVE  /\ report'.verdict = "good" /\ report'.octets = content
                      /\ [i \in DOMAIN report'.signers |-> report'.signers[i].key]
                           = [i \in DOMAIN message.signers |-> message.signers[i].signature.key]
    BY <1>1 DEF ReadsBack
  <2>1. Finished(message, content) /\ wire \in ToBER(message)
    BY <1>1 DEF RInv
  <2>2. Parsed(wire) = <<message>>
    BY <1>2, <2>1, MessageRead DEF Finished
  <2>3. ~IsDetached(message) => ContentValue(message.eContent) = <<content>>
    <3> SUFFICES ASSUME ~IsDetached(message) PROVE ContentValue(message.eContent) = <<content>>
      OBVIOUS
    <3>1. PICK cut \in Cuts(content) : message.eContent = <<cut>>
      BY <2>1 DEF Finished, IsDetached
    <3>2. content \in Seq(Octets)
      BY <1>2 DEF Encodable
    <3>3. ContentValue(<<cut>>) \in {<<>>, <<content>>}
      BY <3>2, CutRead
    <3> QED
      BY <3>1, <3>3
  <2> DEFINE found == [i \in DOMAIN message.signers |->
                         FindCertificate(message.signers[i], message.certificates)]
             certificates == [i \in DOMAIN message.signers |-> found[i][1]]
  <2>4. /\ \A i \in DOMAIN message.signers : found[i] # <<>>
        /\ SignerCertificates(message) = <<certificates>>
    BY DEF SignerCertificates
  <2>5. ASSUME NEW i \in DOMAIN message.signers
        PROVE  /\ Verifies(message, message.signers[i], content)
               /\ certificates[i].key = message.signers[i].signature.key
    <3>1. FindCertificate(message.signers[i], message.certificates) # <<>>
      BY <2>4
    <3> QED
      BY <2>1, <3>1, WellVerifies
  <2>6. Verify(message, content)
    BY <2>5 DEF Verify
  <2>7. DOMAIN certificates = DOMAIN message.signers
    OBVIOUS
  <2> HIDE DEF certificates, found
  <2>8. report' = [verdict |-> "good", octets |-> content, signers |-> certificates]
    <3>1. /\ Parsed(wire) # <<>> /\ Parsed(wire)[1] = message
          /\ SignerCertificates(message)[1] = certificates
      BY <2>2, <2>4
    <3>2. (IF IsDetached(message) THEN <<content>> ELSE ContentValue(message.eContent)) = <<content>>
      BY <2>3
    <3> QED
      BY <1>1, <2>2, <2>3, <2>4, <2>6, <3>1, <3>2 DEF ReportOf
  <2> QED
    BY <2>5, <2>7, <2>8
<1> QED
  BY <1>1, <1>2, <1>3 DEF RInv, Ours

LEMMA ReadingKept ==
  ASSUME IInv, RInv, [Next]_vars
  PROVE  RInv'
<1>1. CASE UNCHANGED vars
  BY <1>1 DEF vars, RInv, ReadsBack
<1> QED
  BY <1>1, SignReads, DetachReads, StampReads, AttachReads, CloseReads, SendReads, ReadReads DEF Next

-----------------------------------------------------------------------------
(* The properties.                                                         *)

(***************************************************************************)
(* A stamp that a signature ends up with is for that very signature, and   *)
(* answers a request that was made for it (fetchTimestamp, matches),       *)
(* however many signatures there are and whatever the service answers.     *)
(***************************************************************************)
THEOREM StampsAreOurs == Spec => []StampIsOurs
<1>1. IInv => StampIsOurs
  <2> SUFFICES ASSUME IInv, stage \in Ours,
                      NEW i \in DOMAIN message.signers,
                      NEW j \in DOMAIN message.signers[i].unsigned
               PROVE  LET si == message.signers[i]
                          token == si.unsigned[j].values[1]
                      IN /\ token.imprint = Digest(si.digest, si.signature)
                         /\ token.nonce # 0 => asked[token.nonce] = i
    BY DEF StampIsOurs, Ours
  <2> DEFINE unsigned == message.signers[i].unsigned
  <2>1. unsigned # <<>>
    OBVIOUS
  <2>2. PICK token : unsigned = <<Attribute("timeStampToken", token)>> /\ IsStampOf(token, i)
    BY <2>1 DEF IInv, Stamps
  <2>3. unsigned[j].values[1] = token
    BY <2>2 DEF Attribute
  <2> QED
    BY <2>2, <2>3 DEF IsStampOf
<1> QED
  BY <1>1, Invariance, PTL

(***************************************************************************)
(* All signatures of a message have one stamp, or none has any, whichever  *)
(* of the requests to the service fails (AddTimestamps).                   *)
(***************************************************************************)
THEOREM AllStampedOrNone == Spec => []StampedTogether
<1>1. IInv => StampedTogether
  <2> SUFFICES ASSUME IInv, stage \in Ours, ~Bare(message), NEW i \in DOMAIN message.signers
               PROVE  Len(message.signers[i].unsigned) = 1
    BY DEF StampedTogether, Ours
  <2>1. ~\A k \in DOMAIN message.signers : message.signers[k].unsigned = <<>>
    BY BareMeans DEF IInv
  <2>2. message.signers[i].unsigned # <<>>
    BY <2>1 DEF IInv, Together, Ours
  <2>3. PICK token : message.signers[i].unsigned = <<Attribute("timeStampToken", token)>>
    BY <2>2 DEF IInv, Stamps
  <2> QED
    BY <2>3
<1> QED
  BY <1>1, Invariance, PTL

(***************************************************************************)
(* What is accepted was signed: every signer that is reported has signed   *)
(* the octets that are reported, as a content or as the SET of attributes  *)
(* of one, or has signed as a content the SET of the attributes that the   *)
(* message now has; nothing else can be exchanged (signedMessageFor,       *)
(* findCertificate).                                                       *)
(***************************************************************************)
THEOREM OnlyWhatWasMade == Spec => []AcceptedWasMade
<1>1. IInv => AcceptedWasMade
  <2>1. report = NoReport => AcceptedWasMade
    BY DEF AcceptedWasMade, NoReport
  <2> QED
    BY <2>1 DEF IInv
<1> QED
  BY <1>1, Invariance, PTL

(***************************************************************************)
(* A message that nobody damaged is read as what was signed, by those who  *)
(* signed it: whatever encoding of it arrives, with lengths in any form    *)
(* and without them, and however its content was cut, the transcoder gives *)
(* the decoder the octets of the distinguished encoding (BerToDER), and    *)
(* the order of the attributes in it is the one that was signed            *)
(* (sortAttributes, MarshaledForVerification).                             *)
(***************************************************************************)
THEOREM WhatIsSentIsRead == Spec => []ReadsBack
<1>1. Init => RInv
  BY InitReads
<1>2. IInv /\ RInv /\ [Next]_vars => RInv'
  BY ReadingKept
<1>3. RInv => ReadsBack
  BY DEF RInv, ReadsBack
<1> QED
  BY <1>1, <1>2, <1>3, Invariance, PTL DEF Spec
===============================================================================
