-------------------------------- MODULE DER --------------------------------
(***************************************************************************)
(* A message arrives in the Basic Encoding Rules, which leave several      *)
(* forms for the same value, and is transcoded to the Distinguished ones   *)
(* before it is unmarshalled.                                              *)
(*                                                                         *)
(* An encoding is a sequence of octets.                                    *)
(***************************************************************************)
EXTENDS Naturals, Sequences

CONSTANT MaxBERDepth   \* the deepest nesting that is accepted

ASSUME DepthAssumption == MaxBERDepth \in Nat

Octets == 0..255

\* Four octets can hold the length.
Representable(n) == n \in Nat /\ ((n \div 256) \div 256) \div 256 \in Octets

Constructed(tag) == (tag \div 32) % 2 = 1

-----------------------------------------------------------------------------
(* Reading.  A result says where the next element starts.                  *)

\* The last octet of the identifier at a position, 0 when it is cut off.
TagEnd(ber, at, end) ==
  IF at > end THEN 0
  ELSE IF ber[at] % 32 # 31 THEN at
  ELSE LET last == {i \in at + 1..end : ber[i] < 128}
       IN IF last = {} THEN 0 ELSE CHOOSE i \in last : \A j \in last : i <= j

Wrong == [ok |-> FALSE]
Definite(length, next) == [ok |-> TRUE, length |-> length, indefinite |-> FALSE, next |-> next]

\* The number that up to four octets make, the last of them counting ones.
NumberOf(octets) ==
  LET digit(i) == IF i < Len(octets) THEN octets[Len(octets) - i] ELSE 0
  IN digit(0) + 256 * (digit(1) + 256 * (digit(2) + 256 * digit(3)))

\* The short form, the indefinite one, and up to four octets without a zero in
\* front of them.
ReadLength(ber, at, end) ==
  IF at > end THEN Wrong
  ELSE LET first == ber[at]
           n == first % 128
       IN IF first = 128 THEN [ok |-> TRUE, length |-> 0, indefinite |-> TRUE, next |-> at + 1]
          ELSE IF first < 128 THEN Definite(first, at + 1)
          ELSE IF n > 4 \/ at + n > end THEN Wrong
          ELSE IF ber[at + 1] = 0 THEN Wrong
          ELSE Definite(NumberOf(SubSeq(ber, at + 1, at + n)), at + 1 + n)

\* The shortest definite form.  Lengths of five octets are not read, nor modelled.
EncodeLength(length) ==
  LET by1 == length \div 256
      by2 == by1 \div 256
      by3 == by2 \div 256
  IN IF length < 128 THEN <<length>>
     ELSE IF by1 = 0 THEN <<129, length>>
     ELSE IF by2 = 0 THEN <<130, by1, length % 256>>
     ELSE IF by3 = 0 THEN <<131, by2, by1 % 256, length % 256>>
     ELSE <<132, by3, by2 % 256, by1 % 256, length % 256>>

Encoded(tag, content) == tag \o EncodeLength(Len(content)) \o content
Rewritten(tag, content, next) == [ok |-> TRUE, der |-> Encoded(tag, content), next |-> next]

EndOfContents == <<0, 0>>
AtEndOfContents(ber, at, end) == at + 1 <= end /\ SubSeq(ber, at, at + 1) = EndOfContents

\* transcodeElement, and its loops over the elements of a value with a length
\* ("body") and of one without ("open"), from one position up to another.
Call(what, at, end, depth) == [what |-> what, at |-> at, end |-> end, depth |-> depth]
Calls(ber) ==
  [what : {"element", "body", "open"}, at : 1..Len(ber) + 1, end : 0..Len(ber),
   depth : 0..MaxBERDepth + 1]

\* What they return, when "before" is what the calls in them return.
ReadElement(ber, before, at, end, depth) ==
  IF depth > MaxBERDepth \/ TagEnd(ber, at, end) = 0 THEN Wrong
  ELSE LET tag == SubSeq(ber, at, TagEnd(ber, at, end))
           length == ReadLength(ber, TagEnd(ber, at, end) + 1, end)
       IN IF ~length.ok THEN Wrong
          ELSE LET last == length.next + length.length - 1
                   inner == IF length.indefinite
                            THEN before[Call("open", length.next, end, depth)]
                            ELSE before[Call("body", length.next, last, depth)]
               IN IF last > end THEN Wrong
                  ELSE IF ~Constructed(tag[1])
                  THEN IF length.indefinite THEN Wrong
                       ELSE Rewritten(tag, SubSeq(ber, length.next, last), last + 1)
                  ELSE IF ~inner.ok THEN Wrong
                  ELSE Rewritten(tag, inner.der, IF length.indefinite THEN inner.next ELSE last + 1)

ReadElements(ber, before, what, at, end, depth) ==
  IF what = "body" /\ at > end THEN [ok |-> TRUE, der |-> <<>>, next |-> at]
  ELSE IF what = "open" /\ AtEndOfContents(ber, at, end)
  THEN [ok |-> TRUE, der |-> <<>>, next |-> at + 2]
  ELSE LET first == before[Call("element", at, end, depth + 1)]
           others == before[Call(what, first.next, end, depth)]
       IN IF ~first.ok THEN Wrong
          ELSE IF ~others.ok THEN Wrong
          ELSE [ok |-> TRUE, der |-> first.der \o others.der, next |-> others.next]

Reading(ber, before) ==
  [call \in Calls(ber) |->
     IF call.what = "element" THEN ReadElement(ber, before, call.at, call.end, call.depth)
     ELSE ReadElements(ber, before, call.what, call.at, call.end, call.depth)]

\* What calls return that nest at most n deep, where the next round of a loop is in
\* the one before it.  There are never more than octets, and one: an element reads
\* two octets before it calls its loop.
Transcoding(ber) ==
  LET read[n \in 0..Len(ber) + 1] == IF n = 0 THEN <<>> ELSE Reading(ber, read[n - 1])
  IN read[Len(ber) + 1][Call("element", 1, Len(ber), 0)]

\* The first value of the input; what follows it is not looked at.
BerToDER(ber) == IF ber = <<>> THEN Wrong ELSE Transcoding(ber)

-----------------------------------------------------------------------------
(* The distinguished encoding of a value, and others that the rules allow: *)
(* a value may have its length in a longer form than necessary, and a      *)
(* constructed one may have none, and an end instead.  Lengths whose       *)
(* octets begin with a zero are refused, and are not among them.           *)

Lengths(n) == {EncodeLength(n)} \cup (IF n \in 1..127 THEN {<<129, n>>} ELSE {})

\* Encodings one after the other.
Joined(parts) ==
  LET last[n \in 0..Len(parts)] ==
        IF n = 0 THEN <<>> ELSE parts[Len(parts) + 1 - n] \o last[n - 1]
  IN last[Len(parts)]

Primitive(tag, octets) == Encoded(<<tag>>, octets)
Composite(tag, values) == Encoded(<<tag>>, Joined(values))

AllPrimitive(tag, octets) == {<<tag>> \o length \o octets : length \in Lengths(Len(octets))}

\* One encoding of each value.
Selections(values) ==
  {parts \in [DOMAIN values -> UNION {values[i] : i \in DOMAIN values}] :
     \A i \in DOMAIN values : parts[i] \in values[i]}
AllComposite(tag, values) ==
  UNION {AllPrimitive(tag, Joined(parts)) \cup {<<tag, 128>> \o Joined(parts) \o EndOfContents} :
           parts \in Selections(values)}
=============================================================================
