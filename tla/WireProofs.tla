----------------------------- MODULE WireProofs -----------------------------
(***************************************************************************)
(* A connection never delivers a frame that its reader rejects, and it     *)
(* implements Channel.  The invariant relates the bytes on their way to    *)
(* the frames of which they are part: the frames under way follow each     *)
(* other without a gap, and the stream is their bytes or, after a cut, a   *)
(* prefix of them.  Facts about the codec, about the movement of bytes     *)
(* from a writer to the reader and about frames that follow each other     *)
(* come first.                                                             *)
(***************************************************************************)
EXTENDS Wire, SequenceTheorems, WellFoundedInduction, TLAPS

-----------------------------------------------------------------------------
(* The codec.                                                              *)

\* What one byte of PutUint32 takes from a number and what is left of it.
LEMMA DivMod ==
  ASSUME NEW n \in Nat
  PROVE  /\ n \div Base \in Nat /\ n % Base \in Byte
         /\ n = Base * (n \div Base) + (n % Base)
<1>1. Base \in Nat /\ Base > 1
  BY WireAssumption
<1> QED
  BY <1>1 DEF Byte

\* One byte less is needed for what is left.
LEMMA DivLess ==
  ASSUME NEW n \in Nat, NEW k \in Nat, n < Base * k
  PROVE  n \div Base < k
<1>1. Base \in Nat /\ Base > 1
  BY WireAssumption
<1>2. PICK q \in Nat, r \in 0 .. Base - 1 : q = n \div Base /\ n = Base * q + r
  BY DivMod, <1>1 DEF Byte
<1>3. Base * q < Base * k
  BY <1>1, <1>2
<1>4. q < k
  BY <1>1, <1>3
<1> QED
  BY <1>2, <1>4

\* Four bytes are enough for every length that Encode lets through, and Uint32
\* gives back what PutUint32 wrote.
LEMMA LengthRoundTrip ==
  ASSUME NEW n \in 0 .. MaxFrameSize
  PROVE  /\ PutLength(n) \in Seq(Byte) /\ Len(PutLength(n)) = 4
         /\ Length(PutLength(n)[1], PutLength(n)[2], PutLength(n)[3], PutLength(n)[4]) = n
<1>1. /\ Base \in Nat /\ Base > 1 /\ n \in Nat
      /\ n < Base * (Base * (Base * Base))
  <2>1. Base \in Nat /\ Base > 1 /\ MaxFrameSize < Base * Base * Base * Base
    BY WireAssumption
  <2>2. Base * Base * Base * Base = Base * (Base * (Base * Base))
    BY <2>1
  <2> QED
    BY <2>1, <2>2, WireAssumption
<1>2. PICK n1 \in Nat : n1 = n \div Base /\ n = Base * n1 + (n % Base)
                        /\ n1 < Base * (Base * Base)
  <2>1. Base * (Base * Base) \in Nat
    BY <1>1
  <2> QED
    BY ZenonT(30), <1>1, <2>1, DivMod, DivLess
<1>3. PICK n2 \in Nat : n2 = n1 \div Base /\ n1 = Base * n2 + (n1 % Base)
                        /\ n2 < Base * Base
  <2>1. Base * Base \in Nat
    BY <1>1
  <2> QED
    BY ZenonT(30), <1>1, <1>2, <2>1, DivMod, DivLess
<1>4. PICK n3 \in Nat : n3 = n2 \div Base /\ n2 = Base * n3 + (n2 % Base)
                        /\ n3 < Base
  BY ZenonT(30), <1>1, <1>3, DivMod, DivLess
<1>5. n3 % Base = n3
  BY <1>1, <1>4
<1>6. PutLength(n) = <<n3 % Base, n2 % Base, n1 % Base, n % Base>>
  BY <1>2, <1>3, <1>4 DEF PutLength
<1>7. /\ n % Base \in Byte /\ n1 % Base \in Byte /\ n2 % Base \in Byte /\ n3 % Base \in Byte
  BY ZenonT(30), <1>1, <1>2, <1>3, <1>4, DivMod
<1>8. PutLength(n) \in Seq(Byte) /\ Len(PutLength(n)) = 4
  BY <1>6, <1>7
<1>9. Length(n3, n2 % Base, n1 % Base, n % Base) = n
  <2> DEFINE r2 == n2 % Base  r1 == n1 % Base  r0 == n % Base
  <2>1. r2 \in Nat /\ r1 \in Nat /\ r0 \in Nat
    BY <1>1, <1>7 DEF Byte
  <2>2. n = Base * n1 + r0 /\ n1 = Base * n2 + r1 /\ n2 = Base * n3 + r2
    BY <1>2, <1>3, <1>4
  <2> HIDE DEF r2, r1, r0
  <2>3. n3 * Base + r2 = n2
    BY <2>1, <2>2, <1>1
  <2>4. n2 * Base + r1 = n1
    BY <2>1, <2>2, <1>1
  <2>5. n1 * Base + r0 = n
    BY <2>1, <2>2, <1>1
  <2>6. Length(n3, r2, r1, r0) = n
    BY <2>3, <2>4, <2>5 DEF Length
  <2> QED
    BY <2>6 DEF r2, r1, r0
<1> QED
  BY <1>5, <1>6, <1>8, <1>9

\* Encode: the type, the length and the payload are where DecodeFrame looks for
\* them.
LEMMA EncodeProperties ==
  ASSUME NEW m \in Messages, Encodable(m)
  PROVE  /\ Encode(m) \in Seq(Byte) /\ Len(m.body) \in 0 .. MaxFrameSize
         /\ Len(Encode(m)) = HeaderSize + Len(m.body)
         /\ Encode(m)[1] = m.type
         /\ Length(Encode(m)[2], Encode(m)[3], Encode(m)[4], Encode(m)[5]) = Len(m.body)
         /\ \A i \in 1 .. Len(m.body) : Encode(m)[HeaderSize + i] = m.body[i]
<1>1. m.type \in Byte /\ m.body \in Seq(Byte)
  BY WireAssumption
<1>2. Len(m.body) \in 0 .. MaxFrameSize
  BY <1>1, WireAssumption DEF Encodable
<1> DEFINE l == PutLength(Len(m.body))
<1>3. /\ l \in Seq(Byte) /\ Len(l) = 4
      /\ Length(l[1], l[2], l[3], l[4]) = Len(m.body)
  BY <1>2, LengthRoundTrip
<1> HIDE DEF l
<1>4. l \in Seq(Byte) /\ Len(l) = 4
  BY <1>3
<1> DEFINE t == <<m.type>>
<1>5. t \in Seq(Byte) /\ Len(t) = 1 /\ t[1] = m.type
  BY <1>1
<1> HIDE DEF t
<1> DEFINE h == t \o l
<1>6. /\ h \in Seq(Byte) /\ Len(h) = 5 /\ h[1] = m.type
      /\ h[2] = l[1] /\ h[3] = l[2] /\ h[4] = l[3] /\ h[5] = l[4]
  <2>1. /\ t \o l \in Seq(Byte) /\ Len(t \o l) = Len(t) + Len(l)
        /\ \A i \in 1 .. Len(t) + Len(l) :
             (t \o l)[i] = IF i <= Len(t) THEN t[i] ELSE l[i - Len(t)]
    BY ZenonT(30), <1>4, <1>5, ConcatProperties
  <2> HIDE DEF h
  <2>2. \A i \in 1 .. 5 : h[i] = IF i <= 1 THEN t[i] ELSE l[i - 1]
    BY <2>1, <1>4, <1>5 DEF h
  <2>3. h \in Seq(Byte) /\ Len(h) = 5
    BY <2>1, <1>4, <1>5 DEF h
  <2> QED
    BY <2>2, <2>3, <1>5
<1> HIDE DEF h
<1>7. /\ h \o m.body \in Seq(Byte) /\ Len(h \o m.body) = 5 + Len(m.body)
      /\ \A i \in 1 .. 5 + Len(m.body) :
           (h \o m.body)[i] = IF i <= 5 THEN h[i] ELSE m.body[i - 5]
  <2> DEFINE b == m.body
  <2>1. b \in Seq(Byte)
    BY <1>1
  <2> HIDE DEF b
  <2>2. /\ h \o b \in Seq(Byte) /\ Len(h \o b) = Len(h) + Len(b)
        /\ \A i \in 1 .. Len(h) + Len(b) :
             (h \o b)[i] = IF i <= Len(h) THEN h[i] ELSE b[i - Len(h)]
    BY ZenonT(30), <2>1, <1>6, ConcatProperties
  <2> QED
    BY <2>2, <1>6 DEF b
<1>8. Encode(m) = h \o m.body
  BY DEF Encode, h, l, t
<1> DEFINE e == Encode(m)
<1>9. /\ e \in Seq(Byte) /\ Len(e) = 5 + Len(m.body)
      /\ \A i \in 1 .. 5 + Len(m.body) : e[i] = IF i <= 5 THEN h[i] ELSE m.body[i - 5]
  BY <1>7, <1>8
<1> HIDE DEF e
<1>10. Len(m.body) \in Nat
  BY <1>1
<1>11. e[1] = h[1] /\ e[2] = h[2] /\ e[3] = h[3] /\ e[4] = h[4] /\ e[5] = h[5]
  BY <1>9, <1>10
<1>12. \A i \in 1 .. Len(m.body) : e[5 + i] = m.body[i]
  BY <1>9, <1>10
<1>13. Length(e[2], e[3], e[4], e[5]) = Len(m.body)
  BY <1>3, <1>6, <1>11
<1> QED
  BY <1>2, <1>6, <1>9, <1>11, <1>12, <1>13 DEF HeaderSize, e

\* DecodeFrame of what Encode returned is the message.
LEMMA DecodeEncode ==
  ASSUME NEW m \in Messages, Encodable(m)
  PROVE  DecodeFrame(Encode(m)) = m
<1>1. m = [type |-> m.type, body |-> m.body] /\ m.body \in Seq(Byte)
  BY WireAssumption
<1> DEFINE e == Encode(m)  n == Len(m.body)  s == SubSeq(e, HeaderSize + 1, HeaderSize + n)
<1>2. /\ e \in Seq(Byte) /\ Len(e) = HeaderSize + n /\ n \in Nat
      /\ \A i \in 1 .. n : e[HeaderSize + i] = m.body[i]
  BY <1>1, EncodeProperties
<1>3. s = m.body
  <2> HIDE DEF e
  <2>1. \A i \in HeaderSize + 1 .. HeaderSize + n : e[i] \in Byte
    BY <1>2, ElementOfSeq DEF HeaderSize
  <2>2. /\ s \in Seq(Byte) /\ Len(s) = n
        /\ \A i \in 1 .. n : s[i] = e[HeaderSize + i]
    <3>1. HeaderSize + 1 \in Int /\ HeaderSize + n \in Int
      BY <1>2 DEF HeaderSize
    <3>2. /\ s \in Seq(Byte)
          /\ Len(s) = IF HeaderSize + 1 <= HeaderSize + n
                      THEN (HeaderSize + n) - (HeaderSize + 1) + 1 ELSE 0
          /\ \A i \in 1 .. (HeaderSize + n) - (HeaderSize + 1) + 1 :
               s[i] = e[(HeaderSize + 1) + i - 1]
      BY <2>1, <3>1, SubSeqProperties
    <3> HIDE DEF s
    <3> QED
      BY <3>2, <1>2 DEF HeaderSize
  <2> HIDE DEF s
  <2>3. Len(s) = Len(m.body) /\ \A i \in 1 .. Len(s) : s[i] = m.body[i]
    BY <2>2, <1>2
  <2> QED
    BY <2>2, <2>3, <1>1, SeqEqual
<1>4. DecodeFrame(e) = [type |-> e[1], body |-> s]
  BY ZenonT(30), EncodeProperties DEF DecodeFrame
<1> QED
  BY <1>1, <1>3, <1>4, EncodeProperties

\* ReadMessage on the bytes of one frame: it waits until it has all of them, and
\* then returns the message; it rejects none.
LEMMA ReadPrefix ==
  ASSUME NEW m \in Messages, Encodable(m), NEW b \in Seq(Byte), Len(b) <= Len(Encode(m)),
         \A i \in 1 .. Len(b) : b[i] = Encode(m)[i]
  PROVE  /\ Len(b) < Len(Encode(m)) => ReadFrame(b) = More
         /\ Len(b) = Len(Encode(m)) => b = Encode(m) /\ ReadFrame(b) = Whole(m.type, m.body)
<1> DEFINE e == Encode(m)  n == Len(m.body)
<1>1. /\ e \in Seq(Byte) /\ Len(e) = HeaderSize + n /\ n \in 0 .. MaxFrameSize
      /\ e[1] = m.type /\ Length(e[2], e[3], e[4], e[5]) = n
  BY EncodeProperties
<1>2. /\ m.type \in PayloadTypes \cup EmptyTypes /\ m.body \in Seq(Byte)
      /\ n = 0 => m.type \in EmptyTypes /\ m.body = <<>>
  <2>1. m.body \in Seq(Byte)
    BY WireAssumption
  <2>2. n = 0 => m.body = <<>>
    BY <2>1, EmptySeq
  <2> QED
    BY <2>1, <2>2, WireAssumption
<1> HIDE DEF e
<1>3. CASE Len(b) < HeaderSize
  BY <1>1, <1>3 DEF ReadFrame, HeaderSize, e
<1>4. CASE Len(b) >= HeaderSize
  <2>1. /\ Len(b) \in Nat
        /\ b[1] = m.type /\ Length(b[2], b[3], b[4], b[5]) = n
    <3>1. Len(b) \in Nat /\ 1 \in 1 .. Len(b) /\ 2 \in 1 .. Len(b) /\ 3 \in 1 .. Len(b)
          /\ 4 \in 1 .. Len(b) /\ 5 \in 1 .. Len(b)
      BY <1>4 DEF HeaderSize
    <3> QED
      BY <1>1, <3>1 DEF e
  <2>2. ~(n > MaxFrameSize \/ (n = 0 /\ m.type \notin EmptyTypes))
    BY <1>1, <1>2, WireAssumption
  <2>3. CASE Len(b) < Len(e)
    BY <1>1, <2>1, <2>2, <2>3, <1>4 DEF ReadFrame, HeaderSize, e
  <2>4. CASE Len(b) = Len(e)
    <3>1. b = e
      BY <2>4, <1>1, SeqEqual DEF e
    <3>2. SubSeq(b, HeaderSize + 1, HeaderSize + n) = m.body
      BY <3>1, <1>1, DecodeEncode DEF DecodeFrame, e
    <3>3. n > 0 => ReadFrame(b) = parseMessage(m.type, m.body)
      <4>1. ~(Len(b) < HeaderSize) /\ ~(Len(b) < HeaderSize + n)
        BY <1>1, <2>1, <2>4, <1>4 DEF HeaderSize
      <4>2. n > 0 => n # 0
        BY <1>1
      <4> QED
        BY ZenonT(30), <2>1, <2>2, <3>2, <4>1, <4>2 DEF ReadFrame
    <3>4. n = 0 => ReadFrame(b) = Whole(m.type, m.body)
      BY <1>1, <1>2, <2>1, <2>2, <2>4, <1>4 DEF ReadFrame, HeaderSize
    <3> QED
      BY <1>1, <1>2, <2>4, <3>1, <3>3, <3>4 DEF parseMessage, e
  <2> QED
    BY <2>1, <2>3, <2>4, <1>1 DEF e, HeaderSize
<1> QED
  BY <1>3, <1>4 DEF HeaderSize

-----------------------------------------------------------------------------
(* Bytes that move along the stream.                                       *)

\* Concatenation of three sequences, by position.
LEMMA Concat3 ==
  ASSUME NEW S, NEW a \in Seq(S), NEW b \in Seq(S), NEW c \in Seq(S)
  PROVE  /\ (a \o b) \o c \in Seq(S)
         /\ Len((a \o b) \o c) = Len(a) + Len(b) + Len(c)
         /\ \A i \in 1 .. Len(a) + Len(b) + Len(c) :
              ((a \o b) \o c)[i] = IF i <= Len(a) THEN a[i]
                                   ELSE IF i <= Len(a) + Len(b) THEN b[i - Len(a)]
                                   ELSE c[i - Len(a) - Len(b)]
<1>1. Len(a) \in Nat /\ Len(b) \in Nat /\ Len(c) \in Nat
  BY LenProperties
<1> DEFINE ab == a \o b
<1>2. /\ ab \in Seq(S) /\ Len(ab) = Len(a) + Len(b)
      /\ \A i \in 1 .. Len(a) + Len(b) : ab[i] = IF i <= Len(a) THEN a[i] ELSE b[i - Len(a)]
  BY ConcatProperties
<1>2a. ab \in Seq(S)
  BY <1>2
<1> HIDE DEF ab
<1>3. /\ ab \o c \in Seq(S) /\ Len(ab \o c) = Len(ab) + Len(c)
      /\ \A i \in 1 .. Len(ab) + Len(c) :
           (ab \o c)[i] = IF i <= Len(ab) THEN ab[i] ELSE c[i - Len(ab)]
  BY <1>2a, ConcatProperties
<1> DEFINE abc == ab \o c
<1> HIDE DEF abc
<1>4. /\ abc \in Seq(S) /\ Len(abc) = Len(a) + Len(b) + Len(c)
      /\ \A i \in 1 .. Len(a) + Len(b) + Len(c) :
           abc[i] = IF i <= Len(a) THEN a[i]
                    ELSE IF i <= Len(a) + Len(b) THEN b[i - Len(a)]
                    ELSE c[i - Len(a) - Len(b)]
  BY SMTT(30), <1>1, <1>2, <1>3 DEF abc
<1> QED
  BY <1>4 DEF abc, ab

\* A byte that goes from the writer into the buffers stays where it is.
LEMMA WriteMoves ==
  ASSUME NEW a \in Seq(Byte), NEW b \in Seq(Byte), NEW c \in Seq(Byte), c # <<>>
  PROVE  (a \o Append(b, Head(c))) \o Tail(c) = (a \o b) \o c
<1> DEFINE b2 == Append(b, Head(c))  c2 == Tail(c)
           s == (a \o b) \o c  s2 == (a \o b2) \o c2
<1>1. Len(a) \in Nat /\ Len(b) \in Nat /\ Len(c) \in Nat /\ Len(c) > 0 /\ Head(c) = c[1]
  BY LenProperties, EmptySeq
<1>2. Head(c) \in Byte /\ c2 \in Seq(Byte) /\ Len(c2) = Len(c) - 1
      /\ \A i \in 1 .. Len(c2) : c2[i] = c[i + 1]
  BY HeadTailProperties
<1>3. /\ b2 \in Seq(Byte) /\ Len(b2) = Len(b) + 1 /\ b2[Len(b) + 1] = Head(c)
      /\ \A i \in 1 .. Len(b) : b2[i] = b[i]
  BY <1>2, AppendProperties
<1>4. /\ s \in Seq(Byte) /\ Len(s) = Len(a) + Len(b) + Len(c)
      /\ \A i \in 1 .. Len(a) + Len(b) + Len(c) :
           s[i] = IF i <= Len(a) THEN a[i]
                  ELSE IF i <= Len(a) + Len(b) THEN b[i - Len(a)]
                  ELSE c[i - Len(a) - Len(b)]
  BY Concat3
<1>4a. b2 \in Seq(Byte) /\ c2 \in Seq(Byte)
  BY <1>2, <1>3
<1> HIDE DEF b2, c2
<1>5. /\ s2 \in Seq(Byte) /\ Len(s2) = Len(a) + Len(b2) + Len(c2)
      /\ \A i \in 1 .. Len(a) + Len(b2) + Len(c2) :
           s2[i] = IF i <= Len(a) THEN a[i]
                   ELSE IF i <= Len(a) + Len(b2) THEN b2[i - Len(a)]
                   ELSE c2[i - Len(a) - Len(b2)]
  BY <1>4a, Concat3
<1> HIDE DEF s, s2
<1>6. Len(s2) = Len(s)
  BY <1>1, <1>2, <1>3, <1>4, <1>5
<1>7. ASSUME NEW i \in 1 .. Len(s2) PROVE s2[i] = s[i]
  <2>1. CASE i <= Len(a)
    BY ZenonT(30), <1>1, <1>4, <1>5, <1>6, <2>1
  <2>2. CASE i > Len(a) /\ i <= Len(a) + Len(b)
    <3>1. i - Len(a) \in 1 .. Len(b) /\ i <= Len(a) + Len(b2)
      BY <1>1, <1>3, <2>2
    <3>2. s2[i] = b2[i - Len(a)]
      BY <1>1, <1>5, <2>2, <3>1
    <3>3. s[i] = b[i - Len(a)]
      BY <1>1, <1>4, <1>6, <2>2, <3>1
    <3> QED
      BY ZenonT(30), <1>3, <3>1, <3>2, <3>3
  <2>3. CASE i = Len(a) + Len(b) + 1
    <3>1. s2[i] = b2[Len(b) + 1]
      BY <1>1, <1>3, <1>5, <2>3
    <3>2. s[i] = c[1]
      BY SMTT(30), <1>1, <1>4, <1>6, <2>3
    <3> QED
      BY <1>1, <1>3, <3>1, <3>2
  <2>4. CASE i > Len(a) + Len(b) + 1
    <3>1. i - Len(a) - Len(b) - 1 \in 1 .. Len(c2)
      BY <1>1, <1>2, <1>4, <1>6, <2>4
    <3>2. s2[i] = c2[i - Len(a) - Len(b) - 1]
      BY <1>1, <1>3, <1>5, <2>4
    <3>3. s[i] = c[i - Len(a) - Len(b)]
      BY <1>1, <1>4, <1>6, <2>4
    <3>4. c2[i - Len(a) - Len(b) - 1] = c[(i - Len(a) - Len(b) - 1) + 1]
      BY ZenonT(30), <1>2, <3>1
    <3>5. (i - Len(a) - Len(b) - 1) + 1 = i - Len(a) - Len(b)
      BY <1>1
    <3> QED
      BY <3>2, <3>3, <3>4, <3>5
  <2> QED
    BY <1>1, <2>1, <2>2, <2>3, <2>4
<1> QED
  BY ZenonT(30), <1>4, <1>5, <1>6, <1>7, SeqEqual DEF s, s2, b2, c2

\* So does a byte that goes from the buffers to the reader.
LEMMA ReadMoves ==
  ASSUME NEW a \in Seq(Byte), NEW b \in Seq(Byte), NEW c \in Seq(Byte), b # <<>>
  PROVE  (Append(a, Head(b)) \o Tail(b)) \o c = (a \o b) \o c
<1>1. Head(b) \in Byte /\ Tail(b) \in Seq(Byte) /\ Append(a, Head(b)) \in Seq(Byte)
      /\ <<>> \in Seq(Byte)
  BY HeadTailProperties, AppendProperties, EmptySeq
<1>2. (<<>> \o Append(a, Head(b))) \o Tail(b) = (<<>> \o a) \o b
  BY <1>1, WriteMoves
<1>3. <<>> \o Append(a, Head(b)) = Append(a, Head(b)) /\ <<>> \o a = a
  BY <1>1, ConcatEmptySeq
<1> QED
  BY <1>2, <1>3

-----------------------------------------------------------------------------
(* Sequences of frames.                                                    *)

\* What a call of WriteMessage writes.
IsFrame(b) == \E m \in Messages : Encodable(m) /\ b = Encode(m)

\* A frame with the position at which it starts.
FlightFrames == [bytes : Seq(Byte), start : Nat]

\* The position after the last of the frames fs, which start at d.
EndOfAll(fs, d) == IF fs = <<>> THEN d ELSE End(fs[Len(fs)])

\* The frames fs follow each other without a gap from position d on.
Adjacent(fs, d) ==
  /\ fs \in Seq(FlightFrames) /\ d \in Nat
  /\ \A i \in DOMAIN fs : IsFrame(fs[i].bytes)
  /\ fs # <<>> => fs[1].start = d
  /\ \A i \in DOMAIN fs : i + 1 \in DOMAIN fs => fs[i + 1].start = End(fs[i])
  /\ \A i, k \in DOMAIN fs : i < k => End(fs[i]) <= fs[k].start

\* The bytes s are those of the frames fs, or a prefix of them.
Carries(s, fs, d) ==
  /\ d + Len(s) <= EndOfAll(fs, d)
  /\ \A i \in DOMAIN fs : \A j \in 1 .. Len(fs[i].bytes) :
       (fs[i].start - d) + j <= Len(s) => s[(fs[i].start - d) + j] = fs[i].bytes[j]

\* A frame has a header and a payload of at most MaxFrameSize bytes.
LEMMA FrameSize ==
  ASSUME NEW b, IsFrame(b)
  PROVE  b \in Seq(Byte) /\ Len(b) \in HeaderSize .. HeaderSize + MaxFrameSize
<1>1. PICK m \in Messages : Encodable(m) /\ b = Encode(m)
  BY DEF IsFrame
<1>2. Encode(m) \in Seq(Byte) /\ Len(m.body) \in 0 .. MaxFrameSize
      /\ Len(Encode(m)) = HeaderSize + Len(m.body)
  BY <1>1, EncodeProperties
<1> QED
  BY <1>1, <1>2, WireAssumption DEF HeaderSize

\* The numbers that positions are calculated with.
LEMMA Positions ==
  ASSUME NEW fs, NEW d, Adjacent(fs, d)
  PROVE  /\ Len(fs) \in Nat /\ DOMAIN fs = 1 .. Len(fs) /\ d \in Nat
         /\ (fs = <<>>) <=> (Len(fs) = 0)
         /\ \A i \in 1 .. Len(fs) :
              /\ fs[i].start \in Nat /\ fs[i].bytes \in Seq(Byte) /\ Len(fs[i].bytes) \in Nat
              /\ Len(fs[i].bytes) >= HeaderSize
              /\ End(fs[i]) \in Nat /\ End(fs[i]) = fs[i].start + Len(fs[i].bytes)
              /\ d <= fs[i].start /\ End(fs[i]) <= EndOfAll(fs, d)
<1>1. /\ fs \in Seq(FlightFrames) /\ d \in Nat
      /\ Len(fs) \in Nat /\ DOMAIN fs = 1 .. Len(fs) /\ ((fs = <<>>) <=> (Len(fs) = 0))
  BY LenProperties, EmptySeq DEF Adjacent
<1>2. ASSUME NEW i \in 1 .. Len(fs)
      PROVE  /\ fs[i].start \in Nat /\ fs[i].bytes \in Seq(Byte) /\ Len(fs[i].bytes) \in Nat
             /\ Len(fs[i].bytes) >= HeaderSize
             /\ End(fs[i]) \in Nat /\ End(fs[i]) = fs[i].start + Len(fs[i].bytes)
  <2>1. fs[i] \in FlightFrames
    BY <1>1, ElementOfSeq
  <2>2. Len(fs[i].bytes) \in HeaderSize .. HeaderSize + MaxFrameSize
    BY <1>1, FrameSize DEF Adjacent
  <2> QED
    BY <2>1, <2>2, WireAssumption DEF FlightFrames, End, HeaderSize
<1>3. ASSUME NEW i \in 1 .. Len(fs)
      PROVE  d <= fs[i].start /\ End(fs[i]) <= EndOfAll(fs, d)
  <2>1. 1 \in 1 .. Len(fs) /\ Len(fs) \in 1 .. Len(fs) /\ fs # <<>>
    BY <1>1
  <2>2. fs[1].start = d
    BY <2>1 DEF Adjacent
  <2>3. d <= fs[i].start
    <3>1. i = 1 \/ End(fs[1]) <= fs[i].start
      BY <1>1, <2>1 DEF Adjacent
    <3> QED
      BY SMTT(30), <1>1, <1>2, <2>1, <2>2, <3>1
  <2>4. i = Len(fs) \/ End(fs[i]) <= fs[Len(fs)].start
    <3>1. \A k \in 1 .. Len(fs) : i < k => End(fs[i]) <= fs[k].start
      BY <1>1 DEF Adjacent
    <3>2. Len(fs) \in Nat
      BY <1>1
    <3>3. Len(fs) \in 1 .. Len(fs) /\ (i = Len(fs) \/ i < Len(fs))
      BY <3>2
    <3> QED
      BY <3>1, <3>3
  <2> QED
    BY SMTT(30), <1>2, <2>1, <2>3, <2>4 DEF EndOfAll
<1> QED
  BY <1>1, <1>2, <1>3

\* A writer that locks adds its frame behind the others.
LEMMA AddFrame ==
  ASSUME NEW fs, NEW d, NEW s \in Seq(Byte), NEW b,
         Adjacent(fs, d), Carries(s, fs, d), d + Len(s) = EndOfAll(fs, d), IsFrame(b)
  PROVE  LET g == Append(fs, [bytes |-> b, start |-> d + Len(s)])
         IN  /\ Adjacent(g, d) /\ Carries(s \o b, g, d)
             /\ d + Len(s \o b) = EndOfAll(g, d)
             /\ Len(g) = Len(fs) + 1 /\ g # <<>>
             /\ g[1].bytes = IF fs = <<>> THEN b ELSE fs[1].bytes
<1> DEFINE n == Len(fs)  f == [bytes |-> b, start |-> d + Len(s)]  g == Append(fs, f)
<1>1. /\ n \in Nat /\ DOMAIN fs = 1 .. n /\ d \in Nat /\ ((fs = <<>>) <=> (n = 0))
      /\ \A i \in 1 .. n :
           /\ fs[i].start \in Nat /\ Len(fs[i].bytes) \in Nat
           /\ End(fs[i]) \in Nat /\ End(fs[i]) = fs[i].start + Len(fs[i].bytes)
           /\ d <= fs[i].start /\ End(fs[i]) <= EndOfAll(fs, d)
  BY Positions
<1>2. b \in Seq(Byte) /\ Len(b) \in Nat /\ Len(s) \in Nat
  BY FrameSize, LenProperties
<1>3. f \in FlightFrames /\ f.start = EndOfAll(fs, d) /\ f.bytes = b
      /\ f.start = d + Len(s) /\ End(f) = d + Len(s) + Len(b)
  BY <1>1, <1>2 DEF FlightFrames, End
<1> HIDE DEF f
<1>4. fs \in Seq(FlightFrames)
  BY DEF Adjacent
<1>5. /\ g \in Seq(FlightFrames) /\ g # <<>> /\ Len(g) = n + 1 /\ g[n + 1] = f
      /\ \A i \in 1 .. n : g[i] = fs[i]
  BY <1>3, <1>4, AppendProperties
<1> HIDE DEF g
<1>6. DOMAIN g = 1 .. n + 1
  BY <1>5, LenProperties
<1>7. Adjacent(g, d)
  <2>1. \A i \in DOMAIN g : IsFrame(g[i].bytes)
    <3>1. \A i \in 1 .. n : IsFrame(fs[i].bytes)
      BY <1>1 DEF Adjacent
    <3> QED
      BY <1>1, <1>3, <1>5, <1>6, <3>1
  <2>2. g[1].start = d
    <3>1. CASE n = 0
      BY <3>1, <1>1, <1>3, <1>5 DEF EndOfAll
    <3>2. CASE n > 0
      BY <3>2, <1>1, <1>5 DEF Adjacent
    <3> QED
      BY <3>1, <3>2, <1>1
  <2>3. ASSUME NEW i \in DOMAIN g, i + 1 \in DOMAIN g
        PROVE  g[i + 1].start = End(g[i])
    <3>1. i \in 1 .. n /\ g[i] = fs[i]
      BY <2>3, <1>1, <1>5, <1>6
    <3>2. CASE i = n
      BY <3>1, <3>2, <1>1, <1>3, <1>5 DEF EndOfAll
    <3>3. CASE i < n
      <4>1. i + 1 \in 1 .. n /\ g[i + 1] = fs[i + 1]
        BY <3>1, <3>3, <1>1, <1>5
      <4>2. fs[i + 1].start = End(fs[i])
        BY <3>1, <4>1, <1>1 DEF Adjacent
      <4> QED
        BY <3>1, <4>1, <4>2
    <3> QED
      BY <3>1, <3>2, <3>3, <1>1
  <2>4. ASSUME NEW i \in DOMAIN g, NEW k \in DOMAIN g, i < k
        PROVE  End(g[i]) <= g[k].start
    <3>1. i \in 1 .. n /\ g[i] = fs[i]
      BY <2>4, <1>1, <1>5, <1>6
    <3>2. CASE k = n + 1
      BY <3>1, <3>2, <1>1, <1>3, <1>5
    <3>3. CASE k \in 1 .. n
      BY <3>1, <3>3, <2>4, <1>1, <1>5 DEF Adjacent
    <3> QED
      BY <3>2, <3>3, <1>1, <1>6
  <2> QED
    BY <1>1, <1>5, <2>1, <2>2, <2>3, <2>4 DEF Adjacent
<1> DEFINE t == s \o b
<1>8. /\ t \in Seq(Byte) /\ Len(t) = Len(s) + Len(b)
      /\ \A i \in 1 .. Len(s) + Len(b) : t[i] = IF i <= Len(s) THEN s[i] ELSE b[i - Len(s)]
  BY <1>2, ConcatProperties
<1> HIDE DEF t
<1>9. d + Len(t) = EndOfAll(g, d)
  BY <1>1, <1>2, <1>3, <1>5, <1>8 DEF EndOfAll
<1>10. ASSUME NEW i \in DOMAIN g, NEW j \in 1 .. Len(g[i].bytes),
              (g[i].start - d) + j <= Len(t)
       PROVE  t[(g[i].start - d) + j] = g[i].bytes[j]
  <2>1. CASE i = n + 1
    <3>1. (g[i].start - d) + j = Len(s) + j /\ j \in 1 .. Len(b) /\ g[i].bytes = b
      BY <2>1, <1>1, <1>2, <1>3, <1>5
    <3>2. t[Len(s) + j] = b[(Len(s) + j) - Len(s)]
      <4>1. Len(s) + j \in 1 .. Len(s) + Len(b) /\ ~(Len(s) + j <= Len(s))
        BY <3>1, <1>2
      <4> QED
        BY <4>1, <1>8
    <3>3. (Len(s) + j) - Len(s) = j
      BY <3>1, <1>2
    <3> QED
      BY <3>1, <3>2, <3>3
  <2>2. CASE i \in 1 .. n
    <3>1. g[i] = fs[i] /\ j \in 1 .. Len(fs[i].bytes)
      BY <2>2, <1>5
    <3>2. (fs[i].start - d) + j \in 1 .. Len(s)
      <4>1. /\ fs[i].start \in Nat /\ Len(fs[i].bytes) \in Nat /\ d <= fs[i].start
            /\ fs[i].start + Len(fs[i].bytes) <= d + Len(s)
        BY <2>2, <1>1
      <4> DEFINE p == fs[i].start  l == Len(fs[i].bytes)
      <4>2. /\ p \in Nat /\ l \in Nat /\ d \in Nat /\ Len(s) \in Nat
            /\ d <= p /\ p + l <= d + Len(s) /\ j \in 1 .. l
        BY <3>1, <4>1, <1>1, <1>2
      <4> HIDE DEF p, l
      <4>3. (p - d) + j \in 1 .. Len(s)
        BY <4>2
      <4> QED
        BY <4>3 DEF p
    <3>3. s[(fs[i].start - d) + j] = fs[i].bytes[j]
      BY <2>2, <3>1, <3>2, <1>1 DEF Carries
    <3>4. t[(fs[i].start - d) + j] = s[(fs[i].start - d) + j]
      BY <3>2, <1>2, <1>8
    <3> QED
      BY <3>1, <3>3, <3>4
  <2> QED
    BY <2>1, <2>2, <1>1, <1>6
<1>11. Carries(t, g, d)
  <2>1. d + Len(t) <= EndOfAll(g, d)
    BY <1>1, <1>2, <1>8, <1>9
  <2> QED
    BY <2>1, <1>10 DEF Carries
<1>12. g[1].bytes = IF fs = <<>> THEN b ELSE fs[1].bytes
  BY <1>1, <1>3, <1>5
<1> QED
  BY SMTT(30), <1>5, <1>7, <1>9, <1>11, <1>12 DEF t, g, f

\* The bytes t are the bytes s without the first l of them.
Shifted(t, s, l) == Len(s) = Len(t) + l /\ \A i \in 1 .. Len(t) : t[i] = s[i + l]

\* The reader takes the first frame.
LEMMA TakeFrame ==
  ASSUME NEW fs, NEW d, NEW s \in Seq(Byte), NEW t \in Seq(Byte), NEW l,
         Adjacent(fs, d), Carries(s, fs, d), fs # <<>>,
         l = Len(fs[1].bytes), Shifted(t, s, l)
  PROVE  /\ Adjacent(Tail(fs), d + l) /\ Carries(t, Tail(fs), d + l)
         /\ EndOfAll(Tail(fs), d + l) = EndOfAll(fs, d)
<1> DEFINE n == Len(fs)  g == Tail(fs)  e == d + l
<1>1. /\ n \in Nat /\ DOMAIN fs = 1 .. n /\ d \in Nat /\ n > 0
      /\ \A i \in 1 .. n :
           /\ fs[i].start \in Nat /\ Len(fs[i].bytes) \in Nat
           /\ End(fs[i]) \in Nat /\ End(fs[i]) = fs[i].start + Len(fs[i].bytes)
  BY Positions
<1>2. fs \in Seq(FlightFrames)
  BY DEF Adjacent
<1>3. /\ g \in Seq(FlightFrames) /\ Len(g) = n - 1
      /\ \A i \in 1 .. Len(g) : g[i] = fs[i + 1]
  BY <1>2, HeadTailProperties
<1>4. DOMAIN g = 1 .. n - 1 /\ ((g = <<>>) <=> (n = 1))
  <2> HIDE DEF g, n
  <2>1. DOMAIN g = 1 .. Len(g) /\ ((g = <<>>) <=> (Len(g) = 0))
    BY ZenonT(30), <1>3, LenProperties, EmptySeq
  <2> QED
    BY <2>1, <1>1, <1>3
<1>5. \A i \in 1 .. n - 1 : i \in 1 .. n /\ i + 1 \in 1 .. n /\ g[i] = fs[i + 1]
  BY <1>1, <1>3
<1> HIDE DEF g
<1>6. n \in Nat /\ 1 \in 1 .. n /\ n \in 1 .. n /\ d \in Nat /\ l \in Nat /\ e \in Nat
      /\ Len(s) \in Nat /\ Len(t) \in Nat /\ Len(s) = Len(t) + l
  BY <1>1, LenProperties DEF Shifted
<1>7. fs[1].start = d /\ End(fs[1]) = e
  BY ZenonT(30), <1>1, <1>6 DEF Adjacent
<1>8. \A i, k \in 1 .. n : i < k => End(fs[i]) <= fs[k].start
  BY ZenonT(30), <1>1 DEF Adjacent
<1>9. \A i \in 1 .. n - 1 : fs[i + 1].start = End(fs[i])
  BY ZenonT(30), <1>1, <1>5 DEF Adjacent
<1>10. EndOfAll(g, e) = EndOfAll(fs, d)
  <2>1. CASE n = 1
    BY <2>1, <1>4, <1>7 DEF EndOfAll
  <2>2. CASE n > 1
    <3>1. n - 1 \in 1 .. n - 1 /\ (n - 1) + 1 = n
      BY <2>2, <1>6
    <3>2. g[n - 1] = fs[n] /\ g # <<>>
      BY <2>2, <3>1, <1>4, <1>5
    <3> QED
      BY <3>2, <1>3 DEF EndOfAll
  <2> QED
    BY <2>1, <2>2, <1>1
<1>11. Adjacent(g, e)
  <2>1. \A i \in DOMAIN g : IsFrame(g[i].bytes)
    <3>1. \A i \in 1 .. n : IsFrame(fs[i].bytes)
      BY SMTT(30), <1>1 DEF Adjacent
    <3> QED
      BY ZenonT(30), <1>4, <1>5, <3>1
  <2>2. g # <<>> => g[1].start = e
    <3>1. ASSUME n > 1 PROVE g[1].start = e
      <4>1. 1 \in 1 .. n - 1
        BY <3>1, <1>6
      <4>2. g[1] = fs[1 + 1] /\ fs[1 + 1].start = End(fs[1])
        BY <4>1, <1>5, <1>9
      <4> QED
        BY <4>2, <1>7
    <3> QED
      BY <3>1, <1>1, <1>4
  <2>3. ASSUME NEW i \in DOMAIN g, i + 1 \in DOMAIN g
        PROVE  g[i + 1].start = End(g[i])
    <3>1. i \in 1 .. n - 1 /\ i + 1 \in 1 .. n - 1
      BY <2>3, <1>4
    <3>2. g[i] = fs[i + 1] /\ g[i + 1] = fs[(i + 1) + 1]
      BY <3>1, <1>5
    <3> QED
      BY ZenonT(30), <3>1, <3>2, <1>9
  <2>4. ASSUME NEW i \in DOMAIN g, NEW k \in DOMAIN g, i < k
        PROVE  End(g[i]) <= g[k].start
    <3>1. i \in 1 .. n - 1 /\ k \in 1 .. n - 1
      BY <1>4
    <3>2. g[i] = fs[i + 1] /\ g[k] = fs[k + 1] /\ i + 1 \in 1 .. n /\ k + 1 \in 1 .. n
      BY SMTT(30), <3>1, <1>5
    <3>3. i + 1 < k + 1
      BY <3>1, <2>4
    <3> QED
      BY <3>2, <3>3, <1>8
  <2> QED
    BY <1>3, <1>6, <2>1, <2>2, <2>3, <2>4 DEF Adjacent
<1>12. Carries(t, g, e)
  <2>1. e + Len(t) <= EndOfAll(g, e)
    <3>1. d + Len(s) <= EndOfAll(fs, d)
      BY DEF Carries
    <3>2. e + Len(t) = d + Len(s)
      BY <1>6
    <3> QED
      BY <3>1, <3>2, <1>10
  <2>2. ASSUME NEW i \in DOMAIN g, NEW j \in 1 .. Len(g[i].bytes),
               (g[i].start - e) + j <= Len(t)
        PROVE  t[(g[i].start - e) + j] = g[i].bytes[j]
    <3>1. i \in 1 .. n - 1 /\ i + 1 \in 1 .. n /\ g[i] = fs[i + 1]
      BY <1>4, <1>5
    <3> DEFINE p == fs[i + 1].start  m == Len(fs[i + 1].bytes)
    <3>2. p \in Nat /\ m \in Nat /\ j \in 1 .. m /\ (p - e) + j <= Len(t)
      BY SMTT(30), <3>1, <1>1, <2>2
    <3>3. e <= p
      <4>1. 1 < i + 1
        BY <3>1
      <4> QED
        BY SMTT(30), <4>1, <3>1, <1>6, <1>7, <1>8
    <3>4. s[(p - d) + j] = fs[i + 1].bytes[j]
      <4>1. (p - d) + j <= Len(s)
        <5> HIDE DEF p, m
        <5> QED
          BY <3>2, <1>6
      <4> QED
        BY ZenonT(30), <3>1, <3>2, <4>1, <1>1 DEF Carries
    <3> HIDE DEF p, m
    <3>5. (p - e) + j \in 1 .. Len(t) /\ ((p - e) + j) + l = (p - d) + j
      BY <3>2, <3>3, <1>6
    <3>6. t[(p - e) + j] = s[(p - d) + j]
      BY SMTT(30), <3>5 DEF Shifted
    <3> QED
      BY <3>1, <3>4, <3>6 DEF p
  <2> QED
    BY <2>1, <2>2 DEF Carries
<1> QED
  BY <1>3, <1>10, <1>11, <1>12 DEF g

\* A cut leaves a prefix.
LEMMA CutStream ==
  ASSUME NEW fs, NEW d, NEW s \in Seq(Byte), NEW t \in Seq(Byte),
         Adjacent(fs, d), Carries(s, fs, d), Len(t) <= Len(s),
         \A i \in 1 .. Len(t) : t[i] = s[i]
  PROVE  Carries(t, fs, d)
<1>1. Len(s) \in Nat /\ Len(t) \in Nat /\ d \in Nat
  BY LenProperties DEF Adjacent
<1>2. d + Len(t) <= EndOfAll(fs, d)
  <2>1. EndOfAll(fs, d) \in Nat
    BY Positions DEF EndOfAll
  <2>2. d + Len(s) <= EndOfAll(fs, d)
    BY DEF Carries
  <2> QED
    BY <1>1, <2>1, <2>2
<1>3. ASSUME NEW i \in DOMAIN fs, NEW j \in 1 .. Len(fs[i].bytes),
             (fs[i].start - d) + j <= Len(t)
      PROVE  t[(fs[i].start - d) + j] = fs[i].bytes[j]
  <2> DEFINE p == (fs[i].start - d) + j
  <2>1. fs[i].start \in Nat /\ d <= fs[i].start
    BY Positions
  <2>2. p \in 1 .. Len(t) /\ p <= Len(s)
    BY <1>1, <1>3, <2>1
  <2>3. s[p] = fs[i].bytes[j]
    BY <2>2 DEF Carries
  <2> QED
    BY <2>2, <2>3
<1> QED
  BY <1>2, <1>3 DEF Carries

\* A nonempty set of natural numbers has a least element.
LEMMA LeastNat ==
  ASSUME NEW T, T \subseteq Nat, T # {}
  PROVE  \E x \in T : \A y \in T : x <= y
<1> DEFINE R == OpToRel(<, Nat)
<1>1. IsWellFoundedOn(R, Nat)
  BY ZenonT(30), NatLessThanWellFounded
<1>2. \A x, y \in Nat : <<x, y>> \in R <=> x < y
  BY DEF OpToRel
<1> HIDE DEF R
<1>3. PICK x \in T : \A y \in T : ~(<<y, x>> \in R)
  BY ZenonT(30), <1>1, WFMin
<1>4. ASSUME NEW y \in T PROVE x <= y
  <2>1. x \in Nat /\ y \in Nat
    OBVIOUS
  <2>2. ~(y < x)
    BY ZenonT(30), <1>2, <1>3, <2>1
  <2> QED
    BY <2>1, <2>2
<1> QED
  BY <1>4

\* Complete counts the frames that end at a position or before it.
LEMMA CompleteProperties ==
  ASSUME NEW fs, NEW d, NEW limit \in Nat, Adjacent(fs, d)
  PROVE  /\ Complete(fs, limit) \in 0 .. Len(fs)
         /\ \A i \in 1 .. Len(fs) : i <= Complete(fs, limit) <=> End(fs[i]) <= limit
<1>1. Len(fs) \in Nat /\ DOMAIN fs = 1 .. Len(fs)
  BY Positions
<1>2. \A i \in 1 .. Len(fs) : End(fs[i]) \in Nat /\ fs[i].start \in Nat /\ fs[i].start <= End(fs[i])
  BY Positions
<1>3. \A i, k \in 1 .. Len(fs) : i < k => End(fs[i]) <= fs[k].start
  BY <1>1 DEF Adjacent
<1> DEFINE T == {i \in 1 .. Len(fs) : End(fs[i]) > limit} \cup {Len(fs) + 1}
<1>4. Len(fs) \in Nat
  BY <1>1
<1>5. T \subseteq Nat /\ T # {} /\ Len(fs) + 1 \in T
  BY <1>4
<1>6. PICK x \in T : \A y \in T : x <= y
  BY ZenonT(30), <1>5, LeastNat
<1>7. x - 1 \in 0 .. Len(fs)
  BY <1>4, <1>6
<1>8. ASSUME NEW i \in 1 .. Len(fs) PROVE i <= x - 1 <=> End(fs[i]) <= limit
  <2>1. CASE i <= x - 1
    <3>1. i \notin T
      BY <2>1, <1>6, <1>7, <1>4
    <3> QED
      BY <3>1, <2>1, <1>2
  <2>2. CASE i > x - 1
    <3>1. x \in 1 .. Len(fs) /\ End(fs[x]) > limit /\ (x = i \/ x < i)
      BY <2>2, <1>4, <1>6, <1>7
    <3>2. CASE x = i
      BY <3>1, <3>2, <2>2, <1>2
    <3>3. CASE x < i
      <4>1. End(fs[x]) <= fs[i].start
        BY <3>1, <3>3, <1>3
      <4>2. End(fs[i]) > limit
        BY <4>1, <3>1, <1>2
      <4> QED
        BY <4>2, <2>2, <1>2, <1>7
    <3> QED
      BY <3>1, <3>2, <3>3
  <2> QED
    BY <2>1, <2>2, <1>7
<1>9. \E n \in 0 .. Len(fs) : \A i \in DOMAIN fs : i <= n <=> End(fs[i]) <= limit
  BY ZenonT(30), <1>1, <1>7, <1>8
<1> QED
  BY <1>1, <1>9 DEF Complete

-----------------------------------------------------------------------------
(* The inductive invariant.                                                *)

\* The lock is held by a writer inside WriteMessage, and a frame that was not
\* begun is whole.
WritersOK ==
  /\ wmu # None => wmu \in busy
  /\ \A w \in Writers \ busy : frame[w] = <<>>
  /\ \A w \in busy \ {wmu} : IsFrame(frame[w])

\* The stream is made of the frames under way, and the reader is in the first.
StreamOK ==
  /\ Adjacent(flight, done)
  /\ Carries(Stream, flight, done)
  /\ up => done + Len(Stream) = EndOfAll(flight, done)
  /\ flight # <<>> => Len(rbuf) < Len(flight[1].bytes)

Inv == TypeOK /\ WritersOK /\ StreamOK /\ NeverRejects

-----------------------------------------------------------------------------
(* The inductive invariant, action by action.                              *)

\* A new connection has nothing under way.
LEMMA InitInv == Init => Inv
<1> SUFFICES ASSUME Init PROVE Inv
  OBVIOUS
<1>1. <<>> \in Seq(Byte) /\ <<>> \in Seq(Messages) /\ <<>> \in Seq(FlightFrames)
      /\ Len(<<>>) = 0 /\ DOMAIN <<>> = {}
  BY EmptySeq
<1>2. TypeOK
  BY <1>1, WireAssumption DEF Init, TypeOK, HeaderSize
<1>3. WritersOK
  BY DEF Init, WritersOK
<1>4. Stream = <<>>
  <2>1. Unwritten = <<>> /\ rbuf = <<>> /\ pipe = <<>>
    BY DEF Init, Unwritten
  <2> QED
    BY <1>1, <2>1, ConcatEmptySeq DEF Stream
<1>5. StreamOK
  BY <1>1, <1>4 DEF Init, StreamOK, Adjacent, Carries, EndOfAll
<1> QED
  BY <1>2, <1>3, <1>5 DEF Init, Inv, NeverRejects

\* The parts of the stream are sequences of bytes.
LEMMA StreamType ==
  ASSUME TypeOK
  PROVE  /\ rbuf \in Seq(Byte) /\ pipe \in Seq(Byte) /\ Unwritten \in Seq(Byte)
         /\ Stream = (rbuf \o pipe) \o Unwritten /\ Stream \in Seq(Byte)
         /\ Len(rbuf) \in Nat /\ Len(pipe) \in Nat /\ Len(Unwritten) \in Nat
         /\ Len(Stream) \in Nat /\ Len(Stream) = Len(rbuf) + Len(pipe) + Len(Unwritten)
<1>1. rbuf \in Seq(Byte) /\ pipe \in Seq(Byte) /\ Unwritten \in Seq(Byte)
  <2>1. <<>> \in Seq(Byte)
    BY EmptySeq
  <2> QED
    BY <2>1 DEF TypeOK, Unwritten
<1>2. Stream = (rbuf \o pipe) \o Unwritten
  BY DEF Stream
<1>3. Len(rbuf) \in Nat /\ Len(pipe) \in Nat /\ Len(Unwritten) \in Nat
  BY <1>1, LenProperties
<1>4. Stream \in Seq(Byte) /\ Len(Stream) = Len(rbuf) + Len(pipe) + Len(Unwritten)
  <2> DEFINE u == Unwritten
  <2> HIDE DEF u
  <2>1. (rbuf \o pipe) \o u \in Seq(Byte)
        /\ Len((rbuf \o pipe) \o u) = Len(rbuf) + Len(pipe) + Len(u)
    BY <1>1, Concat3 DEF u
  <2> QED
    BY <2>1, <1>2 DEF u
<1> QED
  BY <1>1, <1>2, <1>3, <1>4

\* A step that moves no byte and adds no frame keeps StreamOK.
LEMMA StreamKept ==
  ASSUME StreamOK, Stream' = Stream, UNCHANGED <<flight, done, rbuf>>, up' => up
  PROVE  StreamOK'
BY ZenonT(30)
   DEF StreamOK, Adjacent, Carries, EndOfAll, End, IsFrame, Encodable, Encode, FlightFrames

\* WriteMessage encodes before it locks: the frame is not yet part of the stream.
LEMMA WriteBeginsInv ==
  ASSUME Inv, NEW w \in Writers, NEW m \in Messages, WriteBegins(w, m)
  PROVE  Inv' /\ Stream' = Stream
<1>1. Encodable(m) => Encode(m) \in Seq(Byte) /\ IsFrame(Encode(m))
  BY EncodeProperties DEF IsFrame
<1>2. wmu # None => wmu # w
  BY DEF Inv, WritersOK, WriteBegins
<1>3. Unwritten' = Unwritten
  BY <1>2 DEF WriteBegins, Unwritten, Inv, TypeOK
<1>4. Stream' = Stream
  BY <1>3 DEF WriteBegins, Stream
<1>5. TypeOK'
  <2>1. frame' \in [Writers -> Seq(Byte)] /\ busy' \subseteq Writers
    BY ZenonT(30), <1>1 DEF WriteBegins, Inv, TypeOK
  <2>2. calls' \in 0 .. MaxMessages
    BY WireAssumption DEF WriteBegins, Inv, TypeOK
  <2> QED
    BY <2>1, <2>2 DEF WriteBegins, Inv, TypeOK
<1>6. WritersOK'
  <2>1. CASE Encodable(m)
    <3>1. frame' = [frame EXCEPT ![w] = Encode(m)] /\ busy' = busy \cup {w} /\ wmu' = wmu
      BY <2>1 DEF WriteBegins
    <3>2. \A v \in Writers : frame'[v] = IF v = w THEN Encode(m) ELSE frame[v]
      BY <3>1 DEF Inv, TypeOK
    <3> QED
      BY <1>1, <2>1, <3>1, <3>2 DEF Inv, WritersOK, TypeOK, IsFrame
  <2>2. CASE ~Encodable(m)
    BY <2>2 DEF WriteBegins, Inv, WritersOK, IsFrame
  <2> QED
    BY <2>1, <2>2
<1>7. StreamOK'
  BY <1>4, StreamKept DEF WriteBegins, hist, Inv
<1> QED
  BY <1>4, <1>5, <1>6, <1>7 DEF Inv, NeverRejects, WriteBegins

\* A byte that conn.Write hands to the kernel keeps its place in the stream.
LEMMA WriteByteInv ==
  ASSUME Inv, NEW w \in Writers, WriteByte(w)
  PROVE  Inv' /\ Stream' = Stream
<1> DEFINE f == frame[w]
<1>1. /\ f \in Seq(Byte) /\ f # <<>> /\ Unwritten = f /\ wmu # None
      /\ rbuf \in Seq(Byte) /\ pipe \in Seq(Byte)
  BY WireAssumption DEF Inv, TypeOK, WriteByte, Unwritten
<1>2. /\ frame'[w] = Tail(f) /\ pipe' = Append(pipe, Head(f)) /\ rbuf' = rbuf
      /\ frame' = [frame EXCEPT ![w] = Tail(f)]
  BY DEF WriteByte, Inv, TypeOK
<1>3. Unwritten' = Tail(f)
  BY <1>1, <1>2 DEF WriteByte, Unwritten
<1>4. Stream' = Stream
  <2>1. (rbuf \o Append(pipe, Head(f))) \o Tail(f) = (rbuf \o pipe) \o f
    <3> HIDE DEF f
    <3>1. Head(f) \in Byte /\ Tail(f) \in Seq(Byte) /\ Append(pipe, Head(f)) \in Seq(Byte)
      BY <1>1, HeadTailProperties, AppendProperties
    <3> QED
      BY ZenonT(30), <1>1, <3>1, WriteMoves
  <2> QED
    BY ZenonT(30), <1>1, <1>2, <1>3, <2>1 DEF Stream
<1>5. TypeOK'
  <2>1. Head(f) \in Byte /\ Tail(f) \in Seq(Byte)
    BY <1>1, HeadTailProperties
  <2>2. pipe' \in Seq(Byte) /\ Len(pipe') = Len(pipe) + 1 /\ Len(pipe) \in Nat
    BY <1>1, <1>2, <2>1, AppendProperties, LenProperties
  <2>3. Len(pipe') <= PipeCap
    BY <2>2, WireAssumption DEF WriteByte
  <2>4. frame' \in [Writers -> Seq(Byte)]
    BY <1>2, <2>1 DEF Inv, TypeOK
  <2> QED
    BY <2>2, <2>3, <2>4 DEF WriteByte, Inv, TypeOK
<1>6. WritersOK'
  <2>1. \A v \in Writers : v # w => frame'[v] = frame[v]
    BY <1>2 DEF Inv, TypeOK
  <2>2. wmu' = wmu /\ wmu = w /\ w \in busy /\ busy' = busy /\ busy \subseteq Writers
    BY <1>1 DEF WriteByte, Inv, WritersOK, TypeOK
  <2> QED
    BY <2>1, <2>2 DEF Inv, WritersOK, IsFrame
<1>7. StreamOK'
  BY <1>4, StreamKept DEF WriteByte, hist, Inv
<1> QED
  BY <1>4, <1>5, <1>6, <1>7 DEF Inv, NeverRejects, WriteByte

\* WriteMessage unlocks when its whole frame is written, or there is no stream.
LEMMA WriteReturnsInv ==
  ASSUME Inv, NEW w \in Writers, WriteReturns(w)
  PROVE  Inv' /\ Stream' = Stream
<1>1. frame' = [frame EXCEPT ![w] = <<>>] /\ busy' = busy \ {w} /\ wmu' = None /\ wmu = w
  BY DEF WriteReturns
<1>2. Unwritten = <<>> /\ Unwritten' = <<>>
  BY DEF WriteReturns, Unwritten
<1>3. Stream' = Stream
  BY <1>2 DEF WriteReturns, Stream
<1>4. TypeOK'
  <2>1. <<>> \in Seq(Byte)
    BY EmptySeq
  <2> QED
    BY <1>1, <2>1 DEF WriteReturns, Inv, TypeOK
<1>5. WritersOK'
  <2>1. \A v \in Writers : frame'[v] = IF v = w THEN <<>> ELSE frame[v]
    BY <1>1 DEF Inv, TypeOK
  <2> QED
    BY <1>1, <2>1 DEF Inv, WritersOK, TypeOK, IsFrame
<1>6. StreamOK'
  BY <1>3, StreamKept DEF WriteReturns, hist, Inv
<1> QED
  BY <1>3, <1>4, <1>5, <1>6 DEF Inv, NeverRejects, WriteReturns

\* ReadMessage returns io.EOF.
LEMMA ReadEOFInv ==
  ASSUME Inv, ReadEOF
  PROVE  Inv' /\ Stream' = Stream
<1>1. Stream' = Stream
  BY DEF ReadEOF, Stream, Unwritten
<1>2. StreamOK'
  BY <1>1, StreamKept DEF ReadEOF, hist, Inv
<1> QED
  BY <1>1, <1>2 DEF Inv, TypeOK, WritersOK, IsFrame, NeverRejects, ReadEOF

\* The lock is taken while the connection is there: the frame is appended to
\* those under way.
LEMMA WriteLocksInv ==
  ASSUME Inv, NEW w \in Writers, WriteLocks(w)
  PROVE  /\ Inv'
         /\ up => IsFrame(frame[w])
                  /\ flight' = Append(flight, [bytes |-> frame[w], start |-> done + Len(Stream)])
         /\ ~up => Stream' = Stream /\ flight' = flight
<1>1. w \in busy /\ wmu = None /\ wmu' = w /\ w # None
  BY WireAssumption DEF WriteLocks
<1>2. frame[w] \in Seq(Byte) /\ IsFrame(frame[w])
  BY <1>1 DEF Inv, TypeOK, WritersOK
<1>3. Unwritten = <<>> /\ Unwritten' = IF up THEN frame[w] ELSE <<>>
  BY <1>1 DEF WriteLocks, Unwritten
<1>4. TypeOK'
  BY <1>1 DEF WriteLocks, Inv, TypeOK
<1>5. WritersOK'
  <2>1. frame' = frame /\ busy' = busy /\ wmu' = w
    BY DEF WriteLocks
  <2>2. \A v \in busy : IsFrame(frame[v])
    <3>1. wmu \notin busy
      BY <1>1, WireAssumption DEF Inv, TypeOK
    <3> QED
      BY <3>1 DEF Inv, WritersOK
  <2>3. \A v \in Writers \ busy : frame[v] = <<>>
    BY DEF Inv, WritersOK
  <2> QED
    BY <1>1, <2>1, <2>2, <2>3 DEF WritersOK, IsFrame
<1>6. CASE ~up
  <2>1. Stream' = Stream
    BY <1>3, <1>6 DEF WriteLocks, Stream
  <2>2. StreamOK'
    BY <1>6, <2>1, StreamKept DEF WriteLocks, Inv
  <2> QED
    BY <1>4, <1>5, <1>6, <2>1, <2>2 DEF Inv, NeverRejects, WriteLocks
<1>7. CASE up
  <2> DEFINE s == Stream  b == frame[w]
             g == Append(flight, [bytes |-> b, start |-> done + Len(s)])
  <2>1. s \in Seq(Byte) /\ rbuf \o pipe \in Seq(Byte)
    BY StreamType, ConcatProperties DEF Inv
  <2>2. s = rbuf \o pipe /\ Stream' = s \o b
    <3>1. (rbuf \o pipe) \o <<>> = rbuf \o pipe
      BY <2>1, ConcatEmptySeq
    <3> QED
      BY ZenonT(30), <1>3, <1>7, <3>1 DEF WriteLocks, Stream
  <2>3. g = flight' /\ done' = done /\ rbuf' = rbuf /\ up' = up
    BY <1>7 DEF WriteLocks
  <2>4. Adjacent(flight, done) /\ Carries(s, flight, done) /\ done + Len(s) = EndOfAll(flight, done)
    BY <1>7 DEF Inv, StreamOK
  <2>5. /\ Adjacent(g, done) /\ Carries(s \o b, g, done)
        /\ done + Len(s \o b) = EndOfAll(g, done)
        /\ g[1].bytes = IF flight = <<>> THEN b ELSE flight[1].bytes
    <3>1. IsFrame(b)
      BY <1>2
    <3> HIDE DEF s, b
    <3> QED
      BY <2>1, <2>4, <3>1, AddFrame
  <2>6. Len(rbuf) < Len(g[1].bytes)
    <3>1. CASE flight = <<>>
      <4>1. done \in Nat /\ EndOfAll(flight, done) = done
        BY <2>4, <3>1 DEF Adjacent, EndOfAll
      <4>2. Len(s) = Len(rbuf) + Len(pipe) + Len(Unwritten) /\ Len(rbuf) \in Nat
            /\ Len(pipe) \in Nat /\ Len(Unwritten) \in Nat
        BY StreamType DEF Inv
      <4>3. Len(rbuf) = 0
        <5> HIDE DEF s
        <5> QED
          BY <2>4, <4>1, <4>2
      <4>4. Len(b) \in HeaderSize .. HeaderSize + MaxFrameSize
        BY <1>2, FrameSize
      <4> QED
        BY <2>5, <3>1, <4>3, <4>4, WireAssumption DEF HeaderSize
    <3>2. CASE flight # <<>>
      BY <2>5, <3>2 DEF Inv, StreamOK
    <3> QED
      BY <3>1, <3>2
  <2>7. StreamOK'
    <3> HIDE DEF s, b, g
    <3>1. Adjacent(flight', done') /\ Carries(Stream', flight', done')
          /\ done' + Len(Stream') = EndOfAll(flight', done') /\ Len(rbuf') < Len(flight'[1].bytes)
      BY <2>2, <2>3, <2>5, <2>6
    <3> QED
      BY ZenonT(30), <3>1
         DEF StreamOK, Adjacent, Carries, EndOfAll, End, IsFrame, Encodable, Encode, FlightFrames
  <2> QED
    BY <1>2, <1>4, <1>5, <1>7, <2>3, <2>7 DEF Inv, NeverRejects, WriteLocks
<1> QED
  BY SMTT(30), <1>6, <1>7 DEF Inv, TypeOK

\* The bytes the reader has after a step are a prefix of the first frame under
\* way.
LEMMA ReaderInFrame ==
  ASSUME Inv, pipe # <<>>, NEW bytes, bytes = Append(rbuf, Head(pipe))
  PROVE  /\ flight # <<>> /\ IsFrame(flight[1].bytes)
         /\ bytes \in Seq(Byte) /\ Len(bytes) = Len(rbuf) + 1
         /\ Len(bytes) <= Len(flight[1].bytes)
         /\ \A i \in 1 .. Len(bytes) : bytes[i] = flight[1].bytes[i]
         /\ Tail(pipe) \in Seq(Byte) /\ Len(Tail(pipe)) = Len(pipe) - 1
         /\ Stream = (bytes \o Tail(pipe)) \o Unwritten
<1> DEFINE u == Unwritten  s == Stream  rest == Tail(pipe)
<1>1. /\ rbuf \in Seq(Byte) /\ pipe \in Seq(Byte) /\ u \in Seq(Byte) /\ s = (rbuf \o pipe) \o u
      /\ Len(rbuf) \in Nat /\ Len(pipe) \in Nat /\ Len(u) \in Nat /\ Len(s) \in Nat
      /\ Len(s) = Len(rbuf) + Len(pipe) + Len(u)
  BY StreamType DEF Inv
<1>2. Adjacent(flight, done) /\ Carries(s, flight, done) /\ done \in Nat
      /\ (flight # <<>> => Len(rbuf) < Len(flight[1].bytes))
  BY DEF Inv, StreamOK, Adjacent
<1> HIDE DEF u, s
<1>3. Head(pipe) \in Byte /\ rest \in Seq(Byte) /\ Len(rest) = Len(pipe) - 1 /\ Len(pipe) > 0
  BY <1>1, HeadTailProperties, EmptySeq
<1>4. bytes \in Seq(Byte) /\ Len(bytes) = Len(rbuf) + 1
  BY <1>1, <1>3, AppendProperties
<1>5. s = (bytes \o rest) \o u
  BY SMTT(30), <1>1, ReadMoves
<1>6. flight # <<>>
  <2>1. flight = <<>> => done + Len(s) <= done
    BY <1>2 DEF Carries, EndOfAll
  <2>2. Len(s) > 0
    BY <1>1, <1>3
  <2> QED
    BY <1>1, <1>2, <2>1, <2>2
<1>7. /\ 1 \in DOMAIN flight /\ flight[1].start = done /\ IsFrame(flight[1].bytes)
      /\ Len(flight[1].bytes) \in Nat
  <2>1. 1 \in 1 .. Len(flight) /\ DOMAIN flight = 1 .. Len(flight)
    BY <1>2, <1>6, Positions
  <2> QED
    BY <1>2, <1>6, <2>1, Positions DEF Adjacent
<1>8. Len(bytes) <= Len(flight[1].bytes)
  BY SMTT(30), <1>1, <1>2, <1>4, <1>6, <1>7
<1>9. ASSUME NEW i \in 1 .. Len(bytes) PROVE bytes[i] = flight[1].bytes[i]
  <2>1. i \in 1 .. Len(flight[1].bytes) /\ i <= Len(s) /\ i \in Nat
        /\ i \in 1 .. Len(bytes) + Len(rest) + Len(u)
    BY <1>1, <1>3, <1>4, <1>7, <1>8
  <2>2. (flight[1].start - done) + i = i
    BY <1>2, <1>7, <2>1
  <2>3. s[i] = flight[1].bytes[i]
    BY SMTT(30), <1>2, <1>7, <2>1, <2>2 DEF Carries
  <2>4. s[i] = bytes[i]
    <3>1. ((bytes \o rest) \o u)[i] = IF i <= Len(bytes) THEN bytes[i]
                                      ELSE IF i <= Len(bytes) + Len(rest) THEN rest[i - Len(bytes)]
                                      ELSE u[i - Len(bytes) - Len(rest)]
      <4> HIDE DEF rest
      <4> QED
        BY SMTT(30), <1>1, <1>3, <1>4, <2>1, Concat3
    <3>2. i <= Len(bytes)
      OBVIOUS
    <3> QED
      BY <1>5, <3>1, <3>2
  <2> QED
    BY <2>3, <2>4
<1> QED
  BY <1>3, <1>4, <1>5, <1>6, <1>7, <1>8, <1>9 DEF u, s

\* A byte is read: it is one more of the frame, or it ends the frame and the
\* reader has the message that was encoded.
LEMMA ReadByteMeets ==
  ASSUME Inv, ReadByte
  PROVE  LET bytes == Append(rbuf, Head(pipe))
         IN \/ /\ Len(bytes) < Len(flight[1].bytes) /\ flight # <<>> /\ IsFrame(flight[1].bytes)
               /\ rbuf' = bytes /\ UNCHANGED <<got, reader, flight, done>>
            \/ \E m \in Messages :
                 /\ flight # <<>> /\ Encodable(m) /\ flight[1].bytes = Encode(m)
                 /\ Len(bytes) = Len(flight[1].bytes)
                 /\ rbuf' = <<>> /\ got' = Append(got, m) /\ reader' = reader
                 /\ flight' = Tail(flight) /\ done' = done + Len(bytes)
<1> DEFINE bytes == Append(rbuf, Head(pipe))  r == ReadFrame(bytes)
<1>1. /\ rbuf' = (IF r = More THEN bytes ELSE <<>>)
      /\ got' = (IF r.what = "message" THEN Append(got, r.msg) ELSE got)
      /\ reader' = (IF r = Reject THEN "rejected" ELSE "reads") /\ reader = "reads"
      /\ flight' = (IF r.what = "message" THEN Tail(flight) ELSE flight)
      /\ done' = (IF r.what = "message" THEN done + Len(bytes) ELSE done)
      /\ pipe # <<>>
  BY DEF ReadByte
<1>2. bytes = Append(rbuf, Head(pipe))
  OBVIOUS
<1> HIDE DEF bytes
<1>3. /\ flight # <<>> /\ IsFrame(flight[1].bytes)
      /\ bytes \in Seq(Byte) /\ Len(bytes) <= Len(flight[1].bytes)
      /\ \A i \in 1 .. Len(bytes) : bytes[i] = flight[1].bytes[i]
  BY ZenonT(30), <1>1, <1>2, ReaderInFrame
<1>4. PICK m \in Messages : Encodable(m) /\ flight[1].bytes = Encode(m)
  BY <1>3 DEF IsFrame
<1>5. Len(bytes) \in Nat /\ Len(flight[1].bytes) \in Nat
  BY <1>3, FrameSize, LenProperties
<1>6. CASE Len(bytes) < Len(flight[1].bytes)
  <2>1. r = More
    BY <1>3, <1>4, <1>6, ReadPrefix
  <2>2. r.what = "more" /\ r # Reject
    BY <2>1 DEF More, Reject
  <2> QED
    BY <1>1, <1>3, <1>6, <2>1, <2>2 DEF bytes
<1>7. CASE Len(bytes) = Len(flight[1].bytes)
  <2>1. r = Whole(m.type, m.body)
    BY <1>3, <1>4, <1>7, ReadPrefix
  <2>2. r.what = "message" /\ r # More /\ r # Reject /\ r.msg = [type |-> m.type, body |-> m.body]
    BY <2>1 DEF More, Reject, Whole
  <2>3. r.msg = m
    <3>1. m = [type |-> m.type, body |-> m.body]
      BY WireAssumption
    <3> QED
      BY <2>2, <3>1
  <2> QED
    BY SMTT(30), <1>1, <1>3, <1>4, <1>7, <2>2, <2>3 DEF bytes
<1> QED
  BY <1>3, <1>5, <1>6, <1>7 DEF bytes

\* io.ReadFull takes a byte: the stream moves on, by a frame at the end of one.
LEMMA ReadByteInv ==
  ASSUME Inv, ReadByte
  PROVE  Inv' /\ done' + Len(Stream') = done + Len(Stream)
<1> DEFINE bytes == Append(rbuf, Head(pipe))  rest == Tail(pipe)  u == Unwritten  t == Stream'
<1>1. /\ flight # <<>> /\ IsFrame(flight[1].bytes)
      /\ bytes \in Seq(Byte) /\ Len(bytes) = Len(rbuf) + 1
      /\ rest \in Seq(Byte) /\ Len(rest) = Len(pipe) - 1
      /\ Stream = (bytes \o rest) \o u
  BY ZenonT(30), ReaderInFrame DEF ReadByte
<1>2. pipe' = rest /\ u \in Seq(Byte) /\ Len(pipe) \in Nat /\ Len(rbuf) \in Nat
      /\ Stream \in Seq(Byte)
  BY StreamType DEF Inv, ReadByte
<1>3. Unwritten' = u /\ t = (rbuf' \o rest) \o u
  BY DEF ReadByte, Unwritten, Stream
<1>4. Len(flight[1].bytes) \in HeaderSize .. HeaderSize + MaxFrameSize
  BY <1>1, FrameSize
<1>5. WritersOK'
  BY DEF Inv, WritersOK, ReadByte, IsFrame
<1>6. Adjacent(flight, done) /\ Carries(Stream, flight, done)
      /\ (up => done + Len(Stream) = EndOfAll(flight, done)) /\ up' = up
  BY DEF Inv, StreamOK, ReadByte
<1>7. Len(pipe') <= PipeCap
  BY <1>1, <1>2, WireAssumption DEF Inv, TypeOK
<1> HIDE DEF bytes, rest, u, t
<1>8. CASE /\ Len(bytes) < Len(flight[1].bytes)
           /\ rbuf' = bytes /\ UNCHANGED <<got, reader, flight, done>>
  <2>1. TypeOK'
    <3>1. Len(rbuf') < HeaderSize + MaxFrameSize
      BY <1>1, <1>2, <1>4, <1>8, WireAssumption DEF HeaderSize
    <3> QED
      BY SMTT(30), <1>1, <1>2, <1>7, <1>8, <3>1 DEF Inv, TypeOK, ReadByte
  <2>2. t = Stream
    BY SMTT(30), <1>1, <1>3, <1>8
  <2>3. StreamOK'
    BY ZenonT(30), <1>6, <1>8, <2>2
       DEF t, StreamOK, Adjacent, Carries, EndOfAll, End, IsFrame, Encodable,
                            Encode, FlightFrames
  <2> QED
    BY SMTT(30), <1>5, <1>8, <2>1, <2>2, <2>3 DEF Inv, NeverRejects, t
<1>9. CASE \E m \in Messages :
             /\ flight[1].bytes = Encode(m)
             /\ Len(bytes) = Len(flight[1].bytes)
             /\ rbuf' = <<>> /\ got' = Append(got, m) /\ reader' = reader
             /\ flight' = Tail(flight) /\ done' = done + Len(bytes)
  <2>1. PICK m \in Messages :
             /\ flight[1].bytes = Encode(m)
             /\ Len(bytes) = Len(flight[1].bytes)
             /\ rbuf' = <<>> /\ got' = Append(got, m) /\ reader' = reader
             /\ flight' = Tail(flight) /\ done' = done + Len(bytes)
    BY <1>9
  <2>2. TypeOK'
    <3>1. <<>> \in Seq(Byte) /\ Len(<<>>) = 0 /\ 0 < HeaderSize + MaxFrameSize
      BY EmptySeq, WireAssumption DEF HeaderSize
    <3>2. got' \in Seq(Messages)
      BY <2>1, AppendProperties DEF Inv, TypeOK
    <3> QED
      BY ZenonT(30), <1>1, <1>2, <1>7, <2>1, <3>1, <3>2 DEF Inv, TypeOK, ReadByte
  <2>3. /\ t = rest \o u /\ t \in Seq(Byte)
        /\ Len(bytes) \in Nat /\ Len(rest) \in Nat /\ Len(u) \in Nat
        /\ Len(t) = Len(rest) + Len(u)
        /\ \A i \in 1 .. Len(rest) + Len(u) :
             t[i] = IF i <= Len(rest) THEN rest[i] ELSE u[i - Len(rest)]
    <3>1. <<>> \o rest = rest
      BY <1>1, ConcatEmptySeq
    <3>2. t = rest \o u
      BY <1>3, <2>1, <3>1
    <3>3. /\ rest \o u \in Seq(Byte) /\ Len(rest \o u) = Len(rest) + Len(u)
          /\ \A i \in 1 .. Len(rest) + Len(u) :
               (rest \o u)[i] = IF i <= Len(rest) THEN rest[i] ELSE u[i - Len(rest)]
      BY ZenonT(30), <1>1, <1>2, ConcatProperties
    <3>4. Len(bytes) \in Nat /\ Len(rest) \in Nat /\ Len(u) \in Nat
      BY <1>1, <1>2, LenProperties
    <3> QED
      BY <3>2, <3>3, <3>4
  <2> DEFINE s == Stream
  <2>4. /\ s \in Seq(Byte) /\ Len(s) = Len(bytes) + Len(rest) + Len(u)
        /\ \A i \in 1 .. Len(bytes) + Len(rest) + Len(u) :
             s[i] = IF i <= Len(bytes) THEN bytes[i]
                    ELSE IF i <= Len(bytes) + Len(rest) THEN rest[i - Len(bytes)]
                    ELSE u[i - Len(bytes) - Len(rest)]
    <3>1. s = (bytes \o rest) \o u
      BY <1>1
    <3>2. bytes \in Seq(Byte) /\ rest \in Seq(Byte) /\ u \in Seq(Byte)
      BY <1>1, <1>2
    <3> HIDE DEF s
    <3> QED
      BY <3>1, <3>2, Concat3
  <2> HIDE DEF s
  <2>5. Len(s) = Len(t) + Len(bytes)
    BY <2>3, <2>4
  <2>6. ASSUME NEW i \in 1 .. Len(t) PROVE t[i] = s[i + Len(bytes)]
    <3>1. /\ i + Len(bytes) \in 1 .. Len(bytes) + Len(rest) + Len(u)
          /\ ~(i + Len(bytes) <= Len(bytes)) /\ i \in 1 .. Len(rest) + Len(u)
          /\ i + Len(bytes) <= Len(bytes) + Len(rest) <=> i <= Len(rest)
          /\ (i + Len(bytes)) - Len(bytes) = i
          /\ (i + Len(bytes)) - Len(bytes) - Len(rest) = i - Len(rest)
      BY <2>3
    <3>2. s[i + Len(bytes)] = IF i <= Len(rest) THEN rest[i] ELSE u[i - Len(rest)]
      BY <2>4, <3>1
    <3>3. t[i] = IF i <= Len(rest) THEN rest[i] ELSE u[i - Len(rest)]
      BY <2>3, <3>1
    <3> QED
      BY <3>2, <3>3
  <2> DEFINE g == Tail(flight)  e == done + Len(bytes)
  <2>7. /\ Adjacent(g, e) /\ Carries(t, g, e) /\ EndOfAll(g, e) = EndOfAll(flight, done)
    <3> DEFINE l == Len(bytes)
    <3>1. /\ s \in Seq(Byte) /\ t \in Seq(Byte) /\ Adjacent(flight, done)
          /\ Carries(s, flight, done) /\ flight # <<>> /\ l = Len(flight[1].bytes)
          /\ Shifted(t, s, l)
      BY ZenonT(30), <1>1, <1>6, <2>1, <2>3, <2>4, <2>5, <2>6 DEF s, Shifted
    <3> HIDE DEF l
    <3>2. Adjacent(g, done + l) /\ Carries(t, g, done + l)
          /\ EndOfAll(g, done + l) = EndOfAll(flight, done)
      BY <3>1, TakeFrame
    <3> QED
      BY <3>2 DEF l
  <2>8. g # <<>> => 0 < Len(g[1].bytes)
    <3> HIDE DEF g, e
    <3>1. g # <<>> => 1 \in 1 .. Len(g)
      BY <2>7, Positions
    <3>2. g # <<>> => Len(g[1].bytes) \in Nat /\ Len(g[1].bytes) >= HeaderSize
      BY <2>7, <3>1, Positions
    <3> QED
      BY <3>2 DEF HeaderSize
  <2>9. /\ up => e + Len(t) = EndOfAll(g, e)
        /\ e + Len(t) = done + Len(Stream)
    <3>1. done \in Nat
      BY <1>6 DEF Adjacent
    <3>2. e + Len(t) = done + Len(s)
      BY SMTT(30), <2>3, <2>5, <3>1
    <3> QED
      BY <1>6, <2>7, <3>2 DEF s
  <2>10. StreamOK'
    <3>1. Len(rbuf') = 0 /\ flight' = g /\ done' = e
      BY <2>1, EmptySeq
    <3> HIDE DEF g, e
    <3> QED
      BY ZenonT(30), <1>6, <2>7, <2>8, <2>9, <3>1
         DEF t, StreamOK, Adjacent, Carries, EndOfAll, End, IsFrame, Encodable, Encode, FlightFrames
  <2> QED
    BY <1>5, <2>1, <2>2, <2>9, <2>10 DEF Inv, NeverRejects, t
<1> QED
  BY <1>8, <1>9, ReadByteMeets DEF bytes

\* The loss of the connection leaves a prefix of the stream.
LEMMA CutInv ==
  ASSUME Inv, Cut
  PROVE  /\ Inv' /\ Stream' \in Seq(Byte) /\ Len(Stream') <= Len(Stream)
<1>1. PICK k \in 0 .. Len(pipe) : pipe' = SubSeq(pipe, 1, k)
  BY DEF Cut
<1> DEFINE s == Stream  t == Stream'  u == Unwritten
<1>2. /\ rbuf \in Seq(Byte) /\ pipe \in Seq(Byte) /\ u \in Seq(Byte) /\ s = (rbuf \o pipe) \o u
      /\ Len(rbuf) \in Nat /\ Len(pipe) \in Nat /\ Len(u) \in Nat
      /\ Len(s) = Len(rbuf) + Len(pipe) + Len(u) /\ s \in Seq(Byte)
  BY StreamType DEF Inv
<1>3. /\ pipe' \in Seq(Byte) /\ Len(pipe') = k /\ k <= Len(pipe) /\ k \in Nat
      /\ \A i \in 1 .. k : pipe'[i] = pipe[i]
  <2>1. \A i \in 1 .. k : i \in 1 .. Len(pipe)
    BY <1>2
  <2> QED
    BY <1>1, <1>2, <2>1, SubSeqProperties
<1>4. t = rbuf \o pipe'
  <2>1. Unwritten' = <<>> /\ rbuf' = rbuf
    BY DEF Cut, Unwritten
  <2>2. rbuf \o pipe' \in Seq(Byte)
    BY <1>2, <1>3, ConcatProperties
  <2>3. (rbuf \o pipe') \o <<>> = rbuf \o pipe'
    BY <2>2, ConcatEmptySeq
  <2> QED
    BY <2>1, <2>3 DEF Stream
<1>5. /\ t \in Seq(Byte) /\ Len(t) = Len(rbuf) + k
      /\ \A i \in 1 .. Len(rbuf) + k :
           t[i] = IF i <= Len(rbuf) THEN rbuf[i] ELSE pipe'[i - Len(rbuf)]
  <2> DEFINE p == pipe'
  <2>1. t = rbuf \o p /\ p \in Seq(Byte) /\ Len(p) = k
    BY <1>3, <1>4
  <2> HIDE DEF p, t
  <2>2. rbuf \in Seq(Byte)
    BY <1>2
  <2>3. /\ t \in Seq(Byte) /\ Len(t) = Len(rbuf) + Len(p)
        /\ \A i \in 1 .. Len(rbuf) + Len(p) :
             t[i] = IF i <= Len(rbuf) THEN rbuf[i] ELSE p[i - Len(rbuf)]
    BY <2>1, <2>2, ConcatProperties
  <2> QED
    BY <2>1, <2>3 DEF p
<1>6. \A i \in 1 .. Len(rbuf) + Len(pipe) + Len(u) :
        s[i] = IF i <= Len(rbuf) THEN rbuf[i]
               ELSE IF i <= Len(rbuf) + Len(pipe) THEN pipe[i - Len(rbuf)]
               ELSE u[i - Len(rbuf) - Len(pipe)]
  <2> HIDE DEF u, s
  <2> QED
    BY <1>2, Concat3
<1> HIDE DEF s, t, u
<1>7. Len(t) <= Len(s)
  BY <1>2, <1>3, <1>5
<1>8. ASSUME NEW i \in 1 .. Len(t) PROVE t[i] = s[i]
  <2>1. /\ i \in 1 .. Len(rbuf) + Len(pipe) + Len(u) /\ i \in 1 .. Len(rbuf) + k
        /\ i <= Len(rbuf) + Len(pipe)
        /\ ~(i <= Len(rbuf)) => i - Len(rbuf) \in 1 .. k
    BY <1>2, <1>3, <1>5
  <2> QED
    BY ZenonT(30), <1>3, <1>5, <1>6, <2>1
<1>9. Adjacent(flight, done) /\ Carries(s, flight, done)
  BY DEF Inv, StreamOK, s
<1>10. Carries(t, flight, done)
  BY ZenonT(30), <1>2, <1>5, <1>7, <1>8, <1>9, CutStream
<1>11. StreamOK'
  BY ZenonT(30), <1>9, <1>10
     DEF t, Cut, hist, Inv, StreamOK, Adjacent, Carries, EndOfAll, End, IsFrame,
                     Encodable, Encode, FlightFrames
<1>12. TypeOK'
  <2>1. Len(pipe') <= PipeCap
    BY <1>2, <1>3, WireAssumption DEF Inv, TypeOK
  <2> QED
    BY ZenonT(30), <1>3, <2>1 DEF Cut, Inv, TypeOK
<1>13. WritersOK'
  BY DEF Cut, Inv, WritersOK, IsFrame
<1> QED
  BY <1>5, <1>7, <1>11, <1>12, <1>13 DEF Cut, Inv, NeverRejects, s, t


\* Every step of the writers, the reader and the network keeps the invariant.
LEMMA NextInv == Inv /\ [Next]_vars => Inv'
<1> SUFFICES ASSUME Inv, [Next]_vars PROVE Inv'
  OBVIOUS
<1>1. CASE \E w \in Writers : WriterNext(w)
  <2>1. PICK w \in Writers : WriterNext(w)
    BY <1>1
  <2> QED
    BY ZenonT(30), <2>1, WriteBeginsInv, WriteLocksInv, WriteByteInv, WriteReturnsInv DEF WriterNext
<1>2. CASE ReadByte
  BY <1>2, ReadByteInv
<1>3. CASE ReadEOF
  BY <1>3, ReadEOFInv
<1>4. CASE Cut
  BY <1>4, CutInv
<1>5. CASE UNCHANGED vars
  <2>1. UNCHANGED <<up, wmu, frame, busy, pipe, rbuf, reader, got, calls, flight, done>>
    BY <1>5 DEF vars, hist
  <2>2. Stream' = Stream
    BY <2>1 DEF Stream, Unwritten
  <2>3. StreamOK'
    BY <2>1, <2>2, StreamKept DEF Inv
  <2> QED
    BY <2>1, <2>3 DEF Inv, TypeOK, WritersOK, IsFrame, NeverRejects
<1> QED
  BY <1>1, <1>2, <1>3, <1>4, <1>5 DEF Next

\* However the calls of WriteMessage interleave, the bytes between the hosts are
\* those of whole frames in the order of the lock, or a prefix of them.
THEOREM Invariance == Spec => []Inv
<1> QED
  BY InitInv, NextInv, PTL DEF Spec

\* Type correctness of Wire: the socket buffers and the frame being read keep
\* their bounds, and what ReadMessage returns was sent.
THEOREM TypeCorrect == Spec => []TypeOK
<1>1. Inv => TypeOK
  BY DEF Inv
<1> QED
  BY <1>1, Invariance, PTL

\* ReadMessage never returns an error for the bytes of a peer: not the length
\* check, not the check for an empty payload, not an unknown type.
THEOREM NoRejection == Spec => []NeverRejects
<1>1. Inv => NeverRejects
  BY SMTT(30) DEF Inv
<1> QED
  BY <1>1, Invariance, PTL

-----------------------------------------------------------------------------
(* The refinement of Channel.                                              *)

\* The messages under way, by position; while the connection is there no frame
\* has lost a byte.
UnderWayOK ==
  LET c     == Len(UnderWay)
      limit == done + Len(Stream)
  IN  /\ Len(flight) \in Nat /\ limit \in Nat /\ c \in 0 .. Len(flight)
      /\ \A i \in 1 .. Len(flight) : i <= c <=> End(flight[i]) <= limit
      /\ UnderWay \in Seq(Messages)
      /\ \A i \in 1 .. c : UnderWay[i] = DecodeFrame(flight[i].bytes)
      /\ up => c = Len(flight)

\* The definition of UnderWay picks the frames that are complete.
LEMMA UnderWayProperties == Inv => UnderWayOK
<1> SUFFICES ASSUME Inv PROVE UnderWayOK
  OBVIOUS
<1> DEFINE limit == done + Len(Stream)  c == Complete(flight, limit)
<1>1. Adjacent(flight, done) /\ limit \in Nat
  BY StreamType DEF Inv, StreamOK, Adjacent
<1>2. Len(flight) \in Nat /\ DOMAIN flight = 1 .. Len(flight)
  BY <1>1, Positions
<1>3. c \in 0 .. Len(flight) /\ \A i \in 1 .. Len(flight) : i <= c <=> End(flight[i]) <= limit
  <2> HIDE DEF limit
  <2> QED
    BY <1>1, CompleteProperties
<1>4. UnderWay = [i \in 1 .. c |-> DecodeFrame(flight[i].bytes)]
  BY DEF UnderWay
<1>5. \A i \in 1 .. c : DecodeFrame(flight[i].bytes) \in Messages
  <2> SUFFICES ASSUME NEW i \in 1 .. c PROVE DecodeFrame(flight[i].bytes) \in Messages
    OBVIOUS
  <2>1. i \in DOMAIN flight
    BY SMTT(30), <1>2, <1>3
  <2>2. PICK m \in Messages : Encodable(m) /\ flight[i].bytes = Encode(m)
    BY <1>1, <2>1 DEF Adjacent, IsFrame
  <2> QED
    BY <2>2, DecodeEncode
<1>6. c \in Nat
  BY <1>2, <1>3
<1>7. UnderWay \in Seq(Messages) /\ Len(UnderWay) = c
  <2> HIDE DEF c
  <2> QED
    BY <1>4, <1>5, <1>6
<1>8. up => c = Len(flight)
  <2> SUFFICES ASSUME up PROVE c = Len(flight)
    OBVIOUS
  <2>1. limit = EndOfAll(flight, done)
    BY DEF Inv, StreamOK
  <2> HIDE DEF limit, c
  <2>2. CASE Len(flight) = 0
    BY <2>2, <1>3
  <2>3. CASE Len(flight) > 0
    <3>1. Len(flight) \in 1 .. Len(flight)
      BY <1>2, <2>3
    <3>2. End(flight[Len(flight)]) <= limit
      BY <1>1, <2>1, <3>1, Positions
    <3>3. Len(flight) <= c
      BY <1>3, <3>1, <3>2
    <3>4. Len(flight) \in Nat /\ c \in 0 .. Len(flight)
      BY SMTT(30), <1>2, <1>3
    <3> QED
      BY <3>3, <3>4
  <2> QED
    BY <1>2, <2>2, <2>3
<1> HIDE DEF c
<1> QED
  BY ZenonT(30), <1>1, <1>2, <1>3, <1>4, <1>7, <1>8 DEF UnderWayOK

\* A step after which the same bytes of the same frames are under way.
LEMMA SameUnderWay ==
  ASSUME flight' = flight, done' + Len(Stream') = done + Len(Stream)
  PROVE  UnderWay' = UnderWay
BY ZenonT(30) DEF UnderWay, Complete, End, DecodeFrame, Length

\* A writer that locks sends its message.
LEMMA LockSends ==
  ASSUME Inv, NEW w \in Writers, WriteLocks(w), up
  PROVE  \E m \in Messages : UnderWay' = Append(UnderWay, m)
<1>1. Inv' /\ up' /\ IsFrame(frame[w])
      /\ flight' = Append(flight, [bytes |-> frame[w], start |-> done + Len(Stream)])
  BY WriteLocksInv DEF WriteLocks
<1>2. PICK m \in Messages : Encodable(m) /\ frame[w] = Encode(m)
  BY <1>1 DEF IsFrame
<1> DEFINE f == [bytes |-> frame[w], start |-> done + Len(Stream)]  fs == flight  g == flight'
           n == Len(flight)  q == UnderWay  p == UnderWay'
<1>3. f \in FlightFrames /\ f.bytes = Encode(m)
  <2>1. frame[w] \in Seq(Byte) /\ done + Len(Stream) \in Nat
    BY SMTT(30), StreamType DEF Inv, TypeOK, StreamOK, Adjacent
  <2> QED
    BY <1>2, <2>1 DEF FlightFrames
<1>4. fs \in Seq(FlightFrames) /\ n \in Nat /\ g = Append(fs, f)
  BY <1>1, LenProperties DEF Inv, StreamOK, Adjacent
<1> HIDE DEF f
<1>5. /\ Len(g) = n + 1 /\ g[n + 1] = f /\ \A i \in 1 .. n : g[i] = fs[i]
  <2> HIDE DEF g, fs
  <2>1. Len(g) = Len(fs) + 1 /\ g[Len(fs) + 1] = f /\ \A i \in 1 .. Len(fs) : g[i] = fs[i]
    BY <1>3, <1>4, AppendProperties
  <2> QED
    BY <2>1 DEF fs
<1>6. /\ q \in Seq(Messages) /\ Len(q) = n
      /\ \A i \in 1 .. n : q[i] = DecodeFrame(fs[i].bytes)
  BY UnderWayProperties DEF UnderWayOK
<1>7. UnderWayOK'
  BY <1>1, UnderWayProperties, PTL
<1>8. /\ p \in Seq(Messages) /\ Len(p) = Len(g)
      /\ \A i \in 1 .. Len(g) : p[i] = DecodeFrame(g[i].bytes)
  BY ZenonT(30), <1>1, <1>7 DEF UnderWayOK, DecodeFrame, Length
<1>9. p[n + 1] = m
  BY <1>2, <1>3, <1>4, <1>5, <1>8, DecodeEncode
<1>10. p = Append(q, m)
  <2> HIDE DEF p, q, g, fs, n
  <2>1. /\ Append(q, m) \in Seq(Messages) /\ Len(Append(q, m)) = n + 1
        /\ Append(q, m)[n + 1] = m /\ \A i \in 1 .. n : Append(q, m)[i] = q[i]
    BY <1>6, AppendProperties
  <2>2. ASSUME NEW i \in 1 .. n + 1 PROVE p[i] = Append(q, m)[i]
    <3>1. CASE i = n + 1
      BY <3>1, <2>1, <1>9
    <3>2. CASE i \in 1 .. n
      <4>1. i \in 1 .. Len(g)
        BY <3>2, <1>4, <1>5
      <4>2. p[i] = DecodeFrame(g[i].bytes) /\ g[i] = fs[i]
        BY <4>1, <3>2, <1>5, <1>8
      <4>3. q[i] = DecodeFrame(fs[i].bytes)
        BY <3>2, <1>6
      <4> QED
        BY <4>2, <4>3, <3>2, <2>1
    <3>3. n \in Nat
      BY <1>4
    <3>4. i = n + 1 \/ i \in 1 .. n
      BY <3>3
    <3> QED
      BY ZenonT(30), <3>1, <3>2, <3>4
  <2> QED
    BY <1>5, <1>8, <2>1, <2>2, SeqEqual
<1> QED
  BY <1>10


\* The byte that ends a frame receives its message.
LEMMA ReadReceives ==
  ASSUME Inv, ReadByte, flight' # flight \/ done' # done
  PROVE  /\ UnderWay # <<>> /\ got' = Append(got, Head(UnderWay))
         /\ UnderWay' = Tail(UnderWay)
<1> DEFINE bytes == Append(rbuf, Head(pipe))  fs == flight  g == flight'
           n == Len(fs)  q == UnderWay  p == UnderWay'
           limit == done + Len(Stream)  c == Len(q)  k == Len(p)
<1>1. Inv' /\ done' + Len(Stream') = limit
  BY ReadByteInv
<1>2. PICK m \in Messages :
             /\ fs # <<>> /\ Encodable(m) /\ fs[1].bytes = Encode(m)
             /\ Len(bytes) = Len(fs[1].bytes) /\ got' = Append(got, m)
             /\ g = Tail(fs) /\ done' = done + Len(bytes)
  BY ReadByteMeets
<1>3. /\ n \in Nat /\ limit \in Nat /\ c \in 0 .. n /\ q \in Seq(Messages)
      /\ \A i \in 1 .. n : i <= c <=> End(fs[i]) <= limit
      /\ \A i \in 1 .. c : q[i] = DecodeFrame(fs[i].bytes)
  BY UnderWayProperties DEF UnderWayOK
<1>4. UnderWayOK'
  BY <1>1, UnderWayProperties, PTL
<1>5. /\ k \in 0 .. Len(g) /\ p \in Seq(Messages)
      /\ \A i \in 1 .. Len(g) : i <= k <=> End(g[i]) <= limit
      /\ \A i \in 1 .. k : p[i] = DecodeFrame(g[i].bytes)
  BY ZenonT(30), <1>1, <1>4 DEF UnderWayOK, DecodeFrame, Length, End
<1>6. fs \in Seq(FlightFrames) /\ Adjacent(fs, done)
  BY DEF Inv, StreamOK, Adjacent
<1>7. Len(g) = n - 1 /\ n > 0 /\ \A i \in 1 .. n - 1 : g[i] = fs[i + 1]
  <2> HIDE DEF fs, g
  <2>1. Len(g) = Len(fs) - 1 /\ Len(fs) > 0 /\ \A i \in 1 .. Len(g) : g[i] = fs[i + 1]
    BY <1>2, <1>6, HeadTailProperties, EmptySeq
  <2> QED
    BY <2>1
<1>8. c >= 1
  <2>1. 1 \in 1 .. n
    BY SMTT(30), <1>3, <1>7
  <2>2. End(fs[1]) = done + Len(bytes)
    BY <1>2, <1>6, <2>1 DEF Adjacent, End
  <2>3. Len(bytes) <= Len(Stream)
    <3> DEFINE b == bytes
    <3>1. pipe # <<>>
      BY DEF ReadByte
    <3>2. Len(b) = Len(rbuf) + 1
      BY <3>1, ReaderInFrame
    <3>3. /\ Len(Stream) = Len(rbuf) + Len(pipe) + Len(Unwritten)
          /\ Len(rbuf) \in Nat /\ Len(pipe) \in Nat /\ Len(Unwritten) \in Nat
      BY StreamType DEF Inv
    <3>4. Len(pipe) > 0
      BY <3>1, EmptySeq DEF Inv, TypeOK
    <3> HIDE DEF b
    <3>5. Len(b) <= Len(Stream)
      BY <3>2, <3>3, <3>4
    <3> QED
      BY <3>5 DEF b
  <2>4. done \in Nat /\ Len(bytes) \in Nat /\ Len(Stream) \in Nat
    <3>1. Len(fs[1].bytes) \in Nat /\ done \in Nat
      BY <1>6, <2>1, Positions
    <3> QED
      BY SMTT(30), <1>2, <3>1, StreamType DEF Inv
  <2>5. End(fs[1]) <= limit
    <3> HIDE DEF bytes
    <3> QED
      BY <2>2, <2>3, <2>4
  <2> QED
    BY <1>3, <2>1, <2>5
<1> HIDE DEF fs, g, q, p, c, k, limit, n, bytes
<1>9. k = c - 1
  <2>1. \A i \in 1 .. n - 1 : i <= k <=> i + 1 <= c
    <3> SUFFICES ASSUME NEW i \in 1 .. n - 1 PROVE i <= k <=> i + 1 <= c
      OBVIOUS
    <3>1. n \in Nat /\ i \in 1 .. Len(g) /\ i + 1 \in 1 .. n
      BY <1>3, <1>7
    <3>2. i <= k <=> End(g[i]) <= limit
      BY <1>5, <3>1
    <3>3. i + 1 <= c <=> End(fs[i + 1]) <= limit
      BY <1>3, <3>1
    <3> QED
      BY <1>7, <3>2, <3>3
  <2>2. n \in Nat /\ c \in 1 .. n /\ k \in 0 .. n - 1
    BY <1>3, <1>5, <1>7, <1>8
  <2>3. ~(k < c - 1)
    <3>1. ASSUME k < c - 1 PROVE k + 1 \in 1 .. n - 1 /\ (k + 1) + 1 <= c /\ ~(k + 1 <= k)
      BY <3>1, <2>2
    <3> QED
      BY <2>1, <3>1
  <2>4. ~(c - 1 < k)
    <3>1. ASSUME c - 1 < k PROVE k \in 1 .. n - 1 /\ ~(k + 1 <= c) /\ k <= k
      BY <3>1, <2>2
    <3> QED
      BY <2>1, <3>1
  <2> QED
    BY <2>2, <2>3, <2>4
<1>10. q # <<>> /\ Tail(q) \in Seq(Messages) /\ Len(Tail(q)) = c - 1
       /\ Head(q) = q[1] /\ \A i \in 1 .. c - 1 : Tail(q)[i] = q[i + 1]
  <2>1. q # <<>>
    <3>1. Len(<<>>) = 0
      BY EmptySeq
    <3> QED
      BY <1>3, <1>8, <3>1 DEF c
  <2>2. Tail(q) \in Seq(Messages) /\ Len(Tail(q)) = Len(q) - 1
        /\ \A i \in 1 .. Len(Tail(q)) : Tail(q)[i] = q[i + 1]
    BY <1>3, <2>1, HeadTailProperties
  <2>3. Head(q) = q[1]
    BY <1>3, <2>1
  <2> QED
    BY <2>1, <2>2, <2>3 DEF c
<1>11. Head(q) = m
  <2>1. 1 \in 1 .. c
    BY <1>3, <1>8
  <2> QED
    BY SMTT(30), <1>2, <1>3, <1>10, <2>1, DecodeEncode
<1>12. p = Tail(q)
  <2>1. ASSUME NEW i \in 1 .. c - 1 PROVE p[i] = Tail(q)[i]
    <3>1. n \in Nat /\ c \in 0 .. n
      BY <1>3
    <3>2. i \in 1 .. k /\ i \in 1 .. n - 1 /\ i + 1 \in 1 .. c
      BY SMTT(30), <1>9, <3>1
    <3>3. p[i] = DecodeFrame(g[i].bytes) /\ g[i] = fs[i + 1]
      BY SMTT(30), <3>2, <1>5, <1>7
    <3>4. q[i + 1] = DecodeFrame(fs[i + 1].bytes)
      BY <3>2, <1>3
    <3> QED
      BY <3>3, <3>4, <1>10
  <2>2. p \in Seq(Messages) /\ Len(p) = c - 1
    BY <1>5, <1>9 DEF k
  <2> QED
    BY SMTT(30), <1>10, <2>1, <2>2, SeqEqual
<1> QED
  BY <1>2, <1>10, <1>11, <1>12 DEF p, q

\* A cut keeps a prefix of the messages under way.
LEMMA CutLoses ==
  ASSUME Inv, Cut
  PROVE  \E j \in 0 .. Len(UnderWay) : UnderWay' = SubSeq(UnderWay, 1, j)
<1> DEFINE q == UnderWay  p == UnderWay'  c == Len(q)  k == Len(p)  n == Len(flight)
           limit == done + Len(Stream)  low == done' + Len(Stream')
<1>1. Inv' /\ flight' = flight /\ done' = done
      /\ Len(Stream') <= Len(Stream) /\ Stream' \in Seq(Byte)
  BY ZenonT(30), CutInv DEF Cut, hist
<1>2. /\ n \in Nat /\ limit \in Nat /\ c \in 0 .. n /\ q \in Seq(Messages)
      /\ \A i \in 1 .. n : i <= c <=> End(flight[i]) <= limit
      /\ \A i \in 1 .. c : q[i] = DecodeFrame(flight[i].bytes)
  BY UnderWayProperties DEF UnderWayOK
<1>3. UnderWayOK'
  BY <1>1, UnderWayProperties, PTL
<1>4. /\ k \in 0 .. n /\ p \in Seq(Messages) /\ low \in Nat
      /\ \A i \in 1 .. n : i <= k <=> End(flight[i]) <= low
      /\ \A i \in 1 .. k : p[i] = DecodeFrame(flight[i].bytes)
  BY <1>1, <1>3 DEF UnderWayOK, DecodeFrame, Length, End
<1>5. low <= limit
  <2>1. done \in Nat /\ Len(Stream) \in Nat /\ Len(Stream') \in Nat
    BY SMTT(30), <1>1, StreamType, LenProperties DEF Inv, StreamOK, Adjacent
  <2> QED
    BY SMTT(30), <1>1, <2>1
<1>6. \A i \in 1 .. n : End(flight[i]) \in Nat
  BY SMTT(30), Positions DEF Inv, StreamOK
<1> HIDE DEF q, p, c, k, n, limit, low
<1>7. k <= c
  <2>1. CASE k = 0
    BY <2>1, <1>2
  <2>2. CASE k > 0
    <3>1. k \in 1 .. n /\ k <= k
      BY <2>2, <1>2, <1>4
    <3>2. End(flight[k]) <= low /\ End(flight[k]) \in Nat
      BY <3>1, <1>4, <1>6
    <3>3. End(flight[k]) <= limit
      BY <3>2, <1>2, <1>4, <1>5
    <3> QED
      BY <3>1, <3>3, <1>2
  <2> QED
    BY <2>1, <2>2, <1>4, <1>2
<1>8. k \in 0 .. c /\ k \in Nat /\ c \in Nat
  BY SMTT(30), <1>2, <1>4, <1>7
<1>9. SubSeq(q, 1, k) \in Seq(Messages) /\ Len(SubSeq(q, 1, k)) = k
      /\ \A i \in 1 .. k : SubSeq(q, 1, k)[i] = q[i]
  <2>1. \A i \in 1 .. k : i \in 1 .. Len(q)
    BY <1>8 DEF c
  <2> QED
    BY <1>2, <1>8, <2>1, SubSeqProperties
<1>10. \A i \in 1 .. k : p[i] = SubSeq(q, 1, k)[i]
  <2>1. \A i \in 1 .. k : i \in 1 .. c
    BY <1>8
  <2> QED
    BY SMTT(30), <2>1, <1>2, <1>4, <1>9
<1>11. p = SubSeq(q, 1, k)
  <2>1. Len(p) = k
    BY DEF k
  <2> QED
    BY <1>4, <1>9, <1>10, <2>1, SeqEqual
<1> QED
  BY <1>8, <1>11 DEF c, p, q

\* A new connection is an empty channel.
LEMMA InitChannel == Init => Abstract!Init
<1> SUFFICES ASSUME Init PROVE Abstract!Init
  OBVIOUS
<1>1. UnderWayOK
  BY InitInv, UnderWayProperties
<1>2. Len(flight) = 0 /\ flight = <<>>
  BY EmptySeq DEF Init
<1>3. UnderWay = <<>>
  <2>1. UnderWay \in Seq(Messages) /\ Len(UnderWay) = 0
    BY <1>1, <1>2 DEF UnderWayOK
  <2> QED
    BY <2>1, EmptySeq
<1> QED
  BY <1>3 DEF Init, Abstract!Init

\* Locking sends, the last byte of a frame receives, a cut cuts, and every other
\* step leaves the channel as it is.
LEMMA NextChannel == Inv /\ [Next]_vars => [Abstract!Next]_(Abstract!vars)
<1> SUFFICES ASSUME Inv, [Next]_vars PROVE [Abstract!Next]_(Abstract!vars)
  OBVIOUS
<1>1. ASSUME flight' = flight, done' + Len(Stream') = done + Len(Stream), up' = up, got' = got
      PROVE  UNCHANGED Abstract!vars
  BY <1>1, SameUnderWay DEF Abstract!vars
<1>2. ASSUME NEW w \in Writers, WriterNext(w)
      PROVE  [Abstract!Next]_(Abstract!vars)
  <2>1. CASE \E m \in Messages : WriteBegins(w, m)
    BY <2>1, <1>1, WriteBeginsInv DEF WriteBegins, hist
  <2>2. CASE WriteLocks(w)
    <3>1. CASE up
      <4>1. PICK m \in Messages : UnderWay' = Append(UnderWay, m)
        BY <2>2, <3>1, LockSends
      <4>2. Abstract!Send(m)
        BY <2>2, <3>1, <4>1 DEF Abstract!Send, WriteLocks
      <4> QED
        BY <4>2 DEF Abstract!Next
    <3>2. CASE ~up
      BY ZenonT(30), <2>2, <3>2, <1>1, WriteLocksInv DEF WriteLocks
    <3> QED
      BY <3>1, <3>2
  <2>3. CASE WriteByte(w)
    BY ZenonT(30), <2>3, <1>1, WriteByteInv DEF WriteByte, hist
  <2>4. CASE WriteReturns(w)
    BY ZenonT(30), <2>4, <1>1, WriteReturnsInv DEF WriteReturns, hist
  <2> QED
    BY SMTT(30), <1>2, <2>1, <2>2, <2>3, <2>4 DEF WriterNext
<1>3. CASE ReadByte
  <2>1. CASE flight' = flight /\ done' = done
    <3>1. got' = got
      <4>1. ASSUME Len(Append(rbuf, Head(pipe))) = Len(flight[1].bytes),
                   done' = done + Len(Append(rbuf, Head(pipe)))
            PROVE  FALSE
        <5>1. Len(Append(rbuf, Head(pipe))) = Len(rbuf) + 1 /\ Len(rbuf) \in Nat /\ done \in Nat
          BY SMTT(30), <1>3, ReaderInFrame, StreamType DEF ReadByte, Inv, StreamOK, Adjacent
        <5> QED
          BY SMTT(30), <2>1, <4>1, <5>1
      <4> QED
        BY <1>3, <4>1, ReadByteMeets
    <3>2. done' + Len(Stream') = done + Len(Stream) /\ up' = up
      BY <1>3, ReadByteInv DEF ReadByte
    <3> QED
      BY <1>1, <2>1, <3>1, <3>2
  <2>2. CASE flight' # flight \/ done' # done
    <3>1. Abstract!Receive
      BY <1>3, <2>2, ReadReceives DEF Abstract!Receive, ReadByte
    <3> QED
      BY <3>1 DEF Abstract!Next
  <2> QED
    BY <2>1, <2>2
<1>4. CASE ReadEOF
  BY <1>1, <1>4, ReadEOFInv DEF ReadEOF, hist
<1>5. CASE Cut
  <2>1. Abstract!Cut
    BY ZenonT(30), <1>5, CutLoses DEF Abstract!Cut, Cut
  <2> QED
    BY <2>1 DEF Abstract!Next
<1>6. CASE UNCHANGED vars
  <2>1. UNCHANGED <<up, wmu, frame, pipe, rbuf, got, flight, done>>
    BY <1>6 DEF vars, hist
  <2>2. Stream' = Stream
    BY <2>1 DEF Stream, Unwritten
  <2> QED
    BY <1>1, <2>1, <2>2
<1> QED
  BY <1>2, <1>3, <1>4, <1>5, <1>6 DEF Next

\* A connection with any number of writers, cut anywhere, is a channel of whole
\* messages: for every message size, byte base and buffer size.
THEOREM ImplementsChannel == Spec => IsChannel
<1> QED
  BY InitChannel, NextChannel, Invariance, PTL DEF Spec, IsChannel, Abstract!Spec

=============================================================================
