------------------------ MODULE RecordingLogProofs ------------------------
(***************************************************************************)
(* Proofs about RecordingLog for any events, payload sizes, header sizes,  *)
(* limits and flush interval, and for any number of records: read_log      *)
(* exposes only what was appended, an interrupted recording is read and    *)
(* recovered exactly, and a flushed record is never lost.                  *)
(*                                                                         *)
(* The argument: disk \o buffer is a prefix of the image of the records    *)
(* counted, followed at most by a part of one more record, but for the     *)
(* bytes that went bad; and the reader is always at the end of a record.   *)
(***************************************************************************)
EXTENDS RecordingLog, SetLemmas, SequenceTheorems, FiniteSetTheorems

-----------------------------------------------------------------------------
(* The offsets and the bytes of a recording of the events s. *)

RecordSize(e) == RecordHeaderSize + PayloadSize[e]
RecordOf(i, e) == RecordHeader(i, e) \o Payload(e)

Ends(s) ==
    CHOOSE f : f = [i \in 0 .. Len(s) |->
                      IF i = 0 THEN FileHeaderSize
                      ELSE f[i - 1] + RecordHeaderSize + PayloadSize[s[i]]]

Images(s) ==
    CHOOSE f : f = [i \in 0 .. Len(s) |->
                      IF i = 0 THEN FileHeader
                      ELSE f[i - 1] \o RecordHeader(i - 1, s[i]) \o Payload(s[i])]

LEMMA EndIsEnds == End = Ends(appended) /\ End' = Ends(appended')
BY DEF End, Ends

LEMMA ImageIsImages == Image = Images(appended) /\ Image' = Images(appended')
BY DEF Image, Images

LEMMA EndsUnfold ==
    ASSUME NEW s \in Seq(Events)
    PROVE  Ends(s) = [i \in 0 .. Len(s) |->
                        IF i = 0 THEN FileHeaderSize
                        ELSE Ends(s)[i - 1] + RecordHeaderSize + PayloadSize[s[i]]]
<1> DEFINE Of(f, n) == f = [i \in 0 .. n |->
                              IF i = 0 THEN FileHeaderSize
                              ELSE f[i - 1] + RecordHeaderSize + PayloadSize[s[i]]]
           T == {n \in 0 .. Len(s) : \E f : Of(f, n)}
<1>1. 0 \in T
  <2>1. Of([i \in {0} |-> FileHeaderSize], 0)
    OBVIOUS
  <2>2. 0 \in 0 .. Len(s)
    OBVIOUS
  <2> HIDE DEF Of
  <2> QED BY <2>1, <2>2
<1>2. ASSUME NEW n \in 0 .. Len(s), n # Len(s), n \in T PROVE n + 1 \in T
  <2>1. PICK g : Of(g, n)
    BY <1>2
  <2> DEFINE h == [i \in 0 .. n + 1 |-> IF i = n + 1
                     THEN g[n] + RecordHeaderSize + PayloadSize[s[n + 1]] ELSE g[i]]
  <2>2. ASSUME NEW i \in 0 .. n + 1
        PROVE  h[i] = IF i = 0 THEN FileHeaderSize
                      ELSE h[i - 1] + RecordHeaderSize + PayloadSize[s[i]]
    BY <2>1
  <2>3. Of(h, n + 1)
    BY <2>2
  <2>4. n + 1 \in 0 .. Len(s)
    BY <1>2
  <2> QED BY <2>3, <2>4
<1>3. \A n \in 0 .. Len(s) : n \in T
  <2> HIDE DEF T
  <2>1. Len(s) \in Nat
    OBVIOUS
  <2> QED BY <1>1, <1>2, <2>1, SetInduction
<1>4. \E f : Of(f, Len(s))
  BY <1>3
<1> QED BY <1>4 DEF Ends

LEMMA EndsFacts ==
    ASSUME NEW s \in Seq(Events)
    PROVE  /\ Ends(s) \in [0 .. Len(s) -> Nat]
           /\ Ends(s)[0] = FileHeaderSize
           /\ \A i \in 0 .. Len(s) : i # Len(s) =>
                Ends(s)[i + 1] = Ends(s)[i] + RecordSize(s[i + 1])
<1> DEFINE T == {n \in 0 .. Len(s) : Ends(s)[n] \in Nat}
<1>1. Len(s) \in Nat /\ DOMAIN Ends(s) = 0 .. Len(s) /\ Ends(s)[0] = FileHeaderSize
  BY EndsUnfold
<1>2. ASSUME NEW i \in 0 .. Len(s), i # Len(s)
      PROVE  /\ s[i + 1] \in Events /\ i + 1 \in 0 .. Len(s)
             /\ Ends(s)[i + 1] = Ends(s)[i] + RecordHeaderSize + PayloadSize[s[i + 1]]
  <2>1. i + 1 \in 1 .. Len(s) /\ (i + 1) - 1 = i /\ i + 1 # 0
    BY <1>2
  <2> QED BY <2>1, EndsUnfold
<1>3. 0 \in T
  BY <1>1, LayoutAssumption
<1>4. ASSUME NEW i \in 0 .. Len(s), i # Len(s), i \in T PROVE i + 1 \in T
  <2>1. PayloadSize[s[i + 1]] \in Nat /\ RecordHeaderSize \in Nat /\ Ends(s)[i] \in Nat
    BY <1>2, <1>4, LayoutAssumption
  <2>2. Ends(s)[i + 1] \in Nat
    BY <1>2, <1>4, <2>1
  <2> QED BY <1>2, <1>4, <2>2
<1>5. \A i \in 0 .. Len(s) : i \in T
  <2> HIDE DEF T
  <2> QED BY <1>1, <1>3, <1>4, SetInduction
<1>6. \A i \in 0 .. Len(s) : Ends(s)[i] \in Nat
  BY <1>5
<1>7. Ends(s) \in [0 .. Len(s) -> Nat]
  BY <1>6, EndsUnfold
<1>8. ASSUME NEW i \in 0 .. Len(s), i # Len(s)
      PROVE  Ends(s)[i + 1] = Ends(s)[i] + RecordSize(s[i + 1])
  BY <1>2, <1>6, <1>8, LayoutAssumption DEF RecordSize
<1> QED BY <1>1, <1>7, <1>8

\* The offsets grow.
LEMMA EndsGrow ==
    ASSUME NEW s \in Seq(Events), NEW i \in 0 .. Len(s), NEW j \in 0 .. Len(s), i < j
    PROVE  Ends(s)[i] < Ends(s)[j]
<1> DEFINE T == {n \in 0 .. Len(s) : i < n => Ends(s)[i] < Ends(s)[n]}
<1>1. 0 \in T /\ Len(s) \in Nat
  OBVIOUS
<1>2. ASSUME NEW n \in 0 .. Len(s), n # Len(s), n \in T PROVE n + 1 \in T
  <2>1. n + 1 \in 0 .. Len(s) /\ s[n + 1] \in Events
    BY <1>2
  <2>2. Ends(s)[i] \in Nat /\ Ends(s)[n] \in Nat /\ Ends(s)[n + 1] = Ends(s)[n] + RecordSize(s[n + 1])
    BY <1>2, EndsFacts
  <2>3. RecordSize(s[n + 1]) \in Nat /\ RecordSize(s[n + 1]) > 0
    BY <2>1, LayoutAssumption DEF RecordSize
  <2> QED BY <1>2, <2>1, <2>2, <2>3
<1>3. j \in T
  <2> HIDE DEF T
  <2> QED BY <1>1, <1>2, SetInduction
<1> QED BY <1>3

\* One more record leaves the earlier offsets alone.
LEMMA EndsAppend ==
    ASSUME NEW s \in Seq(Events), NEW e \in Events
    PROVE  /\ \A i \in 0 .. Len(s) : Ends(Append(s, e))[i] = Ends(s)[i]
           /\ Ends(Append(s, e))[Len(s) + 1] = Ends(s)[Len(s)] + RecordSize(e)
<1> DEFINE t == Append(s, e)
           T == {n \in 0 .. Len(s) : Ends(t)[n] = Ends(s)[n]}
<1>1. /\ Len(s) \in Nat /\ t \in Seq(Events) /\ Len(t) = Len(s) + 1 /\ t[Len(s) + 1] = e
      /\ \A i \in 1 .. Len(s) : t[i] = s[i]
  OBVIOUS
<1> HIDE DEF t
<1>2. 0 \in T
  BY <1>1, EndsFacts
<1>3. ASSUME NEW n \in 0 .. Len(s), n # Len(s), n \in T PROVE n + 1 \in T
  <2>1. n \in 0 .. Len(t) /\ n # Len(t) /\ n + 1 \in 1 .. Len(s)
    BY <1>1, <1>3
  <2>2. Ends(t)[n + 1] = Ends(t)[n] + RecordSize(t[n + 1])
    BY <1>1, <2>1, EndsFacts
  <2>3. Ends(s)[n + 1] = Ends(s)[n] + RecordSize(s[n + 1])
    BY <1>3, EndsFacts
  <2> QED BY <1>1, <1>3, <2>1, <2>2, <2>3
<1>4. \A i \in 0 .. Len(s) : i \in T
  <2> HIDE DEF T
  <2> QED BY <1>1, <1>2, <1>3, SetInduction
<1>5. Len(s) \in 0 .. Len(t) /\ Len(s) # Len(t) /\ Len(s) \in 0 .. Len(s)
  BY <1>1
<1>6. Ends(t)[Len(s) + 1] = Ends(t)[Len(s)] + RecordSize(t[Len(s) + 1])
  BY <1>1, <1>5, EndsFacts
<1> QED BY <1>1, <1>4, <1>5, <1>6 DEF t

LEMMA ImagesUnfold ==
    ASSUME NEW s \in Seq(Events)
    PROVE  Images(s) = [i \in 0 .. Len(s) |->
                        IF i = 0 THEN FileHeader
                        ELSE Images(s)[i - 1] \o RecordHeader(i - 1, s[i]) \o Payload(s[i])]
<1> DEFINE Of(f, n) == f = [i \in 0 .. n |->
                              IF i = 0 THEN FileHeader
                              ELSE f[i - 1] \o RecordHeader(i - 1, s[i]) \o Payload(s[i])]
           T == {n \in 0 .. Len(s) : \E f : Of(f, n)}
<1>1. 0 \in T
  <2>1. Of([i \in {0} |-> FileHeader], 0)
    OBVIOUS
  <2>2. 0 \in 0 .. Len(s)
    OBVIOUS
  <2> HIDE DEF Of
  <2> QED BY <2>1, <2>2
<1>2. ASSUME NEW n \in 0 .. Len(s), n # Len(s), n \in T PROVE n + 1 \in T
  <2>1. PICK g : Of(g, n)
    BY <1>2
  <2> DEFINE h == [i \in 0 .. n + 1 |-> IF i = n + 1
                     THEN g[n] \o RecordHeader(n, s[n + 1]) \o Payload(s[n + 1]) ELSE g[i]]
  <2>2. ASSUME NEW i \in 0 .. n + 1
        PROVE  h[i] = IF i = 0 THEN FileHeader
                      ELSE h[i - 1] \o RecordHeader(i - 1, s[i]) \o Payload(s[i])
    <3>1. CASE i = n + 1
      <4>1. i # 0 /\ i - 1 = n /\ n \in 0 .. n + 1 /\ n # n + 1
        BY <3>1
      <4>2. h[n] = g[n]
        BY <4>1
      <4> QED BY <3>1, <4>1, <4>2
    <3>2. CASE i # n + 1
      <4>1. i \in 0 .. n /\ h[i] = g[i]
        BY <3>2
      <4>2. i # 0 => i - 1 \in 0 .. n + 1 /\ i - 1 # n + 1 /\ h[i - 1] = g[i - 1]
        BY <4>1
      <4>3. g[i] = IF i = 0 THEN FileHeader
                   ELSE g[i - 1] \o RecordHeader(i - 1, s[i]) \o Payload(s[i])
        BY <2>1, <4>1
      <4> HIDE DEF h
      <4> QED BY <4>1, <4>2, <4>3
    <3> QED BY <3>1, <3>2
  <2>3. Of(h, n + 1)
    BY <2>2
  <2>4. n + 1 \in 0 .. Len(s)
    BY <1>2
  <2> QED BY <2>3, <2>4
<1>3. \A n \in 0 .. Len(s) : n \in T
  <2> HIDE DEF T
  <2>1. Len(s) \in Nat
    OBVIOUS
  <2> QED BY <1>1, <1>2, <2>1, SetInduction
<1>4. \E f : Of(f, Len(s))
  <2>1. Len(s) \in T
    <3>1. Len(s) \in 0 .. Len(s)
      OBVIOUS
    <3> HIDE DEF T
    <3> QED BY <1>3, <3>1
  <2> HIDE DEF Of
  <2> QED BY <2>1
<1> QED BY <1>4 DEF Images

\* Bytes one after the other.
LEMMA Joined ==
    ASSUME NEW a \in Seq(Bytes), NEW b \in Seq(Bytes), NEW c, c = a \o b
    PROVE  /\ c \in Seq(Bytes) /\ Len(a) \in Nat /\ Len(b) \in Nat
           /\ Len(c) = Len(a) + Len(b)
           /\ \A k \in 1 .. Len(a) : c[k] = a[k]
           /\ \A k \in 1 .. Len(b) : c[Len(a) + k] = b[k]
OBVIOUS

LEMMA JoinedTwice ==
    ASSUME NEW a \in Seq(Bytes), NEW b \in Seq(Bytes), NEW c \in Seq(Bytes)
    PROVE  (a \o b) \o c = a \o (b \o c)
OBVIOUS

\* The bytes of a record.
RecordByte(i, e, j) ==
    IF j <= RecordHeaderSize THEN <<"H", i, e, j>> ELSE <<"P", 0, e, j - RecordHeaderSize>>

LEMMA RecordFacts ==
    ASSUME NEW i \in Nat, NEW e \in Events
    PROVE  /\ RecordSize(e) \in Nat /\ RecordSize(e) > 0
           /\ RecordOf(i, e) \in Seq(Bytes) /\ Len(RecordOf(i, e)) = RecordSize(e)
           /\ RecordHeader(i, e) \in Seq(Bytes) /\ Len(RecordHeader(i, e)) = RecordHeaderSize
           /\ Payload(e) \in Seq(Bytes)
           /\ \A j \in 1 .. RecordSize(e) : RecordOf(i, e)[j] = RecordByte(i, e, j)
           /\ \A j \in 1 .. RecordHeaderSize : RecordHeader(i, e)[j] = RecordByte(i, e, j)
<1>1. PayloadSize[e] \in Nat /\ RecordHeaderSize \in Nat /\ RecordHeaderSize > 0
  BY LayoutAssumption
<1>2. RecordHeader(i, e) \in Seq(Bytes) /\ Len(RecordHeader(i, e)) = RecordHeaderSize
  BY <1>1 DEF RecordHeader, Bytes
<1>3. Payload(e) \in Seq(Bytes) /\ Len(Payload(e)) = PayloadSize[e]
  BY <1>1 DEF Payload, Bytes
<1>4. \A j \in 1 .. RecordHeaderSize : RecordHeader(i, e)[j] = RecordByte(i, e, j)
  BY <1>1 DEF RecordHeader, RecordByte
<1>5. ASSUME NEW j \in 1 .. RecordSize(e) PROVE RecordOf(i, e)[j] = RecordByte(i, e, j)
  <2>1. CASE j <= RecordHeaderSize
    BY <1>1, <1>2, <1>3, <1>4, <2>1 DEF RecordOf, RecordSize
  <2>2. CASE ~(j <= RecordHeaderSize)
    <3>1. RecordOf(i, e)[j] = Payload(e)[j - RecordHeaderSize]
      BY <1>1, <1>2, <1>3, <2>2 DEF RecordOf, RecordSize
    <3>2. j - RecordHeaderSize \in 1 .. PayloadSize[e]
      BY <1>1, <2>2 DEF RecordSize
    <3> QED BY <2>2, <3>1, <3>2 DEF Payload, RecordByte
  <2> QED BY <2>1, <2>2
<1>6. RecordOf(i, e) \in Seq(Bytes) /\ Len(RecordOf(i, e)) = RecordSize(e)
  BY <1>1, <1>2, <1>3 DEF RecordOf, RecordSize
<1>7. RecordSize(e) \in Nat /\ RecordSize(e) > 0
  BY <1>1 DEF RecordSize
<1> QED BY <1>2, <1>3, <1>4, <1>5, <1>6, <1>7

LEMMA FileHeaderFacts == FileHeader \in Seq(Bytes) /\ Len(FileHeader) = FileHeaderSize
<1>1. FileHeaderSize \in Nat
  BY LayoutAssumption
<1> QED BY <1>1 DEF FileHeader, Bytes

LEMMA ImagesFacts ==
    ASSUME NEW s \in Seq(Events)
    PROVE  /\ Images(s)[0] = FileHeader
           /\ \A i \in 0 .. Len(s) : Images(s)[i] \in Seq(Bytes) /\ Len(Images(s)[i]) = Ends(s)[i]
           /\ \A i \in 0 .. Len(s) : i # Len(s) =>
                Images(s)[i + 1] = Images(s)[i] \o RecordOf(i, s[i + 1])
<1> DEFINE T == {n \in 0 .. Len(s) : Images(s)[n] \in Seq(Bytes) /\ Len(Images(s)[n]) = Ends(s)[n]}
<1>1. Len(s) \in Nat /\ Images(s)[0] = FileHeader
  <2>1. Len(s) \in Nat /\ 0 \in 0 .. Len(s)
    OBVIOUS
  <2> QED BY <2>1, ImagesUnfold, Zenon
<1>2. ASSUME NEW i \in 0 .. Len(s), i # Len(s)
      PROVE  /\ s[i + 1] \in Events /\ i + 1 \in 0 .. Len(s)
             /\ Images(s)[i + 1] = (Images(s)[i] \o RecordHeader(i, s[i + 1])) \o Payload(s[i + 1])
  <2>1. i + 1 \in 1 .. Len(s) /\ (i + 1) - 1 = i /\ i + 1 # 0
    BY <1>2
  <2>2. i + 1 \in 0 .. Len(s)
    BY <2>1
  <2>3. Images(s)[i + 1] =
          (Images(s)[(i + 1) - 1] \o RecordHeader((i + 1) - 1, s[i + 1])) \o Payload(s[i + 1])
    BY <2>1, <2>2, ImagesUnfold
  <2> QED BY <2>1, <2>2, <2>3
<1>3. ASSUME NEW i \in 0 .. Len(s), i # Len(s), Images(s)[i] \in Seq(Bytes)
      PROVE  Images(s)[i + 1] = Images(s)[i] \o RecordOf(i, s[i + 1])
  <2>1. RecordHeader(i, s[i + 1]) \in Seq(Bytes) /\ Payload(s[i + 1]) \in Seq(Bytes)
    <3>1. s[i + 1] \in Events /\ i \in Nat
      BY <1>2, <1>3
    <3> QED BY <3>1, RecordFacts
  <2>2. (Images(s)[i] \o RecordHeader(i, s[i + 1])) \o Payload(s[i + 1])
          = Images(s)[i] \o (RecordHeader(i, s[i + 1]) \o Payload(s[i + 1]))
    BY <1>3, <2>1, JoinedTwice
  <2> QED BY <1>2, <1>3, <2>2 DEF RecordOf
<1>4. 0 \in T
  BY <1>1, FileHeaderFacts, EndsFacts
<1>5. ASSUME NEW n \in 0 .. Len(s), n # Len(s), n \in T PROVE n + 1 \in T
  <2>1. Images(s)[n + 1] = Images(s)[n] \o RecordOf(n, s[n + 1]) /\ s[n + 1] \in Events
    BY <1>2, <1>3, <1>5
  <2>2. /\ RecordOf(n, s[n + 1]) \in Seq(Bytes)
        /\ Len(RecordOf(n, s[n + 1])) = RecordSize(s[n + 1])
    BY <2>1, RecordFacts, SMTT(30)
  <2>3. Ends(s)[n + 1] = Ends(s)[n] + RecordSize(s[n + 1])
    BY <1>5, EndsFacts
  <2>4. /\ Images(s)[n + 1] \in Seq(Bytes)
        /\ Len(Images(s)[n + 1]) = Len(Images(s)[n]) + Len(RecordOf(n, s[n + 1]))
    <3> DEFINE a == Images(s)[n]
               b == RecordOf(n, s[n + 1])
               c == Images(s)[n + 1]
    <3>1. a \in Seq(Bytes) /\ b \in Seq(Bytes) /\ c = a \o b
      BY <1>5, <2>1, <2>2
    <3> HIDE DEF a, b, c
    <3>2. c \in Seq(Bytes) /\ Len(c) = Len(a) + Len(b)
      BY <3>1, Joined
    <3> QED BY <3>2 DEF a, b, c
  <2> QED BY <1>2, <1>5, <2>2, <2>3, <2>4
<1>6. \A i \in 0 .. Len(s) : i \in T
  <2> HIDE DEF T
  <2> QED BY <1>1, <1>4, <1>5, SetInduction
<1> QED BY <1>1, <1>3, <1>6

\* The image of fewer records is a prefix of the image of more.
LEMMA ImagesPrefix ==
    ASSUME NEW s \in Seq(Events), NEW i \in 0 .. Len(s), NEW j \in 0 .. Len(s), i <= j
    PROVE  \A k \in 1 .. Ends(s)[i] : Images(s)[j][k] = Images(s)[i][k]
<1> DEFINE Same(n) == \A k \in 1 .. Ends(s)[i] : Images(s)[n][k] = Images(s)[i][k]
           T == {n \in 0 .. Len(s) : i <= n => Same(n)}
<1>1. 0 \in T /\ Len(s) \in Nat
  OBVIOUS
<1>2. ASSUME NEW n \in 0 .. Len(s), n # Len(s), n \in T PROVE n + 1 \in T
  <2>1. n + 1 \in 0 .. Len(s) /\ s[n + 1] \in Events
    BY <1>2
  <2>2. CASE i <= n
    <3>1. Images(s)[n + 1] = Images(s)[n] \o RecordOf(n, s[n + 1])
      BY <1>2, ImagesFacts
    <3>2. /\ Images(s)[n] \in Seq(Bytes) /\ Len(Images(s)[n]) = Ends(s)[n]
          /\ RecordOf(n, s[n + 1]) \in Seq(Bytes)
      <4>1. n \in Nat
        OBVIOUS
      <4> QED BY <1>2, <2>1, <4>1, ImagesFacts, RecordFacts
    <3>3. Ends(s)[i] \in Nat /\ Ends(s)[n] \in Nat /\ Ends(s)[i] <= Ends(s)[n]
      <4>1. Ends(s)[i] \in Nat /\ Ends(s)[n] \in Nat
        BY EndsFacts
      <4>2. i < n => Ends(s)[i] < Ends(s)[n]
        BY EndsGrow
      <4> QED BY <2>2, <4>1, <4>2
    <3>4. \A k \in 1 .. Ends(s)[i] : Images(s)[n + 1][k] = Images(s)[n][k]
      <4>1. \A k \in 1 .. Len(Images(s)[n]) : Images(s)[n + 1][k] = Images(s)[n][k]
        <5> DEFINE a == Images(s)[n]
                   b == RecordOf(n, s[n + 1])
                   c == Images(s)[n + 1]
        <5>1. a \in Seq(Bytes) /\ b \in Seq(Bytes) /\ c = a \o b
          BY <3>1, <3>2
        <5> HIDE DEF a, b, c
        <5>2. \A k \in 1 .. Len(a) : c[k] = a[k]
          BY <5>1, Joined
        <5> QED BY <5>2 DEF a, c
      <4> QED BY <3>2, <3>3, <4>1
    <3> QED BY <1>2, <2>1, <2>2, <3>4
  <2>3. CASE i = n + 1
    BY <2>1, <2>3
  <2> QED BY <2>1, <2>2, <2>3
<1>3. j \in T
  <2> HIDE DEF T
  <2> QED BY <1>1, <1>2, SetInduction
<1> QED BY <1>3

LEMMA ImagesAppend ==
    ASSUME NEW s \in Seq(Events), NEW e \in Events
    PROVE  /\ \A i \in 0 .. Len(s) : Images(Append(s, e))[i] = Images(s)[i]
           /\ Images(Append(s, e))[Len(s) + 1] = Images(s)[Len(s)] \o RecordOf(Len(s), e)
<1> DEFINE t == Append(s, e)
           T == {n \in 0 .. Len(s) : Images(t)[n] = Images(s)[n]}
<1>1. /\ Len(s) \in Nat /\ t \in Seq(Events) /\ Len(t) = Len(s) + 1 /\ t[Len(s) + 1] = e
      /\ \A i \in 1 .. Len(s) : t[i] = s[i]
  OBVIOUS
<1> HIDE DEF t
<1>2. 0 \in T
  <2>1. 0 \in 0 .. Len(s)
    BY <1>1
  <2> QED BY <1>1, <2>1, ImagesFacts
<1>3. ASSUME NEW n \in 0 .. Len(s), n # Len(s), n \in T PROVE n + 1 \in T
  <2>1. n \in 0 .. Len(t) /\ n # Len(t) /\ n + 1 \in 1 .. Len(s) /\ n + 1 \in 0 .. Len(s)
    BY <1>1, <1>3
  <2>2. Images(t)[n + 1] = Images(t)[n] \o RecordOf(n, t[n + 1])
    BY <1>1, <2>1, ImagesFacts
  <2>3. Images(s)[n + 1] = Images(s)[n] \o RecordOf(n, s[n + 1])
    BY <1>3, ImagesFacts
  <2>4. Images(t)[n] = Images(s)[n] /\ t[n + 1] = s[n + 1]
    BY <1>1, <1>3, <2>1
  <2> QED BY <2>1, <2>2, <2>3, <2>4
<1>4. \A i \in 0 .. Len(s) : i \in T
  <2> HIDE DEF T
  <2> QED BY <1>1, <1>2, <1>3, SetInduction
<1>5. Len(s) \in 0 .. Len(t) /\ Len(s) # Len(t) /\ Len(s) \in 0 .. Len(s)
  BY <1>1
<1>6. Images(t)[Len(s) + 1] = Images(t)[Len(s)] \o RecordOf(Len(s), t[Len(s) + 1])
  BY <1>1, <1>5, ImagesFacts
<1> QED BY <1>1, <1>4, <1>5, <1>6 DEF t

\* Where the bytes of the records are.
LEMMA ImageBytes ==
    ASSUME NEW s \in Seq(Events)
    PROVE  /\ \A k \in 1 .. FileHeaderSize : Images(s)[Len(s)][k] = FileHeader[k]
           /\ \A i \in 0 .. Len(s) : i # Len(s) =>
                \A j \in 1 .. RecordSize(s[i + 1]) :
                  Images(s)[Len(s)][Ends(s)[i] + j] = RecordByte(i, s[i + 1], j)
<1>1. Len(s) \in Nat /\ 0 \in 0 .. Len(s) /\ Len(s) \in 0 .. Len(s)
  OBVIOUS
<1>2. \A k \in 1 .. FileHeaderSize : Images(s)[Len(s)][k] = FileHeader[k]
  <2>1. \A k \in 1 .. Ends(s)[0] : Images(s)[Len(s)][k] = Images(s)[0][k]
    BY <1>1, ImagesPrefix
  <2> QED BY <2>1, EndsFacts, ImagesFacts
<1>3. ASSUME NEW i \in 0 .. Len(s), i # Len(s), NEW j \in 1 .. RecordSize(s[i + 1])
      PROVE  Images(s)[Len(s)][Ends(s)[i] + j] = RecordByte(i, s[i + 1], j)
  <2>1. i \in Nat /\ i + 1 \in 0 .. Len(s) /\ i + 1 <= Len(s) /\ s[i + 1] \in Events
    BY <1>3
  <2>2. Ends(s)[i] \in Nat /\ Ends(s)[i + 1] = Ends(s)[i] + RecordSize(s[i + 1])
    BY <1>3, EndsFacts
  <2>3. /\ RecordSize(s[i + 1]) \in Nat
        /\ RecordOf(i, s[i + 1]) \in Seq(Bytes) /\ Len(RecordOf(i, s[i + 1])) = RecordSize(s[i + 1])
        /\ RecordOf(i, s[i + 1])[j] = RecordByte(i, s[i + 1], j)
    BY <2>1, RecordFacts
  <2>4. Ends(s)[i] + j \in 1 .. Ends(s)[i + 1]
    BY <2>2, <2>3
  <2>5. Images(s)[Len(s)][Ends(s)[i] + j] = Images(s)[i + 1][Ends(s)[i] + j]
    BY <1>1, <2>1, <2>4, ImagesPrefix
  <2>6. /\ Images(s)[i + 1] = Images(s)[i] \o RecordOf(i, s[i + 1])
        /\ Images(s)[i] \in Seq(Bytes) /\ Len(Images(s)[i]) = Ends(s)[i]
    BY <1>3, ImagesFacts
  <2>7. Images(s)[i + 1][Ends(s)[i] + j] = RecordOf(i, s[i + 1])[j]
    <3>1. \A k \in 1 .. Len(RecordOf(i, s[i + 1])) :
            Images(s)[i + 1][Len(Images(s)[i]) + k] = RecordOf(i, s[i + 1])[k]
      <4> DEFINE a == Images(s)[i]
                 b == RecordOf(i, s[i + 1])
                 c == Images(s)[i + 1]
      <4>1. a \in Seq(Bytes) /\ b \in Seq(Bytes) /\ c = a \o b
        BY <2>3, <2>6
      <4> HIDE DEF a, b, c
      <4>2. \A k \in 1 .. Len(b) : c[Len(a) + k] = b[k]
        BY <4>1, Joined
      <4> QED BY <4>2 DEF a, b, c
    <3> QED BY <2>3, <2>6, <3>1
  <2> QED BY <2>3, <2>5, <2>7
<1> QED BY <1>2, <1>3

-----------------------------------------------------------------------------
(* The inductive invariant. *)

\* A byte is the one written, or has gone bad.
Stored(byte, written, bad) == byte = written \/ (bad /\ byte = Zero)

\* The bytes c are a part of the recording of s, and perhaps of one record more.
PartOf(c, s, bad) ==
    LET end == Ends(s)[Len(s)] IN
    /\ \A k \in 1 .. Len(c) : k <= end => Stored(c[k], Images(s)[Len(s)][k], bad)
    /\ Len(c) > end =>
         \E e \in Events :
           /\ PayloadSize[e] <= MaximumPayloadSize
           /\ Len(c) < end + RecordSize(e)
           /\ \A j \in 1 .. Len(c) - end :
                Stored(c[end + j], RecordByte(Len(s), e, j), bad)

LastEnd == Ends(appended)[Len(appended)]

ReaderType ==
    /\ reader.phase \in {"idle", "reading", "done"}
    /\ reader.recovers \in BOOLEAN /\ reader.rotten \in BOOLEAN
    /\ reader.file_size \in Nat /\ reader.offset \in Nat /\ reader.valid_bytes \in Nat
    /\ reader.floor \in Nat
    /\ reader.index \in Seq([file_offset : Nat, event : Events])
    /\ reader.status \in Statuses \cup {"none"}
    /\ DOMAIN reader = DOMAIN IdleReader

WriterType ==
    /\ disk \in Seq(Bytes) /\ buffer \in Seq(Bytes)
    /\ writer \in {"none", "open", "closed", "crashed", "refused"}
    /\ error \in BOOLEAN /\ damaged \in BOOLEAN
    /\ position \in Nat /\ bytes_written \in Nat /\ acked \in Nat /\ flushed \in Nat
    /\ appended \in Seq(Events) /\ record_count = Len(appended)

\* What the writer has produced.
WriterInv ==
    /\ writer = "none" => disk = <<>> /\ buffer = <<>> /\ appended = <<>> /\ position = 0
                          /\ error = FALSE /\ flushed = 0
    /\ writer = "open" => position = Len(disk)
    /\ writer \in {"closed", "crashed", "refused"} => buffer = <<>>
    /\ writer = "open" /\ (~error \/ buffer # <<>>) => Len(disk) + Len(buffer) = LastEnd
    /\ writer = "open" /\ ~error => bytes_written = LastEnd
    /\ PartOf(disk \o buffer, appended, damaged)
    /\ \A i \in 1 .. Len(appended) : PayloadSize[appended[i]] <= MaximumPayloadSize
    /\ flushed <= Len(appended)
    /\ flushed > 0 => Ends(appended)[flushed] <= Len(disk)

Offline == writer \in {"closed", "crashed", "refused"}

\* Where a read of the file is, and what it has found so far.
Reading ==
    LET m == Len(reader.index)
        bytes == reader.valid_bytes
    IN  /\ bytes = Ends(appended)[m]
        /\ bytes <= reader.file_size
        /\ damaged = reader.rotten =>
             \A k \in 1 .. bytes : disk[k] = Images(appended)[Len(appended)][k]
        /\ reader.phase = "reading" => reader.offset = bytes
        /\ reader.phase = "done" =>
             /\ reader.status \in {"complete", "truncated_tail", "resource_limit", "corrupt"}
             /\ reader.status = "complete" => bytes = reader.file_size
             /\ reader.status = "truncated_tail" =>
                  /\ m < MaximumRecords /\ bytes < reader.file_size
                  /\ m < Len(appended) => reader.file_size < Ends(appended)[m + 1]
             /\ reader.status = "resource_limit" => m = MaximumRecords /\ bytes < reader.file_size
             /\ reader.status = "corrupt" => damaged

\* A file whose header is cut or damaged is not read.
NotReading ==
    /\ reader.phase = "done" /\ reader.status = "corrupt"
    /\ reader.index = <<>> /\ reader.valid_bytes = 0
    /\ reader.file_size < FileHeaderSize \/ damaged

ReaderInv ==
    /\ NeverWrongRecord
    /\ reader.phase = "idle" => reader = IdleReader
    /\ reader.phase # "idle" =>
         /\ writer # "none"
         /\ reader.file_size <= Len(disk)
         /\ reader.recovers => Offline /\ reader.file_size = Len(disk)
         /\ reader.floor <= Len(appended)
         /\ reader.floor > 0 => Ends(appended)[reader.floor] <= reader.file_size
         /\ reader.rotten => damaged
         /\ Len(reader.index) <= MaximumRecords
         /\ NotReading \/ (Reading /\ reader.file_size >= FileHeaderSize)

RecoveryInv ==
    /\ recovery \in {"none", "already complete", "removed", "failed", "refused"}
    /\ recovery = "refused" =>
         /\ Offline
         /\ \/ damaged
            \/ Len(disk) < FileHeaderSize
            \/ MaximumRecords <= Len(appended) /\ Ends(appended)[MaximumRecords] < Len(disk)

LogInv == WriterType /\ ReaderType /\ WriterInv /\ ReaderInv /\ RecoveryInv

-----------------------------------------------------------------------------
(* Bytes that are a part of a recording. *)

LEMMA LastEndNat ==
    ASSUME NEW s \in Seq(Events)
    PROVE  /\ Len(s) \in Nat /\ Len(s) \in 0 .. Len(s)
           /\ Ends(s)[Len(s)] \in Nat /\ Ends(s)[Len(s)] >= FileHeaderSize
           /\ Images(s)[Len(s)] \in Seq(Bytes) /\ Len(Images(s)[Len(s)]) = Ends(s)[Len(s)]
<1>1. Len(s) \in Nat /\ Len(s) \in 0 .. Len(s) /\ 0 \in 0 .. Len(s)
  OBVIOUS
<1>2. Ends(s)[Len(s)] \in Nat /\ Ends(s)[0] = FileHeaderSize /\ FileHeaderSize \in Nat
  BY <1>1, EndsFacts, LayoutAssumption
<1>3. 0 < Len(s) => Ends(s)[0] < Ends(s)[Len(s)]
  BY <1>1, EndsGrow
<1>4. Ends(s)[Len(s)] >= FileHeaderSize
  BY <1>1, <1>2, <1>3
<1> QED BY <1>1, <1>2, <1>4, ImagesFacts

LEMMA PartPrefix ==
    ASSUME NEW c \in Seq(Bytes), NEW p \in Seq(Bytes), NEW s \in Seq(Events), NEW bad,
           PartOf(c, s, bad), Len(p) <= Len(c), \A k \in 1 .. Len(p) : p[k] = c[k]
    PROVE  PartOf(p, s, bad)
<1> DEFINE end == Ends(s)[Len(s)]
<1>1. Len(c) \in Nat /\ Len(p) \in Nat /\ end \in Nat
  BY LastEndNat
<1>2. \A k \in 1 .. Len(p) : k \in 1 .. Len(c)
  BY <1>1
<1>3. \A k \in 1 .. Len(p) : k <= end => Stored(p[k], Images(s)[Len(s)][k], bad)
  BY <1>2 DEF PartOf
<1>4. ASSUME Len(p) > end
      PROVE  \E e \in Events :
               /\ PayloadSize[e] <= MaximumPayloadSize
               /\ Len(p) < end + RecordSize(e)
               /\ \A j \in 1 .. Len(p) - end : Stored(p[end + j], RecordByte(Len(s), e, j), bad)
  <2>1. Len(c) > end
    BY <1>1, <1>4
  <2>2. PICK e \in Events :
               /\ PayloadSize[e] <= MaximumPayloadSize
               /\ Len(c) < end + RecordSize(e)
               /\ \A j \in 1 .. Len(c) - end : Stored(c[end + j], RecordByte(Len(s), e, j), bad)
    BY <2>1 DEF PartOf
  <2>3. RecordSize(e) \in Nat
    BY <1>1, LastEndNat, RecordFacts
  <2>4. Len(p) < end + RecordSize(e)
    BY <1>1, <2>2, <2>3
  <2>5. ASSUME NEW j \in 1 .. Len(p) - end
        PROVE  Stored(p[end + j], RecordByte(Len(s), e, j), bad)
    <3>1. end + j \in 1 .. Len(p) /\ j \in 1 .. Len(c) - end
      BY <1>1
    <3> QED BY <2>2, <3>1
  <2> QED BY <2>2, <2>4, <2>5
<1> QED BY <1>3, <1>4 DEF PartOf

\* One more whole record.
LEMMA PartAppend ==
    ASSUME NEW c \in Seq(Bytes), NEW s \in Seq(Events), NEW e \in Events, NEW bad,
           NEW d, d = c \o RecordOf(Len(s), e),
           PartOf(c, s, bad), Len(c) = Ends(s)[Len(s)]
    PROVE  /\ PartOf(d, Append(s, e), bad) /\ d \in Seq(Bytes)
           /\ Len(d) = Ends(s)[Len(s)] + RecordSize(e)
           /\ Len(d) = Ends(Append(s, e))[Len(Append(s, e))]
<1> DEFINE end == Ends(s)[Len(s)]
           r == RecordOf(Len(s), e)
           old == Images(s)[Len(s)]
           t == Append(s, e)
           new == Images(t)[Len(t)]
<1>1. Len(c) = end /\ end \in Nat /\ Len(s) \in Nat
  BY LastEndNat
<1>2. r \in Seq(Bytes) /\ Len(r) = RecordSize(e) /\ RecordSize(e) \in Nat
  BY <1>1, RecordFacts
<1>3. old \in Seq(Bytes) /\ Len(old) = end
  BY LastEndNat
<1>4. /\ t \in Seq(Events) /\ Len(t) = Len(s) + 1
      /\ Ends(t)[Len(t)] = end + RecordSize(e) /\ new = old \o r
  BY <1>1, EndsAppend, ImagesAppend
<1> HIDE DEF r, old, new, t, end
<1>5. /\ d \in Seq(Bytes) /\ Len(d) = end + RecordSize(e)
      /\ \A k \in 1 .. end : d[k] = c[k]
      /\ \A k \in 1 .. RecordSize(e) : d[end + k] = r[k]
  <2>1. d = c \o r
    BY DEF r
  <2>2. /\ d \in Seq(Bytes) /\ Len(d) = Len(c) + Len(r)
        /\ \A k \in 1 .. Len(c) : d[k] = c[k]
        /\ \A k \in 1 .. Len(r) : d[Len(c) + k] = r[k]
    <3>1. r \in Seq(Bytes)
      BY <1>2
    <3>2. d \in Seq(Bytes) /\ Len(d) = Len(c) + Len(r)
      BY <2>1, <3>1, Joined, ZenonT(30)
    <3>3. \A k \in 1 .. Len(c) : d[k] = c[k]
      BY <2>1, <3>1, Joined
    <3>4. \A k \in 1 .. Len(r) : d[Len(c) + k] = r[k]
      BY <2>1, <3>1, Joined, SMTT(30)
    <3> QED BY <3>2, <3>3, <3>4
  <2> QED BY <1>1, <1>2, <2>2
<1>6. /\ \A k \in 1 .. end : new[k] = old[k]
      /\ \A k \in 1 .. RecordSize(e) : new[end + k] = r[k]
  <2>1. /\ \A k \in 1 .. Len(old) : new[k] = old[k]
        /\ \A k \in 1 .. Len(r) : new[Len(old) + k] = r[k]
    <3>1. r \in Seq(Bytes) /\ old \in Seq(Bytes) /\ new = old \o r
      BY <1>2, <1>3, <1>4
    <3>2. \A k \in 1 .. Len(old) : new[k] = old[k]
      BY <3>1, Joined
    <3>3. \A k \in 1 .. Len(r) : new[Len(old) + k] = r[k]
      BY <3>1, Joined
    <3> QED BY <3>2, <3>3
  <2> QED BY <1>2, <1>3, <2>1
<1>7. ASSUME NEW k \in 1 .. Len(d) PROVE Stored(d[k], new[k], bad)
  <2>1. CASE k <= end
    <3>1. k \in 1 .. end /\ k \in 1 .. Len(c)
      BY <1>1, <2>1
    <3>2. Stored(c[k], old[k], bad)
      BY <2>1, <3>1 DEF PartOf, old, end
    <3> QED BY <1>5, <1>6, <3>1, <3>2
  <2>2. CASE ~(k <= end)
    <3>1. k - end \in 1 .. RecordSize(e) /\ end + (k - end) = k
      BY <1>1, <1>2, <1>5, <2>2
    <3>2. d[k] = r[k - end] /\ new[k] = r[k - end]
      BY <1>5, <1>6, <3>1
    <3> QED BY <3>2 DEF Stored
  <2> QED BY <2>1, <2>2
<1>8. ~(Len(d) > Ends(t)[Len(t)])
  BY <1>1, <1>2, <1>4, <1>5
<1>9. PartOf(d, t, bad)
  BY <1>7, <1>8 DEF PartOf, new
<1> QED BY <1>4, <1>5, <1>9 DEF t, end

\* A part of one more record.
LEMMA PartTorn ==
    ASSUME NEW c \in Seq(Bytes), NEW s \in Seq(Events), NEW e \in Events, NEW bad,
           NEW p \in Seq(Bytes), PartOf(c, s, bad), Len(c) = Ends(s)[Len(s)],
           PayloadSize[e] <= MaximumPayloadSize,
           Len(p) < Len(c) + RecordSize(e),
           \A k \in 1 .. Len(p) : k <= Len(c) => p[k] = c[k],
           \A j \in 1 .. RecordSize(e) : Len(c) + j <= Len(p) =>
             p[Len(c) + j] = RecordByte(Len(s), e, j)
    PROVE  PartOf(p, s, bad)
<1> DEFINE end == Ends(s)[Len(s)]
<1>1. Len(c) \in Nat /\ end \in Nat /\ Len(s) \in Nat /\ Len(p) \in Nat
  BY LastEndNat
<1>2. RecordSize(e) \in Nat
  BY <1>1, RecordFacts
<1>3. \A k \in 1 .. Len(p) : k <= end => Stored(p[k], Images(s)[Len(s)][k], bad)
  BY <1>1 DEF PartOf
<1>4. ASSUME NEW j \in 1 .. Len(p) - end
      PROVE  Stored(p[end + j], RecordByte(Len(s), e, j), bad)
  <2>1. j \in 1 .. RecordSize(e) /\ end + j <= Len(p)
    BY <1>1, <1>2
  <2> QED BY <2>1 DEF Stored
<1> QED BY <1>3, <1>4 DEF PartOf

LEMMA PartRots ==
    ASSUME NEW c \in Seq(Bytes), NEW d \in Seq(Bytes), NEW s \in Seq(Events), NEW bad,
           PartOf(c, s, bad), Len(d) = Len(c), \A k \in 1 .. Len(c) : d[k] = c[k] \/ d[k] = Zero
    PROVE  PartOf(d, s, TRUE)
<1> DEFINE end == Ends(s)[Len(s)]
<1>1. Len(c) \in Nat /\ end \in Nat
  BY LastEndNat
<1>2. \A k \in 1 .. Len(d) : k <= end => Stored(d[k], Images(s)[Len(s)][k], TRUE)
  BY DEF PartOf, Stored
<1>3. ASSUME Len(d) > end
      PROVE  \E e \in Events :
               /\ PayloadSize[e] <= MaximumPayloadSize
               /\ Len(d) < end + RecordSize(e)
               /\ \A j \in 1 .. Len(d) - end : Stored(d[end + j], RecordByte(Len(s), e, j), TRUE)
  <2>1. PICK e \in Events :
               /\ PayloadSize[e] <= MaximumPayloadSize
               /\ Len(c) < end + RecordSize(e)
               /\ \A j \in 1 .. Len(c) - end : Stored(c[end + j], RecordByte(Len(s), e, j), bad)
    BY <1>3 DEF PartOf
  <2>2. \A j \in 1 .. Len(d) - end : end + j \in 1 .. Len(c)
    BY <1>1
  <2>3. \A j \in 1 .. Len(d) - end : Stored(d[end + j], RecordByte(Len(s), e, j), TRUE)
    BY <2>1, <2>2 DEF Stored
  <2> QED BY <2>1, <2>3
<1> QED BY <1>2, <1>3 DEF PartOf

-----------------------------------------------------------------------------
(* What the stream does to the file. *)

Grown == Len(disk) <= Len(disk') /\ \A k \in 1 .. Len(disk) : disk'[k] = disk[k]

LEMMA OverlayAtEnd ==
    ASSUME NEW f \in Seq(Bytes), NEW b \in Seq(Bytes)
    PROVE  Overlay(f, Len(f), b) = f \o b
<1>1. CASE b = <<>>
  <2>1. Overlay(f, Len(f), b) = [k \in 1 .. Len(f) |-> f[k]]
    BY <1>1 DEF Overlay
  <2>2. f = [k \in 1 .. Len(f) |-> f[k]] /\ f \o b = f
    BY <1>1
  <2> QED BY <2>1, <2>2
<1>2. CASE b # <<>>
  <2>1. Len(f) \in Nat /\ Len(b) \in Nat /\ Len(b) > 0
    BY <1>2
  <2>2. Overlay(f, Len(f), b) =
          [k \in 1 .. Len(f) + Len(b) |-> IF k > Len(f) THEN b[k - Len(f)] ELSE f[k]]
    BY <1>2, <2>1 DEF Overlay
  <2> DEFINE c == f \o b
  <2>3. c = f \o b
    OBVIOUS
  <2> HIDE DEF c
  <2>4. c \in Seq(Bytes) /\ Len(c) = Len(f) + Len(b)
    BY <2>3, Joined
  <2>5. \A k \in 1 .. Len(f) : c[k] = f[k]
    BY <2>3, Joined
  <2>6. \A k \in 1 .. Len(b) : c[Len(f) + k] = b[k]
    BY <2>3, Joined
  <2>7. ASSUME NEW k \in 1 .. Len(f) + Len(b)
        PROVE  c[k] = IF k > Len(f) THEN b[k - Len(f)] ELSE f[k]
    <3>1. CASE k > Len(f)
      <4>1. k - Len(f) \in 1 .. Len(b) /\ Len(f) + (k - Len(f)) = k
        BY <2>1, <3>1
      <4> QED BY <2>6, <3>1, <4>1
    <3>2. CASE ~(k > Len(f))
      BY <2>1, <2>5, <3>2
    <3> QED BY <3>1, <3>2
  <2>8. c = [k \in 1 .. Len(f) + Len(b) |-> c[k]]
    BY <2>4
  <2> QED BY <2>2, <2>3, <2>7, <2>8
<1> QED BY <1>1, <1>2

LEMMA FlushStep ==
    ASSUME disk \in Seq(Bytes), position = Len(disk), NEW out \in Seq(Bytes), FlushedTo(out)
    PROVE  /\ disk' = disk \o out /\ disk' \in Seq(Bytes) /\ buffer' = <<>>
           /\ position' = Len(disk') /\ Len(disk') = Len(disk) + Len(out) /\ Grown
<1>1. disk' = disk \o out /\ buffer' = <<>> /\ position' = Len(disk) + Len(out)
  BY OverlayAtEnd DEF FlushedTo
<1>2. disk' \in Seq(Bytes) /\ Len(disk') = Len(disk) + Len(out)
  BY <1>1, Joined
<1>3. \A k \in 1 .. Len(disk) : disk'[k] = disk[k]
  BY <1>1, Joined
<1>4. Len(disk) \in Nat /\ Len(out) \in Nat
  OBVIOUS
<1> QED BY <1>1, <1>2, <1>3, <1>4 DEF Grown

\* After a failed write the file is a proper part of what it was to become.
LEMMA TornStep ==
    ASSUME disk \in Seq(Bytes), position = Len(disk), NEW out \in Seq(Bytes), TornAt(out),
           NEW whole, whole = disk \o out
    PROVE  /\ disk' \in Seq(Bytes) /\ buffer' = <<>> /\ error' = TRUE
           /\ position' = Len(disk') /\ Len(disk') < Len(whole) /\ Grown
           /\ \A k \in 1 .. Len(disk') : disk'[k] = whole[k]
           /\ whole \in Seq(Bytes) /\ Len(whole) = Len(disk) + Len(out)
<1>1. PICK part \in ProperPrefixes(out) :
        disk' = Overlay(disk, position, part) /\ position' = position + Len(part)
  BY DEF TornAt
<1>2. PICK n \in 0 .. Len(out) - 1 : part = SubSeq(out, 1, n)
  BY <1>1 DEF ProperPrefixes
<1>3. /\ part \in Seq(Bytes) /\ Len(part) = n /\ n \in Nat /\ n < Len(out)
      /\ \A k \in 1 .. n : part[k] = out[k]
  <2>1. Len(out) \in Nat
    OBVIOUS
  <2> QED BY <1>2, <2>1
<1>4. disk' = disk \o part
  BY <1>1, <1>3, OverlayAtEnd
<1>5. disk' \in Seq(Bytes) /\ Len(disk') = Len(disk) + n
  BY <1>3, <1>4, Joined
<1>6. \A k \in 1 .. Len(disk) : disk'[k] = disk[k]
  BY <1>3, <1>4, Joined
<1>7. \A k \in 1 .. Len(part) : disk'[Len(disk) + k] = part[k]
  BY <1>3, <1>4, Joined
<1>8. whole \in Seq(Bytes) /\ Len(whole) = Len(disk) + Len(out)
  BY Joined
<1>9. \A k \in 1 .. Len(disk) : whole[k] = disk[k]
  BY Joined
<1>10. \A k \in 1 .. Len(out) : whole[Len(disk) + k] = out[k]
  BY Joined
<1>11. Len(disk) \in Nat /\ Len(out) \in Nat
  OBVIOUS
<1>12. ASSUME NEW k \in 1 .. Len(disk') PROVE disk'[k] = whole[k]
  <2>1. CASE k <= Len(disk)
    BY <1>5, <1>6, <1>9, <1>11, <2>1
  <2>2. CASE ~(k <= Len(disk))
    <3>1. /\ k - Len(disk) \in 1 .. n /\ k - Len(disk) \in 1 .. Len(out)
          /\ Len(disk) + (k - Len(disk)) = k
      BY <1>3, <1>5, <1>11, <2>2
    <3> QED BY <1>3, <1>7, <1>10, <3>1
  <2> QED BY <2>1, <2>2
<1>13. buffer' = <<>> /\ error' = TRUE
  BY DEF TornAt
<1>14. Len(disk') < Len(whole) /\ Len(disk) <= Len(disk') /\ position' = Len(disk')
  BY <1>1, <1>3, <1>5, <1>8, <1>11
<1> QED BY <1>5, <1>6, <1>8, <1>12, <1>13, <1>14 DEF Grown

-----------------------------------------------------------------------------
(* The writer. *)

\* What the rest of the system sees of a step of the writer.
WriterMoves ==
    /\ UNCHANGED <<readerVars, damaged>> /\ Grown
    /\ writer \in {"none", "open"} /\ writer' # "none"
    /\ \/ appended' = appended
       \/ \E e \in Events : appended' = Append(appended, e) /\ Len(disk) <= LastEnd

\* The parts of WriterInv that hold when nothing is counted or flushed.
LEMMA CountsKept ==
    ASSUME WriterType, WriterInv, Grown, appended' = appended, flushed' = flushed,
           disk' \in Seq(Bytes)
    PROVE  /\ \A i \in 1 .. Len(appended') : PayloadSize[appended'[i]] <= MaximumPayloadSize
           /\ flushed' <= Len(appended')
           /\ flushed' > 0 => Ends(appended')[flushed'] <= Len(disk')
<1>1. Len(disk) \in Nat /\ Len(disk') \in Nat /\ Len(appended) \in Nat /\ flushed \in Nat
  BY DEF WriterType
<1>2. flushed > 0 => Ends(appended)[flushed] \in Nat
  BY <1>1, EndsFacts, SMTT(30) DEF WriterType, WriterInv
<1> QED BY <1>1, <1>2 DEF WriterInv, Grown

LEMMA EmptyRecording ==
    /\ Len(<<>>) = 0 /\ <<>> \in Seq(Events)
    /\ Ends(<<>>)[Len(<<>>)] = FileHeaderSize /\ Images(<<>>)[Len(<<>>)] = FileHeader
    /\ \A bad : PartOf(FileHeader, <<>>, bad)
<1>1. Len(<<>>) = 0 /\ <<>> \in Seq(Events)
  OBVIOUS
<1>2. Ends(<<>>)[0] = FileHeaderSize /\ Images(<<>>)[0] = FileHeader
  BY <1>1, EndsFacts, ImagesFacts
<1>3. Len(FileHeader) = FileHeaderSize /\ FileHeaderSize \in Nat
  BY FileHeaderFacts, LayoutAssumption
<1>4. \A bad : PartOf(FileHeader, <<>>, bad)
  BY <1>1, <1>2, <1>3 DEF PartOf, Stored
<1> QED BY <1>1, <1>2, <1>4

LEMMA OpenStep ==
    ASSUME WriterType, WriterInv, OpenLog \/ OpenFails
    PROVE  WriterType' /\ WriterInv' /\ WriterMoves
<1>1. /\ writer = "none" /\ writer' = "open" /\ disk = <<>> /\ buffer = <<>> /\ appended = <<>>
      /\ position = 0 /\ error = FALSE /\ flushed = 0
      /\ UNCHANGED <<record_count, appended, acked, flushed, readerVars, damaged>>
  BY DEF OpenLog, OpenFails, WriterInv, countVars
<1>2. Len(disk) = 0 /\ Len(appended) = 0 /\ disk \in Seq(Bytes) /\ appended \in Seq(Events)
  BY <1>1 DEF WriterType
<1>3. CASE OpenLog
  <2>1. disk' = <<>> /\ buffer' = FileHeader /\ bytes_written' = FileHeaderSize
        /\ error' = FALSE /\ position' = 0
    BY <1>1, <1>3 DEF OpenLog, HeaderBytes
  <2>2. FileHeader \in Seq(Bytes) /\ Len(FileHeader) = FileHeaderSize /\ FileHeaderSize \in Nat
    BY FileHeaderFacts, LayoutAssumption
  <2>3. disk' \o buffer' = FileHeader
    BY <2>1, <2>2
  <2>4. WriterType'
    BY <1>1, <1>2, <2>1, <2>2 DEF WriterType
  <2>5. LastEnd' = FileHeaderSize
    BY <1>1, EmptyRecording DEF LastEnd
  <2>6. PartOf(disk' \o buffer', appended', damaged')
    BY <1>1, <2>3, EmptyRecording
  <2>7. Grown
    BY <1>1, <1>2, <2>1 DEF Grown
  <2>8. WriterInv'
    BY <1>1, <1>2, <2>1, <2>2, <2>5, <2>6 DEF WriterInv
  <2> QED BY <1>1, <2>4, <2>7, <2>8 DEF WriterMoves
<1>4. CASE OpenFails /\ UNCHANGED streamVars
  <2>1. error' = TRUE /\ UNCHANGED <<disk, buffer, position, bytes_written>>
    BY <1>1, <1>4, FileHeaderFacts DEF OpenFails, TornAt, streamVars, countVars
  <2>2. WriterType'
    BY <1>1, <2>1 DEF WriterType
  <2>3. Grown
    BY <1>2, <2>1 DEF Grown
  <2>4. WriterInv'
    BY <1>1, <1>2, <2>1 DEF WriterInv, LastEnd
  <2> QED BY <1>1, <2>2, <2>3, <2>4 DEF WriterMoves
<1>5. CASE OpenFails /\ TornAt(FileHeader)
  <2> DEFINE whole == disk \o FileHeader
  <2>1. FileHeader \in Seq(Bytes) /\ position = Len(disk) /\ whole = FileHeader
    BY <1>1, <1>2, FileHeaderFacts
  <2>2. /\ disk' \in Seq(Bytes) /\ buffer' = <<>> /\ error' = TRUE
        /\ position' = Len(disk') /\ Len(disk') < Len(whole) /\ Grown
        /\ \A k \in 1 .. Len(disk') : disk'[k] = whole[k]
    BY <1>2, <1>5, <2>1, TornStep
  <2>3. Len(disk') \in Nat /\ disk' \o buffer' = disk' /\ bytes_written' = bytes_written
    BY <1>5, <2>2 DEF OpenFails, countVars
  <2>4. WriterType'
    BY <1>1, <2>2, <2>3 DEF WriterType
  <2>5. PartOf(disk', appended', damaged')
    <3>1. PartOf(FileHeader, <<>>, damaged) /\ <<>> \in Seq(Events)
      BY EmptyRecording
    <3>2. Len(disk') <= Len(FileHeader) /\ \A k \in 1 .. Len(disk') : disk'[k] = FileHeader[k]
      BY <2>1, <2>2, <2>3, FileHeaderFacts, LayoutAssumption
    <3> QED BY <1>1, <2>1, <2>2, <3>1, <3>2, PartPrefix
  <2>6. WriterInv'
    BY <1>1, <1>2, <2>2, <2>3, <2>5 DEF WriterInv
  <2> QED BY <1>1, <2>2, <2>4, <2>6 DEF WriterMoves
<1>6. OpenFails => UNCHANGED streamVars \/ TornAt(FileHeader)
  BY DEF OpenFails
<1> QED BY <1>3, <1>4, <1>5, <1>6

LEMMA DrainStep ==
    ASSUME WriterType, WriterInv, NEW n \in 1 .. Len(buffer), Drain(n)
    PROVE  WriterType' /\ WriterInv' /\ WriterMoves
<1> DEFINE first == SubSeq(buffer, 1, n)
           rest == SubSeq(buffer, n + 1, Len(buffer))
<1>1. /\ writer = "open" /\ position = Len(disk) /\ disk \in Seq(Bytes) /\ buffer \in Seq(Bytes)
      /\ Len(disk) \in Nat /\ Len(buffer) \in Nat
  BY DEF Drain, WriterType, WriterInv
<1>2. /\ first \in Seq(Bytes) /\ rest \in Seq(Bytes) /\ Len(first) = n
      /\ Len(rest) = Len(buffer) - n /\ first \o rest = buffer
  BY <1>1
<1>3. /\ disk' = Overlay(disk, position, first) /\ position' = position + n /\ buffer' = rest
      /\ UNCHANGED <<writer, error, countVars, flushed, readerVars, damaged>>
  BY DEF Drain
<1> HIDE DEF first, rest
<1>4. disk' = disk \o first
  BY <1>1, <1>2, <1>3, OverlayAtEnd
<1>5. disk' \in Seq(Bytes) /\ Len(disk') = Len(disk) + n
  BY <1>1, <1>2, <1>4, Joined
<1>6. Grown
  <2>1. \A k \in 1 .. Len(disk) : disk'[k] = disk[k]
    BY <1>1, <1>2, <1>4, Joined
  <2> QED BY <1>1, <1>5, <2>1 DEF Grown
<1>7. disk' \o buffer' = disk \o buffer
  <2>1. (disk \o first) \o rest = disk \o (first \o rest)
    BY <1>1, <1>2, JoinedTwice, ZenonT(30)
  <2> QED BY <1>2, <1>3, <1>4, <2>1
<1>8. WriterType'
  BY <1>2, <1>3, <1>5, <1>1 DEF WriterType, countVars
<1>9. WriterInv'
  <2>1. PartOf(disk' \o buffer', appended', damaged')
    BY <1>3, <1>7 DEF WriterInv, countVars
  <2>2. LastEnd' = LastEnd /\ appended' = appended /\ flushed' = flushed
    BY <1>3 DEF LastEnd, countVars
  <2>3. Len(disk') + Len(buffer') = Len(disk) + Len(buffer)
    <3>1. Len(buffer') = Len(buffer) - n
      BY <1>2, <1>3
    <3> QED BY <1>1, <1>5, <3>1
  <2>4. writer' = "open" /\ position' = Len(disk') /\ buffer # <<>>
    BY <1>1, <1>3, <1>5
  <2>5. (~error \/ buffer # <<>>) => Len(disk') + Len(buffer') = LastEnd'
    BY <1>1, <2>2, <2>3 DEF WriterInv
  <2>6. ~error' => bytes_written' = LastEnd'
    BY <1>1, <1>3, <2>2 DEF WriterInv, countVars
  <2> QED BY <1>5, <1>6, <2>1, <2>2, <2>4, <2>5, <2>6, CountsKept DEF WriterInv
<1> QED BY <1>1, <1>3, <1>6, <1>8, <1>9 DEF WriterMoves, countVars

\* The state before a record is written.
LEMMA BeforeAppend ==
    ASSUME WriterType, WriterInv, NEW e \in Events, Appendable(e), NEW c, c = disk \o buffer
    PROVE  /\ writer = "open" /\ ~error /\ position = Len(disk)
           /\ disk \in Seq(Bytes) /\ buffer \in Seq(Bytes) /\ appended \in Seq(Events)
           /\ c \in Seq(Bytes) /\ Len(c) = LastEnd /\ Len(c) = Len(disk) + Len(buffer)
           /\ Len(disk) <= LastEnd
           /\ PartOf(c, appended, damaged) /\ bytes_written = LastEnd
           /\ Record(e) = RecordOf(Len(appended), e) /\ Record(e) \in Seq(Bytes)
           /\ PayloadSize[e] <= MaximumPayloadSize
<1>1. /\ writer = "open" /\ ~error /\ position = Len(disk)
      /\ disk \in Seq(Bytes) /\ buffer \in Seq(Bytes) /\ appended \in Seq(Events)
      /\ PartOf(c, appended, damaged) /\ bytes_written = LastEnd
      /\ PayloadSize[e] <= MaximumPayloadSize /\ Len(disk) + Len(buffer) = LastEnd
  BY DEF Appendable, Good, WriterType, WriterInv
<1>2. c \in Seq(Bytes) /\ Len(c) = Len(disk) + Len(buffer)
  BY <1>1, Joined
<1>3. Record(e) = RecordOf(Len(appended), e)
  BY DEF Record, RecordOf, NextIndex, WriterType
<1>4. RecordOf(Len(appended), e) \in Seq(Bytes)
  <2>1. Len(appended) \in Nat
    BY <1>1
  <2> QED BY <2>1, RecordFacts
<1>5. Len(disk) <= LastEnd
  <2>1. Len(disk) \in Nat /\ Len(buffer) \in Nat
    BY <1>1
  <2> QED BY <1>1, <2>1
<1> QED BY <1>1, <1>2, <1>3, <1>4, <1>5

\* The record is counted: what holds of the counters afterwards.
LEMMA RecordCounted ==
    ASSUME WriterType, WriterInv, NEW e \in Events, Appendable(e), CountRecord(e)
    PROVE  /\ appended' \in Seq(Events) /\ record_count' = Len(appended')
           /\ Len(appended') = Len(appended) + 1 /\ Len(appended) \in Nat
           /\ LastEnd' = LastEnd + RecordSize(e) /\ LastEnd \in Nat /\ RecordSize(e) \in Nat
           /\ bytes_written' = LastEnd'
           /\ \A i \in 0 .. Len(appended) : Ends(appended')[i] = Ends(appended)[i]
           /\ \A i \in 1 .. Len(appended') : PayloadSize[appended'[i]] <= MaximumPayloadSize
<1>1. /\ appended' = Append(appended, e) /\ record_count' = Len(appended) + 1
      /\ appended \in Seq(Events) /\ Len(appended) \in Nat
      /\ bytes_written' = bytes_written + Len(Record(e))
  BY DEF CountRecord, WriterType
<1>2. /\ appended' \in Seq(Events) /\ Len(appended') = Len(appended) + 1
      /\ appended'[Len(appended) + 1] = e
      /\ \A i \in 1 .. Len(appended) : appended'[i] = appended[i]
  BY <1>1
<1>3. /\ \A i \in 0 .. Len(appended) : Ends(appended')[i] = Ends(appended)[i]
      /\ Ends(appended')[Len(appended) + 1] = Ends(appended)[Len(appended)] + RecordSize(e)
  BY <1>1, EndsAppend
<1>4. LastEnd' = LastEnd + RecordSize(e)
  BY <1>2, <1>3 DEF LastEnd
<1>5. LastEnd \in Nat /\ RecordSize(e) \in Nat
  BY <1>1, LastEndNat, RecordFacts DEF LastEnd
<1>6. bytes_written' = LastEnd'
  <2>1. Record(e) = RecordOf(Len(appended), e) /\ bytes_written = LastEnd
    BY BeforeAppend
  <2>2. Len(RecordOf(Len(appended), e)) = RecordSize(e)
    BY <1>1, RecordFacts
  <2> QED BY <1>1, <1>4, <2>1, <2>2
<1>7. ASSUME NEW i \in 1 .. Len(appended') PROVE PayloadSize[appended'[i]] <= MaximumPayloadSize
  <2>1. i = Len(appended) + 1 \/ i \in 1 .. Len(appended)
    BY <1>1, <1>2
  <2> QED BY <1>2, <2>1 DEF WriterInv, Appendable
<1> QED BY <1>1, <1>2, <1>3, <1>4, <1>5, <1>6, <1>7

\* The bytes after a record that is counted.
LEMMA AppendedBytes ==
    ASSUME WriterType, WriterInv, NEW e \in Events, Appendable(e), CountRecord(e),
           NEW d, d = (disk \o buffer) \o Record(e)
    PROVE  /\ d \in Seq(Bytes) /\ PartOf(d, appended', damaged) /\ Len(d) = LastEnd'
           /\ d = disk \o (buffer \o Record(e)) /\ buffer \o Record(e) \in Seq(Bytes)
<1> DEFINE c == disk \o buffer
<1>1. /\ disk \in Seq(Bytes) /\ buffer \in Seq(Bytes) /\ appended \in Seq(Events)
      /\ c \in Seq(Bytes) /\ Len(c) = LastEnd /\ PartOf(c, appended, damaged)
      /\ Record(e) = RecordOf(Len(appended), e) /\ Record(e) \in Seq(Bytes)
  BY BeforeAppend
<1>2. LastEnd' = LastEnd + RecordSize(e) /\ Len(appended) \in Nat
  BY RecordCounted
<1>3. appended' = Append(appended, e)
  BY DEF CountRecord
<1>4. d \in Seq(Bytes) /\ PartOf(d, appended', damaged) /\ Len(d) = LastEnd'
  <2> HIDE DEF c
  <2>1. d = c \o RecordOf(Len(appended), e) /\ Len(c) = Ends(appended)[Len(appended)]
    BY <1>1 DEF LastEnd, c
  <2>2. c \in Seq(Bytes) /\ appended \in Seq(Events) /\ PartOf(c, appended, damaged)
    BY <1>1
  <2>3. PartOf(d, Append(appended, e), damaged)
    BY <2>1, <2>2, PartAppend
  <2>4. d \in Seq(Bytes)
    BY <2>1, <2>2, PartAppend
  <2>5. Len(d) = Ends(appended)[Len(appended)] + RecordSize(e)
    <3> DEFINE r == RecordOf(Len(appended), e)
    <3>1. r \in Seq(Bytes) /\ Len(r) = RecordSize(e)
      BY <1>2, RecordFacts
    <3> HIDE DEF r
    <3>2. d = c \o r
      BY <2>1 DEF r
    <3>3. Len(d) = Len(c) + Len(r)
      BY <2>2, <3>1, <3>2, Joined
    <3> QED BY <2>1, <3>1, <3>3
  <2> QED BY <1>2, <1>3, <2>3, <2>4, <2>5 DEF LastEnd
<1>5. d = disk \o (buffer \o Record(e)) /\ buffer \o Record(e) \in Seq(Bytes)
  <2>1. d = disk \o (buffer \o Record(e))
    BY <1>1, JoinedTwice
  <2>2. buffer \o Record(e) \in Seq(Bytes)
    BY <1>1, Joined
  <2> QED BY <2>1, <2>2
<1> QED BY <1>4, <1>5

LEMMA AppendStep ==
    ASSUME WriterType, WriterInv, NEW e \in Events, AppendSucceeds(e)
    PROVE  WriterType' /\ WriterInv' /\ WriterMoves
<1> DEFINE c == disk \o buffer
           d == c \o Record(e)
<1>1. /\ Appendable(e) /\ CountRecord(e) /\ acked' = acked + 1
      /\ UNCHANGED <<writer, error, readerVars, damaged>>
  BY DEF AppendSucceeds
<1>2. /\ writer = "open" /\ ~error /\ position = Len(disk)
      /\ disk \in Seq(Bytes) /\ buffer \in Seq(Bytes) /\ appended \in Seq(Events)
      /\ c \in Seq(Bytes) /\ Len(c) = LastEnd /\ Len(c) = Len(disk) + Len(buffer)
      /\ Len(disk) <= LastEnd /\ PartOf(c, appended, damaged)
      /\ Record(e) = RecordOf(Len(appended), e) /\ Record(e) \in Seq(Bytes)
  BY <1>1, BeforeAppend
<1>3. /\ appended' \in Seq(Events) /\ record_count' = Len(appended')
      /\ Len(appended') = Len(appended) + 1 /\ Len(appended) \in Nat
      /\ LastEnd' = LastEnd + RecordSize(e) /\ LastEnd \in Nat /\ RecordSize(e) \in Nat
      /\ bytes_written' = LastEnd'
      /\ \A i \in 0 .. Len(appended) : Ends(appended')[i] = Ends(appended)[i]
      /\ \A i \in 1 .. Len(appended') : PayloadSize[appended'[i]] <= MaximumPayloadSize
  BY <1>1, RecordCounted
<1>4. appended' = Append(appended, e)
  BY <1>1 DEF CountRecord
<1>5. /\ d \in Seq(Bytes) /\ PartOf(d, appended', damaged) /\ Len(d) = LastEnd'
      /\ d = disk \o (buffer \o Record(e)) /\ buffer \o Record(e) \in Seq(Bytes)
  BY <1>1, AppendedBytes
<1> HIDE DEF c, d
<1>6. CASE FlushDue
  <2>1. FlushedTo(buffer \o Record(e)) /\ flushed' = record_count + 1
    BY <1>6 DEF AppendSucceeds
  <2>2. disk' = d /\ buffer' = <<>> /\ position' = Len(disk') /\ Grown
    BY <1>2, <1>5, <2>1, FlushStep
  <2>3. disk' \o buffer' = d
    BY <1>5, <2>2
  <2>4. flushed' = Len(appended')
    BY <1>3, <2>1 DEF WriterType
  <2>5. WriterType'
    BY <1>1, <1>3, <1>5, <2>2, <2>4, SMTT(30) DEF WriterType
  <2>6. WriterInv'
    <3>1. PartOf(disk' \o buffer', appended', damaged') /\ damaged' = damaged
      BY <1>1, <1>5, <2>3
    <3>2. Len(disk') = LastEnd' /\ Len(disk') \in Nat /\ Len(buffer') = 0
      BY <1>5, <2>2
    <3>3. Ends(appended')[flushed'] <= Len(disk') /\ flushed' <= Len(appended')
      BY <1>3, <2>4, <3>2 DEF LastEnd
    <3>4. Len(disk') + Len(buffer') = LastEnd'
      BY <3>2
    <3> QED BY <1>1, <1>2, <1>3, <2>2, <3>1, <3>3, <3>4 DEF WriterInv
  <2> QED BY <1>1, <1>2, <1>4, <2>2, <2>5, <2>6 DEF WriterMoves
<1>7. CASE ~FlushDue
  <2>1. buffer' = buffer \o Record(e) /\ UNCHANGED <<disk, position, flushed>>
    BY <1>7 DEF AppendSucceeds
  <2>2. disk' \o buffer' = d
    BY <1>5, <2>1
  <2>3. Len(disk') + Len(buffer') = LastEnd'
    <3>1. Len(d) = Len(disk') + Len(buffer')
      BY <1>2, <1>5, <2>1, <2>2, Joined
    <3> QED BY <1>5, <3>1
  <2>4. Grown
    <3>1. Len(disk) \in Nat
      BY <1>2
    <3> QED BY <2>1, <3>1 DEF Grown
  <2>5. WriterType'
    BY <1>1, <1>3, <1>5, <2>1 DEF WriterType
  <2>6. flushed' <= Len(appended') /\ (flushed' > 0 => Ends(appended')[flushed'] <= Len(disk'))
    <3>1. flushed \in Nat /\ flushed <= Len(appended)
      BY DEF WriterType, WriterInv
    <3>2. flushed \in 0 .. Len(appended)
      BY <1>3, <3>1
    <3> QED BY <1>3, <2>1, <3>1, <3>2 DEF WriterInv
  <2>7. WriterInv'
    BY <1>1, <1>2, <1>3, <1>5, <2>1, <2>2, <2>3, <2>6 DEF WriterInv
  <2> QED BY <1>1, <1>2, <1>4, <2>4, <2>5, <2>7 DEF WriterMoves
<1> QED BY <1>6, <1>7

LEMMA AppendFlushFailsStep ==
    ASSUME WriterType, WriterInv, NEW e \in Events, AppendFlushFails(e)
    PROVE  WriterType' /\ WriterInv' /\ WriterMoves
<1> DEFINE d == (disk \o buffer) \o Record(e)
<1>1. /\ Appendable(e) /\ CountRecord(e) /\ TornAt(buffer \o Record(e))
      /\ UNCHANGED <<writer, acked, flushed, readerVars, damaged>>
  BY DEF AppendFlushFails
<1>2. /\ writer = "open" /\ position = Len(disk) /\ disk \in Seq(Bytes)
      /\ Len(disk) <= LastEnd
  BY <1>1, BeforeAppend
<1>3. /\ appended' \in Seq(Events) /\ record_count' = Len(appended')
      /\ Len(appended') = Len(appended) + 1 /\ Len(appended) \in Nat
      /\ LastEnd' \in Nat /\ bytes_written' = LastEnd'
      /\ \A i \in 0 .. Len(appended) : Ends(appended')[i] = Ends(appended)[i]
      /\ \A i \in 1 .. Len(appended') : PayloadSize[appended'[i]] <= MaximumPayloadSize
  <2>1. LastEnd' = LastEnd + RecordSize(e) /\ LastEnd \in Nat /\ RecordSize(e) \in Nat
    BY <1>1, RecordCounted
  <2>2. LastEnd' \in Nat
    BY <2>1
  <2> QED BY <1>1, <2>2, RecordCounted
<1>4. appended' = Append(appended, e)
  BY <1>1 DEF CountRecord
<1>5. /\ d \in Seq(Bytes) /\ PartOf(d, appended', damaged)
      /\ d = disk \o (buffer \o Record(e)) /\ buffer \o Record(e) \in Seq(Bytes)
  BY <1>1, AppendedBytes
<1> HIDE DEF d
<1>6. /\ disk' \in Seq(Bytes) /\ buffer' = <<>> /\ error' = TRUE
      /\ position' = Len(disk') /\ Len(disk') < Len(d) /\ Grown
      /\ \A k \in 1 .. Len(disk') : disk'[k] = d[k]
  BY <1>1, <1>2, <1>5, TornStep
<1>7. PartOf(disk', appended', damaged)
  <2>1. Len(disk') <= Len(d)
    <3>1. Len(disk') \in Nat /\ Len(d) \in Nat
      BY <1>5, <1>6
    <3> QED BY <1>6, <3>1
  <2> QED BY <1>3, <1>5, <1>6, <2>1, PartPrefix
<1>8. disk' \o buffer' = disk'
  BY <1>6
<1>9. WriterType'
  BY <1>1, <1>3, <1>6 DEF WriterType
<1>10. flushed' <= Len(appended') /\ (flushed' > 0 => Ends(appended')[flushed'] <= Len(disk'))
  <2>1. flushed \in Nat /\ flushed <= Len(appended)
    BY DEF WriterType, WriterInv
  <2>2. flushed \in 0 .. Len(appended)
    BY <1>3, <2>1
  <2>3. flushed > 0 => Ends(appended)[flushed] <= Len(disk) /\ Ends(appended)[flushed] \in Nat
    BY <2>2, EndsFacts DEF WriterInv, WriterType
  <2>4. Len(disk) \in Nat /\ Len(disk') \in Nat /\ Len(disk) <= Len(disk')
    BY <1>2, <1>6 DEF Grown
  <2> QED BY <1>1, <1>3, <2>1, <2>2, <2>3, <2>4
<1>11. WriterInv'
  BY <1>1, <1>2, <1>3, <1>6, <1>7, <1>8, <1>10 DEF WriterInv
<1> QED BY <1>1, <1>2, <1>4, <1>6, <1>9, <1>11 DEF WriterMoves

LEMMA AppendWriteFailsStep ==
    ASSUME WriterType, WriterInv, NEW e \in Events, AppendWriteFails(e)
    PROVE  WriterType' /\ WriterInv' /\ WriterMoves
<1> DEFINE c == disk \o buffer
<1>1. /\ Appendable(e)
      /\ UNCHANGED <<writer, record_count, appended, acked, flushed, readerVars, damaged>>
  BY DEF AppendWriteFails
<1>2. /\ writer = "open" /\ ~error /\ position = Len(disk)
      /\ disk \in Seq(Bytes) /\ buffer \in Seq(Bytes) /\ appended \in Seq(Events)
      /\ c \in Seq(Bytes) /\ Len(c) = LastEnd /\ Len(c) = Len(disk) + Len(buffer)
      /\ PartOf(c, appended, damaged) /\ bytes_written = LastEnd
      /\ Record(e) = RecordOf(Len(appended), e) /\ Record(e) \in Seq(Bytes)
      /\ PayloadSize[e] <= MaximumPayloadSize
  BY <1>1, BeforeAppend
<1>3. Len(appended) \in Nat /\ LastEnd \in Nat /\ record_count = Len(appended)
  BY <1>2, LastEndNat DEF LastEnd, WriterType
<1>4. PICK x \in Seq(Bytes) :
        /\ TornAt(buffer \o x) /\ Len(x) <= RecordSize(e)
        /\ \A j \in 1 .. Len(x) : x[j] = RecordByte(Len(appended), e, j)
        /\ bytes_written' \in {bytes_written, bytes_written + RecordHeaderSize}
  <2>1. /\ RecordHeader(Len(appended), e) \in Seq(Bytes)
        /\ Len(RecordHeader(Len(appended), e)) = RecordHeaderSize
        /\ \A j \in 1 .. RecordHeaderSize :
             RecordHeader(Len(appended), e)[j] = RecordByte(Len(appended), e, j)
    BY <1>3, RecordFacts
  <2>2. /\ Len(Record(e)) = RecordSize(e)
        /\ \A j \in 1 .. RecordSize(e) : Record(e)[j] = RecordByte(Len(appended), e, j)
    BY <1>2, <1>3, RecordFacts
  <2>3. RecordHeaderSize <= RecordSize(e) /\ RecordSize(e) <= RecordSize(e)
    BY LayoutAssumption DEF RecordSize
  <2>4. CASE TornAt(buffer \o RecordHeader(NextIndex, e)) /\ UNCHANGED bytes_written
    BY <1>3, <2>1, <2>3, <2>4 DEF NextIndex
  <2>5. CASE TornAt(buffer \o Record(e)) /\ bytes_written' = bytes_written + RecordHeaderSize
    BY <1>2, <2>2, <2>3, <2>5
  <2> QED BY <2>4, <2>5 DEF AppendWriteFails
<1> DEFINE w == c \o x
<1>5. w = disk \o (buffer \o x) /\ buffer \o x \in Seq(Bytes)
  <2>1. w = disk \o (buffer \o x)
    BY <1>2, JoinedTwice, SMTT(30)
  <2>2. buffer \o x \in Seq(Bytes)
    BY <1>2, Joined
  <2> QED BY <2>1, <2>2
<1>6. /\ w \in Seq(Bytes) /\ Len(w) = Len(c) + Len(x)
      /\ \A k \in 1 .. Len(c) : w[k] = c[k]
      /\ \A k \in 1 .. Len(x) : w[Len(c) + k] = x[k]
  <2> HIDE DEF c
  <2>1. c \in Seq(Bytes) /\ w = c \o x
    BY <1>2
  <2> HIDE DEF w
  <2>2. w \in Seq(Bytes) /\ Len(w) = Len(c) + Len(x)
    BY <2>1, Joined
  <2>3. \A k \in 1 .. Len(c) : w[k] = c[k]
    BY <2>1, Joined
  <2>4. \A k \in 1 .. Len(x) : w[Len(c) + k] = x[k]
    BY <2>1, Joined
  <2> QED BY <2>2, <2>3, <2>4
<1> HIDE DEF c, w
<1>7. /\ disk' \in Seq(Bytes) /\ buffer' = <<>> /\ error' = TRUE
      /\ position' = Len(disk') /\ Len(disk') < Len(w) /\ Grown
      /\ \A k \in 1 .. Len(disk') : disk'[k] = w[k]
  BY <1>2, <1>4, <1>5, TornStep
<1>8. PartOf(disk', appended, damaged)
  <2>1. Len(disk') \in Nat /\ Len(x) \in Nat /\ RecordSize(e) \in Nat
    BY <1>3, <1>4, <1>7, RecordFacts
  <2>2. Len(disk') < Len(c) + RecordSize(e)
    BY <1>2, <1>3, <1>4, <1>6, <1>7, <2>1
  <2>3. ASSUME NEW k \in 1 .. Len(disk'), k <= Len(c) PROVE disk'[k] = c[k]
    <3>1. k \in 1 .. Len(c)
      BY <2>1, <2>3, <1>2, <1>3
    <3> QED BY <1>6, <1>7, <3>1
  <2>4. ASSUME NEW j \in 1 .. RecordSize(e), Len(c) + j <= Len(disk')
        PROVE  disk'[Len(c) + j] = RecordByte(Len(appended), e, j)
    <3>1. j \in 1 .. Len(x) /\ Len(c) + j \in 1 .. Len(disk')
      BY <1>2, <1>3, <1>6, <1>7, <2>1, <2>4, SMTT(30)
    <3> QED BY <1>4, <1>6, <1>7, <3>1
  <2>5. Len(c) = Ends(appended)[Len(appended)]
    BY <1>2 DEF LastEnd
  <2> QED BY <1>2, <1>7, <2>2, <2>3, <2>4, <2>5, PartTorn
<1>9. disk' \o buffer' = disk'
  BY <1>7
<1>10. WriterType'
  BY <1>1, <1>2, <1>3, <1>4, <1>7, LayoutAssumption DEF WriterType
<1>11. WriterInv'
  BY <1>1, <1>2, <1>7, <1>8, <1>9, CountsKept DEF WriterInv
<1> QED BY <1>1, <1>2, <1>7, <1>10, <1>11 DEF WriterMoves

\* A step in which the stream loses bytes or hands them on, and no more.
LEMMA StreamEnds ==
    ASSUME WriterType, WriterInv, writer = "open", writer' \in {"open", "closed", "crashed"},
           disk' \in Seq(Bytes), Grown, buffer' = <<>>, NEW c, c = disk \o buffer,
           Len(disk') <= Len(c), \A k \in 1 .. Len(disk') : disk'[k] = c[k],
           writer' = "open" => position' = Len(disk') /\ (error' \/ (disk' = c /\ error' = error)),
           position' \in Nat, error' \in BOOLEAN,
           UNCHANGED <<countVars, readerVars, damaged>>,
           flushed' = flushed \/ (flushed' = record_count /\ disk' = c /\ ~error)
    PROVE  WriterType' /\ WriterInv' /\ WriterMoves
<1>1. /\ disk \in Seq(Bytes) /\ buffer \in Seq(Bytes) /\ appended \in Seq(Events)
      /\ record_count = Len(appended) /\ Len(appended) \in Nat
      /\ appended' = appended /\ record_count' = record_count /\ bytes_written' = bytes_written
      /\ acked' = acked /\ damaged' = damaged /\ reader' = reader /\ recovery' = recovery
  BY DEF WriterType, countVars, readerVars
<1>2. c \in Seq(Bytes) /\ Len(c) = Len(disk) + Len(buffer)
  BY <1>1, Joined
<1>3. PartOf(c, appended, damaged)
  BY DEF WriterInv
<1>4. PartOf(disk', appended', damaged')
  BY <1>1, <1>2, <1>3, PartPrefix
<1>5. disk' \o buffer' = disk' /\ Len(buffer') = 0 /\ Len(disk') \in Nat
  OBVIOUS
<1>6. WriterType'
  BY <1>1 DEF WriterType
<1>7. LastEnd' = LastEnd
  BY <1>1 DEF LastEnd
<1>8. ~error /\ disk' = c => Len(disk') = LastEnd
  BY <1>2 DEF WriterInv
<1>9. flushed' <= Len(appended') /\ (flushed' > 0 => Ends(appended')[flushed'] <= Len(disk'))
  <2>1. CASE flushed' = flushed
    BY <1>1, <2>1, CountsKept
  <2>2. CASE flushed' = record_count /\ disk' = c /\ ~error
    BY <1>1, <1>5, <1>8, <2>2 DEF LastEnd
  <2> QED BY <2>1, <2>2
<1>10. WriterInv'
  BY <1>1, <1>4, <1>5, <1>7, <1>8, <1>9 DEF WriterInv
<1> QED BY <1>1, <1>6, <1>10 DEF WriterMoves, readerVars

LEMMA EndSteps ==
    ASSUME WriterType, WriterInv, FlushLog \/ CloseLog \/ Crash
    PROVE  WriterType' /\ WriterInv' /\ WriterMoves
<1> DEFINE c == disk \o buffer
<1>1. writer = "open" /\ position = Len(disk) /\ disk \in Seq(Bytes) /\ buffer \in Seq(Bytes)
  BY DEF FlushLog, CloseLog, Crash, Good, WriterType, WriterInv
<1>2. /\ c \in Seq(Bytes) /\ Len(c) = Len(disk) + Len(buffer)
      /\ \A k \in 1 .. Len(disk) : c[k] = disk[k]
      /\ Len(disk) \in Nat /\ Len(buffer) \in Nat /\ Len(c) \in Nat
  <2>1. disk \in Seq(Bytes) /\ buffer \in Seq(Bytes) /\ c = disk \o buffer
    BY <1>1
  <2> HIDE DEF c
  <2>2. c \in Seq(Bytes) /\ Len(c) = Len(disk) + Len(buffer)
    BY <2>1, Joined
  <2>3. \A k \in 1 .. Len(disk) : c[k] = disk[k]
    BY <2>1, Joined
  <2> QED BY <2>1, <2>2, <2>3
<1>3. FlushedTo(buffer) =>
        /\ disk' = c /\ disk' \in Seq(Bytes) /\ buffer' = <<>> /\ position' = Len(disk') /\ Grown
  BY <1>1, FlushStep
<1>4. TornAt(buffer) =>
        /\ disk' \in Seq(Bytes) /\ buffer' = <<>> /\ error' = TRUE
        /\ position' = Len(disk') /\ Len(disk') < Len(c) /\ Grown
        /\ \A k \in 1 .. Len(disk') : disk'[k] = c[k]
  BY <1>1, TornStep
<1>5. c = disk \o buffer
  OBVIOUS
<1> HIDE DEF c
<1>6. Len(disk') \in Nat \/ ~(disk' \in Seq(Bytes))
  OBVIOUS
<1>7. CASE FlushLog /\ FlushedTo(buffer) /\ flushed' = record_count /\ UNCHANGED error
  <2>1. /\ writer' = "open" /\ ~error /\ UNCHANGED <<countVars, readerVars, damaged>>
        /\ position' \in Nat /\ error' \in BOOLEAN
    BY <1>1, <1>3, <1>6, <1>7 DEF FlushLog, Good, WriterType
  <2> QED BY <1>1, <1>2, <1>3, <1>5, <1>7, <2>1, StreamEnds
<1>8. CASE FlushLog /\ TornAt(buffer) /\ UNCHANGED flushed
  <2>1. /\ writer' = "open" /\ UNCHANGED <<countVars, readerVars, damaged>>
        /\ position' \in Nat /\ Len(disk') <= Len(c) /\ error' \in BOOLEAN /\ flushed' = flushed
    BY <1>1, <1>2, <1>4, <1>6, <1>8 DEF FlushLog, Good
  <2>2. /\ disk' \in Seq(Bytes) /\ buffer' = <<>> /\ position' = Len(disk') /\ Grown
        /\ error' = TRUE /\ \A k \in 1 .. Len(disk') : disk'[k] = c[k]
    BY <1>4, <1>8
  <2>3. writer' = "open" => position' = Len(disk') /\ (error' \/ (disk' = c /\ error' = error))
    BY <2>2
  <2>4. /\ writer' \in {"open", "closed", "crashed"}
        /\ flushed' = flushed \/ (flushed' = record_count /\ disk' = c /\ ~error)
    BY <2>1, Zenon
  <2> QED BY <1>1, <1>5, <2>1, <2>2, <2>3, <2>4, StreamEnds, Zenon
<1>9. CASE CloseLog /\ FlushedTo(buffer) /\ UNCHANGED error
  <2>1. /\ writer' = "closed" /\ UNCHANGED <<countVars, flushed, readerVars, damaged>>
        /\ position' \in Nat /\ error' \in BOOLEAN
    BY <1>1, <1>3, <1>6, <1>9 DEF CloseLog, WriterType
  <2> QED BY <1>1, <1>2, <1>3, <1>5, <2>1, <1>9, StreamEnds, SMTT(30)
<1>10. CASE CloseLog /\ TornAt(buffer)
  <2>1. /\ writer' = "closed" /\ UNCHANGED <<countVars, flushed, readerVars, damaged>>
        /\ position' \in Nat /\ Len(disk') <= Len(c)
    BY <1>1, <1>2, <1>4, <1>6, <1>10 DEF CloseLog
  <2> QED BY <1>1, <1>4, <1>5, <1>10, <2>1, StreamEnds
<1>11. CASE Crash
  <2>1. /\ writer' = "crashed" /\ buffer' = <<>> /\ disk' = disk /\ position' = position
        /\ error' = error /\ UNCHANGED <<countVars, flushed, readerVars, damaged>>
        /\ position \in Nat /\ error \in BOOLEAN
    BY <1>11 DEF Crash, WriterType
  <2>2. Grown /\ Len(disk') <= Len(c)
    BY <1>2, <2>1 DEF Grown
  <2> QED BY <1>1, <1>2, <1>5, <2>1, <2>2, StreamEnds
<1> QED BY <1>7, <1>8, <1>9, <1>10, <1>11 DEF FlushLog, CloseLog

LEMMA RefuseStep ==
    ASSUME WriterType, WriterInv, NEW e \in Events, AppendRefuses(e)
    PROVE  WriterType' /\ WriterInv' /\ WriterMoves
<1>1. /\ writer = "open" /\ ~error /\ error' = TRUE
      /\ UNCHANGED <<writer, disk, buffer, position, countVars, flushed, readerVars, damaged>>
  BY DEF AppendRefuses, Good, streamVars
<1>2. Grown
  <2>1. Len(disk) \in Nat
    BY DEF WriterType
  <2> QED BY <1>1, <2>1 DEF Grown
<1>3. WriterType'
  BY <1>1 DEF WriterType, countVars
<1>4. WriterInv'
  BY <1>1 DEF WriterInv, LastEnd, countVars
<1> QED BY <1>1, <1>2, <1>3, <1>4 DEF WriterMoves, countVars

WriterStep ==
    \/ OpenLog \/ OpenFails
    \/ \E n \in 1 .. Len(buffer) : Drain(n)
    \/ \E e \in Events : record_count < MaxAppends /\ AppendEvent(e)
    \/ FlushLog \/ CloseLog \/ Crash

LEMMA WriterSteps ==
    ASSUME WriterType, WriterInv, WriterStep
    PROVE  WriterType' /\ WriterInv' /\ WriterMoves
<1>1. CASE OpenLog \/ OpenFails
  BY <1>1, OpenStep
<1>2. CASE \E n \in 1 .. Len(buffer) : Drain(n)
  BY <1>2, DrainStep
<1>3. CASE \E e \in Events : record_count < MaxAppends /\ AppendEvent(e)
  BY <1>3, AppendStep, AppendWriteFailsStep, AppendFlushFailsStep, RefuseStep DEF AppendEvent
<1>4. CASE FlushLog \/ CloseLog \/ Crash
  BY <1>4, EndSteps
<1> QED BY <1>1, <1>2, <1>3, <1>4 DEF WriterStep

\* The offsets and the images of the records counted so far stay.
LEMMA OffsetsStay ==
    ASSUME WriterType, WriterType', WriterMoves
    PROVE  /\ appended \in Seq(Events) /\ appended' \in Seq(Events)
           /\ Len(appended) \in Nat /\ Len(appended') \in Nat /\ Len(appended) <= Len(appended')
           /\ \A i \in 1 .. Len(appended) : appended'[i] = appended[i]
           /\ \A i \in 0 .. Len(appended) : Ends(appended')[i] = Ends(appended)[i]
           /\ \A i \in 0 .. Len(appended) : Images(appended')[i] = Images(appended)[i]
           /\ \A k \in 1 .. LastEnd :
                Images(appended')[Len(appended')][k] = Images(appended)[Len(appended)][k]
<1>1. appended \in Seq(Events) /\ appended' \in Seq(Events) /\ Len(appended) \in Nat
  BY DEF WriterType
<1>2. CASE appended' = appended
  BY <1>1, <1>2
<1>3. ASSUME NEW e \in Events, appended' = Append(appended, e)
      PROVE  /\ Len(appended') = Len(appended) + 1
             /\ \A i \in 1 .. Len(appended) : appended'[i] = appended[i]
             /\ \A i \in 0 .. Len(appended) : Ends(appended')[i] = Ends(appended)[i]
             /\ \A i \in 0 .. Len(appended) : Images(appended')[i] = Images(appended)[i]
             /\ \A k \in 1 .. LastEnd :
                  Images(appended')[Len(appended')][k] = Images(appended)[Len(appended)][k]
  <2>1. Len(appended') = Len(appended) + 1 /\ \A i \in 1 .. Len(appended) : appended'[i] = appended[i]
    BY <1>1, <1>3
  <2>2. \A i \in 0 .. Len(appended) : Ends(appended')[i] = Ends(appended)[i]
    BY <1>1, <1>3, EndsAppend
  <2>3. \A i \in 0 .. Len(appended) : Images(appended')[i] = Images(appended)[i]
    BY <1>1, <1>3, ImagesAppend
  <2>4. /\ Len(appended) \in 0 .. Len(appended') /\ Len(appended') \in 0 .. Len(appended')
        /\ Len(appended) \in 0 .. Len(appended) /\ Len(appended) <= Len(appended')
    BY <1>1, <2>1
  <2>5. \A k \in 1 .. Ends(appended')[Len(appended)] :
          Images(appended')[Len(appended')][k] = Images(appended')[Len(appended)][k]
    BY <1>1, <2>4, ImagesPrefix
  <2> QED BY <2>1, <2>2, <2>3, <2>4, <2>5 DEF LastEnd
<1>4. CASE \E e \in Events : appended' = Append(appended, e)
  <2>1. PICK e \in Events : appended' = Append(appended, e)
    BY <1>4
  <2>2. Len(appended') = Len(appended) + 1
    BY <1>3, <2>1
  <2>3. Len(appended') \in Nat /\ Len(appended) <= Len(appended')
    BY <1>1, <2>2
  <2> QED BY <1>1, <1>3, <2>1, <2>3
<1> QED BY <1>2, <1>4 DEF WriterMoves

-----------------------------------------------------------------------------
(* The reader while the writer goes on. *)

LEMMA EndsOrdered ==
    ASSUME NEW s \in Seq(Events), NEW i \in 0 .. Len(s), NEW j \in 0 .. Len(s), i <= j
    PROVE  Ends(s)[i] \in Nat /\ Ends(s)[j] \in Nat /\ Ends(s)[i] <= Ends(s)[j]
<1>1. Ends(s)[i] \in Nat /\ Ends(s)[j] \in Nat
  BY EndsFacts
<1>2. i < j => Ends(s)[i] < Ends(s)[j]
  BY EndsGrow
<1> QED BY <1>1, <1>2

LEMMA ExposedStay ==
    ASSUME WriterType, WriterType', ReaderType, WriterMoves, NeverWrongRecord
    PROVE  NeverWrongRecord'
<1>1. /\ reader' = reader /\ Len(reader.index) \in Nat
      /\ Len(reader.index) <= Len(appended)
  BY DEF WriterMoves, readerVars, ReaderType, NeverWrongRecord
<1>2. /\ Len(appended) \in Nat /\ Len(appended') \in Nat /\ Len(appended) <= Len(appended')
      /\ \A i \in 1 .. Len(appended) : appended'[i] = appended[i]
      /\ \A i \in 0 .. Len(appended) : Ends(appended')[i] = Ends(appended)[i]
  BY OffsetsStay
<1>3. End = Ends(appended) /\ End' = Ends(appended')
  BY EndIsEnds
<1>4. ASSUME NEW i \in 1 .. Len(reader.index)
      PROVE  reader.index[i] = [file_offset |-> End'[i - 1], event |-> appended'[i]]
  <2>1. i \in 1 .. Len(appended) /\ i - 1 \in 0 .. Len(appended)
    BY <1>1, <1>2
  <2>2. reader.index[i] = [file_offset |-> End[i - 1], event |-> appended[i]]
    BY DEF NeverWrongRecord
  <2> QED BY <1>2, <1>3, <2>1, <2>2
<1>5. Len(reader'.index) <= Len(appended')
  BY <1>1, <1>2
<1> QED BY <1>1, <1>4, <1>5 DEF NeverWrongRecord

LEMMA ReadingStays ==
    ASSUME WriterType, WriterType', ReaderType, WriterMoves, NeverWrongRecord,
           reader.file_size <= Len(disk), Reading
    PROVE  Reading'
<1> DEFINE m == Len(reader.index)
           bytes == reader.valid_bytes
<1>1. /\ reader' = reader /\ damaged' = damaged /\ m \in Nat /\ m <= Len(appended)
      /\ bytes \in Nat /\ reader.file_size \in Nat /\ disk \in Seq(Bytes) /\ disk' \in Seq(Bytes)
  BY DEF WriterMoves, readerVars, ReaderType, WriterType, NeverWrongRecord
<1>2. /\ appended \in Seq(Events) /\ appended' \in Seq(Events)
      /\ Len(appended) \in Nat /\ Len(appended') \in Nat /\ Len(appended) <= Len(appended')
      /\ \A i \in 0 .. Len(appended) : Ends(appended')[i] = Ends(appended)[i]
      /\ \A k \in 1 .. LastEnd :
           Images(appended')[Len(appended')][k] = Images(appended)[Len(appended)][k]
  BY OffsetsStay
<1>3. m \in 0 .. Len(appended) /\ Len(appended) \in 0 .. Len(appended) /\ bytes = Ends(appended)[m]
  BY <1>1, <1>2 DEF Reading
<1>4. LastEnd \in Nat /\ bytes <= LastEnd
  BY <1>1, <1>2, <1>3, EndsOrdered DEF LastEnd
<1>5. bytes = Ends(appended')[m]
  BY <1>2, <1>3
<1>6. Len(disk) \in Nat /\ bytes <= Len(disk) /\ bytes <= reader.file_size
  BY <1>1 DEF Reading
<1>7. ASSUME damaged = reader.rotten, NEW k \in 1 .. bytes
      PROVE  disk'[k] = Images(appended')[Len(appended')][k]
  <2>1. k \in 1 .. Len(disk) /\ k \in 1 .. LastEnd
    BY <1>1, <1>4, <1>6
  <2>2. disk'[k] = disk[k]
    BY <2>1 DEF WriterMoves, Grown
  <2>3. disk[k] = Images(appended)[Len(appended)][k]
    BY <1>7 DEF Reading
  <2> QED BY <1>2, <2>1, <2>2, <2>3
<1>8. ASSUME reader.phase = "done", reader.status = "truncated_tail", m < Len(appended')
      PROVE  reader.file_size < Ends(appended')[m + 1]
  <2>1. bytes < reader.file_size /\ (m < Len(appended) => reader.file_size < Ends(appended)[m + 1])
    BY <1>8 DEF Reading
  <2>2. CASE m < Len(appended)
    <3>1. m + 1 \in 0 .. Len(appended)
      BY <1>1, <1>2, <2>2
    <3> QED BY <1>2, <2>1, <2>2, <3>1
  <2>3. CASE m = Len(appended)
    <3>1. Len(disk) <= LastEnd
      BY <1>8, <2>3 DEF WriterMoves
    <3>2. bytes = LastEnd
      BY <1>3, <2>3 DEF LastEnd
    <3> QED BY <1>1, <1>4, <1>6, <2>1, <3>1, <3>2
  <2> QED BY <1>1, <1>2, <2>2, <2>3
<1> HIDE DEF m, bytes
<1>9. /\ reader.phase = "reading" => reader.offset = bytes
      /\ reader.phase = "done" =>
             /\ reader.status \in {"complete", "truncated_tail", "resource_limit", "corrupt"}
             /\ reader.status = "complete" => bytes = reader.file_size
             /\ reader.status = "truncated_tail" => m < MaximumRecords /\ bytes < reader.file_size
             /\ reader.status = "resource_limit" => m = MaximumRecords /\ bytes < reader.file_size
             /\ reader.status = "corrupt" => damaged
  BY DEF Reading, m, bytes
<1> QED BY <1>1, <1>5, <1>6, <1>7, <1>8, <1>9 DEF Reading, m, bytes

LEMMA ReaderStays ==
    ASSUME LogInv, WriterType', WriterMoves
    PROVE  ReaderType' /\ ReaderInv' /\ RecoveryInv'
<1>1. /\ WriterType /\ ReaderType /\ ReaderInv /\ RecoveryInv
      /\ reader' = reader /\ recovery' = recovery /\ damaged' = damaged
      /\ writer \in {"none", "open"} /\ writer' # "none"
  BY DEF LogInv, WriterMoves, readerVars
<1>2. ReaderType'
  BY <1>1 DEF ReaderType
<1>3. NeverWrongRecord'
  BY <1>1, ExposedStay DEF ReaderInv
<1>4. RecoveryInv'
  BY <1>1 DEF RecoveryInv, Offline
<1>5. ASSUME reader.phase # "idle"
      PROVE  /\ reader.file_size <= Len(disk')
             /\ ~reader.recovers
             /\ reader.floor <= Len(appended')
             /\ reader.floor > 0 => Ends(appended')[reader.floor] <= reader.file_size
             /\ NotReading' \/ (Reading' /\ reader.file_size >= FileHeaderSize)
  <2>1. /\ reader.file_size <= Len(disk)
        /\ reader.recovers => Offline
        /\ reader.floor <= Len(appended)
        /\ reader.floor > 0 => Ends(appended)[reader.floor] <= reader.file_size
        /\ NotReading \/ (Reading /\ reader.file_size >= FileHeaderSize)
    BY <1>1, <1>5 DEF ReaderInv
  <2>2. /\ Len(appended) \in Nat /\ Len(appended') \in Nat /\ Len(appended) <= Len(appended')
        /\ \A i \in 0 .. Len(appended) : Ends(appended')[i] = Ends(appended)[i]
    BY <1>1, OffsetsStay
  <2>3. /\ Len(disk) \in Nat /\ Len(disk') \in Nat /\ Len(disk) <= Len(disk')
        /\ reader.floor \in Nat /\ reader.file_size \in Nat
    BY <1>1, SMTT(30) DEF WriterType, WriterMoves, Grown, ReaderType
  <2>4. reader.floor \in 0 .. Len(appended)
    BY <2>1, <2>2, <2>3
  <2>5. reader.file_size <= Len(disk') /\ reader.floor <= Len(appended')
    BY <2>1, <2>2, <2>3
  <2>6. ~reader.recovers
    BY <1>1, <2>1 DEF Offline
  <2>7. NotReading => NotReading'
    BY <1>1 DEF NotReading
  <2>8. Reading => Reading'
    BY <1>1, <2>1, ReadingStays DEF ReaderInv
  <2> QED BY <2>1, <2>2, <2>4, <2>5, <2>6, <2>7, <2>8
<1>6. ReaderInv'
  BY <1>1, <1>3, <1>5 DEF ReaderInv
<1> QED BY <1>2, <1>4, <1>6

-----------------------------------------------------------------------------
(* A byte goes bad. *)

LEMMA RotBytes ==
    ASSUME WriterType, WriterInv, NEW k \in 1 .. Len(disk), Rot(k)
    PROVE  /\ disk' \in Seq(Bytes) /\ Len(disk') = Len(disk) /\ disk # <<>>
           /\ PartOf(disk' \o buffer, appended, TRUE)
<1> DEFINE c == disk \o buffer
           d == disk' \o buffer
<1>1. /\ disk \in Seq(Bytes) /\ buffer \in Seq(Bytes) /\ appended \in Seq(Events)
      /\ disk' = [disk EXCEPT ![k] = Zero] /\ PartOf(c, appended, damaged)
  BY DEF WriterType, Rot, WriterInv
<1>2. Zero \in Bytes
  BY DEF Zero, Bytes
<1>3. /\ disk' \in Seq(Bytes) /\ Len(disk') = Len(disk) /\ Len(disk) \in Nat /\ disk # <<>>
      /\ \A j \in 1 .. Len(disk) : disk'[j] = disk[j] \/ disk'[j] = Zero
  BY <1>1, <1>2
<1>4. c = disk \o buffer /\ d = disk' \o buffer
  OBVIOUS
<1> HIDE DEF c, d
<1>5. c \in Seq(Bytes) /\ Len(c) = Len(disk) + Len(buffer)
  BY <1>1, <1>4, Joined
<1>6. \A j \in 1 .. Len(disk) : c[j] = disk[j]
  BY <1>1, <1>4, Joined
<1>7. \A j \in 1 .. Len(buffer) : c[Len(disk) + j] = buffer[j]
  BY <1>1, <1>4, Joined
<1>8. d \in Seq(Bytes) /\ Len(d) = Len(disk') + Len(buffer)
  BY <1>1, <1>3, <1>4, Joined
<1>9. \A j \in 1 .. Len(disk') : d[j] = disk'[j]
  BY <1>1, <1>3, <1>4, Joined
<1>10. \A j \in 1 .. Len(buffer) : d[Len(disk') + j] = buffer[j]
  BY <1>1, <1>3, <1>4, Joined
<1>11. ASSUME NEW j \in 1 .. Len(c) PROVE d[j] = c[j] \/ d[j] = Zero
  <2>1. Len(buffer) \in Nat
    BY <1>1
  <2>2. CASE j <= Len(disk)
    <3>1. j \in 1 .. Len(disk) /\ j \in 1 .. Len(disk')
      BY <1>3, <2>2
    <3> QED BY <1>3, <1>6, <1>9, <3>1
  <2>3. CASE ~(j <= Len(disk))
    <3>1. j - Len(disk) \in 1 .. Len(buffer) /\ Len(disk) + (j - Len(disk)) = j
      BY <1>3, <1>5, <2>1, <2>3
    <3>2. c[j] = buffer[j - Len(disk)]
      BY <1>7, <3>1
    <3>3. d[j] = buffer[j - Len(disk)]
      BY <1>3, <1>10, <3>1
    <3> QED BY <3>2, <3>3
  <2> QED BY <2>2, <2>3
<1>12. Len(d) = Len(c)
  BY <1>3, <1>5, <1>8
<1>13. PartOf(d, appended, TRUE)
  BY <1>1, <1>5, <1>8, <1>11, <1>12, PartRots
<1> QED BY <1>3, <1>4, <1>13

LEMMA RotStep ==
    ASSUME LogInv, NEW k \in 1 .. Len(disk), Rot(k)
    PROVE  LogInv'
<1>1. /\ WriterType /\ ReaderType /\ WriterInv /\ ReaderInv /\ RecoveryInv
      /\ damaged = FALSE /\ damaged' = TRUE
  BY DEF LogInv, Rot, WriterType
<1>2. /\ writer' = writer /\ error' = error /\ buffer' = buffer /\ position' = position
      /\ record_count' = record_count /\ bytes_written' = bytes_written /\ appended' = appended
      /\ acked' = acked /\ flushed' = flushed /\ reader' = reader /\ recovery' = recovery
  BY DEF Rot, writerVars, readerVars, countVars
<1>3. /\ disk' \in Seq(Bytes) /\ Len(disk') = Len(disk) /\ disk # <<>>
      /\ PartOf(disk' \o buffer, appended, TRUE)
  BY <1>1, RotBytes
<1>4. LastEnd' = LastEnd
  BY <1>2 DEF LastEnd
<1>5. WriterType'
  BY <1>1, <1>2, <1>3 DEF WriterType
<1>6. WriterInv'
  BY <1>1, <1>2, <1>3, <1>4 DEF WriterInv
<1>7. ReaderType'
  BY <1>1, <1>2 DEF ReaderType
<1>8. RecoveryInv'
  BY <1>1, <1>2 DEF RecoveryInv, Offline
<1>9. NeverWrongRecord'
  <2>1. End' = End
    BY <1>2, EndIsEnds
  <2> QED BY <1>1, <1>2, <2>1 DEF ReaderInv, NeverWrongRecord
<1>10. reader.phase # "idle" => reader.rotten = FALSE
  BY <1>1 DEF ReaderInv, ReaderType
<1>11. reader.phase # "idle" /\ Reading => Reading'
  BY <1>1, <1>2, <1>10 DEF Reading
<1>12. NotReading => NotReading'
  BY <1>1, <1>2 DEF NotReading
<1>13. ReaderInv'
  BY <1>1, <1>2, <1>3, <1>9, <1>11, <1>12 DEF ReaderInv, Offline
<1> QED BY <1>5, <1>6, <1>7, <1>8, <1>13 DEF LogInv

-----------------------------------------------------------------------------
(* read_log *)

\* What is in the file is a part of the recording.
LEMMA DiskPart ==
    ASSUME WriterType, WriterInv
    PROVE  PartOf(disk, appended, damaged)
<1> DEFINE c == disk \o buffer
<1>1. /\ disk \in Seq(Bytes) /\ buffer \in Seq(Bytes) /\ appended \in Seq(Events)
      /\ PartOf(c, appended, damaged) /\ c = disk \o buffer
  BY DEF WriterType, WriterInv
<1> HIDE DEF c
<1>2. c \in Seq(Bytes) /\ Len(c) = Len(disk) + Len(buffer)
  BY <1>1, Joined
<1>3. \A k \in 1 .. Len(disk) : c[k] = disk[k]
  BY <1>1, Joined
<1>4. Len(disk) <= Len(c) /\ \A k \in 1 .. Len(disk) : disk[k] = c[k]
  BY <1>1, <1>2, <1>3
<1> QED BY <1>1, <1>2, <1>4, PartPrefix

LEMMA HeaderStored ==
    ASSUME WriterType, WriterInv, NEW k \in 1 .. FileHeaderSize, k <= Len(disk)
    PROVE  Stored(disk[k], FileHeader[k], damaged)
           /\ Images(appended)[Len(appended)][k] = FileHeader[k]
<1>1. appended \in Seq(Events) /\ disk \in Seq(Bytes) /\ FileHeaderSize \in Nat
  BY LayoutAssumption DEF WriterType
<1>2. Images(appended)[Len(appended)][k] = FileHeader[k]
  BY <1>1, ImageBytes
<1>3. LastEnd \in Nat /\ LastEnd >= FileHeaderSize
  BY <1>1, LastEndNat DEF LastEnd
<1>4. k \in 1 .. Len(disk) /\ k <= LastEnd
  BY <1>1, <1>3
<1> QED BY <1>2, <1>4, DiskPart DEF PartOf, LastEnd

LEMMA StartReadStep ==
    ASSUME LogInv, NEW recovers \in BOOLEAN, recovers => RecoverLive = FALSE,
           StartRead(recovers)
    PROVE  LogInv'
<1> DEFINE Start(phase, at, status) ==
             [phase |-> phase, recovers |-> recovers, file_size |-> Len(disk), offset |-> at,
              index |-> <<>>, valid_bytes |-> at, status |-> status, floor |-> flushed,
              rotten |-> damaged]
           intact == \A k \in 1 .. FileHeaderSize : disk[k] = FileHeader[k]
<1>1. WriterType /\ ReaderType /\ WriterInv /\ ReaderInv /\ RecoveryInv
  BY DEF LogInv
<1>2. /\ writer # "none" /\ (recovers => writer # "open") /\ recovery' = "none"
      /\ disk' = disk /\ writer' = writer /\ error' = error /\ buffer' = buffer
      /\ position' = position /\ damaged' = damaged /\ flushed' = flushed
      /\ record_count' = record_count /\ bytes_written' = bytes_written
      /\ appended' = appended /\ acked' = acked
  BY DEF StartRead, writerVars, countVars
<1>3. /\ Len(disk) < FileHeaderSize \/ ~intact => reader' = Start("done", 0, "corrupt")
      /\ ~(Len(disk) < FileHeaderSize \/ ~intact) =>
           reader' = Start("reading", FileHeaderSize, "none")
  BY DEF StartRead, IdleReader
<1>4. /\ disk \in Seq(Bytes) /\ appended \in Seq(Events) /\ Len(disk) \in Nat
      /\ Len(appended) \in Nat /\ flushed \in Nat /\ damaged \in BOOLEAN
      /\ FileHeaderSize \in Nat /\ MaximumRecords \in Nat
      /\ flushed <= Len(appended) /\ (flushed > 0 => Ends(appended)[flushed] <= Len(disk))
      /\ writer \in {"open", "closed", "crashed", "refused"}
  BY <1>1, <1>2, LayoutAssumption, LimitsAssumption DEF WriterType, WriterInv
<1>5. WriterType' /\ WriterInv'
  BY <1>1, <1>2 DEF WriterType, WriterInv, LastEnd
<1>6. RecoveryInv'
  BY <1>2 DEF RecoveryInv
<1>7. CASE Len(disk) < FileHeaderSize \/ ~intact
  <2>1. reader' = Start("done", 0, "corrupt")
    BY <1>3, <1>7
  <2>2. Len(disk) < FileHeaderSize \/ damaged
    <3>1. SUFFICES ASSUME Len(disk) >= FileHeaderSize, ~intact PROVE damaged
      BY <1>4, <1>7
    <3>2. PICK k \in 1 .. FileHeaderSize : disk[k] # FileHeader[k]
      BY <3>1
    <3>3. k <= Len(disk)
      BY <1>4, <3>1
    <3> QED BY <1>1, <3>2, <3>3, HeaderStored DEF Stored
  <2>3. ReaderType'
    BY <1>4, <2>1 DEF ReaderType, IdleReader, Statuses
  <2>4. NotReading'
    BY <1>2, <2>1, <2>2 DEF NotReading
  <2>5. NeverWrongRecord'
    BY <1>2, <1>4, <2>1 DEF NeverWrongRecord
  <2>6. ReaderInv'
    BY <1>2, <1>4, <2>1, <2>4, <2>5 DEF ReaderInv, Offline
  <2> QED BY <1>5, <1>6, <2>3, <2>6 DEF LogInv
<1>8. CASE ~(Len(disk) < FileHeaderSize \/ ~intact)
  <2>1. reader' = Start("reading", FileHeaderSize, "none")
    BY <1>3, <1>8
  <2>2. ReaderType'
    BY <1>4, <2>1 DEF ReaderType, IdleReader, Statuses
  <2>3. NeverWrongRecord'
    BY <1>2, <1>4, <2>1 DEF NeverWrongRecord
  <2>4. FileHeaderSize = Ends(appended)[0]
    BY <1>4, EndsFacts
  <2>5. ASSUME NEW k \in 1 .. FileHeaderSize
        PROVE  disk[k] = Images(appended)[Len(appended)][k]
    <3>1. k <= Len(disk) /\ disk[k] = FileHeader[k]
      BY <1>4, <1>8
    <3> QED BY <1>1, <3>1, HeaderStored
  <2>6. Reading'
    BY <1>2, <1>4, <1>8, <2>1, <2>4, <2>5 DEF Reading
  <2>7. ReaderInv'
    BY <1>2, <1>4, <1>8, <2>1, <2>3, <2>6 DEF ReaderInv, Offline
  <2> QED BY <1>5, <1>6, <2>2, <2>7 DEF LogInv
<1> QED BY <1>7, <1>8

\* The bytes behind the end of a record: the next record, as far as it got.
LEMMA RecordAt ==
    ASSUME WriterType, WriterInv, NEW m \in 0 .. Len(appended), NEW at, at = Ends(appended)[m],
           at + RecordHeaderSize <= Len(disk)
    PROVE  \E e \in Events :
             /\ PayloadSize[e] <= MaximumPayloadSize
             /\ m < Len(appended) => e = appended[m + 1] /\ Ends(appended)[m + 1] = at + RecordSize(e)
             /\ m = Len(appended) => Len(disk) < at + RecordSize(e)
             /\ \A j \in 1 .. RecordSize(e) :
                  at + j <= Len(disk) => Stored(disk[at + j], RecordByte(m, e, j), damaged)
<1>1. /\ appended \in Seq(Events) /\ disk \in Seq(Bytes) /\ Len(disk) \in Nat
      /\ Len(appended) \in Nat /\ at \in Nat /\ RecordHeaderSize \in Nat /\ RecordHeaderSize > 0
  <2>1. appended \in Seq(Events) /\ disk \in Seq(Bytes)
    BY DEF WriterType
  <2>2. at \in Nat
    BY <2>1, EndsFacts
  <2> QED BY <2>1, <2>2, LayoutAssumption
<1>2. PartOf(disk, appended, damaged)
  BY DiskPart
<1>3. CASE m < Len(appended)
  <2> DEFINE e == appended[m + 1]
  <2>1. /\ e \in Events /\ m + 1 \in 0 .. Len(appended) /\ m + 1 <= Len(appended) /\ m # Len(appended)
        /\ Len(appended) \in 0 .. Len(appended)
        /\ PayloadSize[e] <= MaximumPayloadSize
    BY <1>1, <1>3 DEF WriterInv
  <2>2. Ends(appended)[m + 1] = at + RecordSize(e)
    BY <1>1, <2>1, EndsFacts
  <2>3. LastEnd \in Nat /\ at + RecordSize(e) <= LastEnd /\ RecordSize(e) \in Nat
    <3>1. Ends(appended)[m + 1] <= Ends(appended)[Len(appended)] /\ Ends(appended)[Len(appended)] \in Nat
      BY <1>1, <2>1, EndsOrdered
    <3>2. RecordSize(e) \in Nat
      BY <2>1, RecordFacts
    <3> QED BY <2>2, <3>1, <3>2 DEF LastEnd
  <2>4. ASSUME NEW j \in 1 .. RecordSize(e), at + j <= Len(disk)
        PROVE  Stored(disk[at + j], RecordByte(m, e, j), damaged)
    <3>1. Images(appended)[Len(appended)][at + j] = RecordByte(m, e, j)
      BY <1>1, <2>1, ImageBytes
    <3>2. at + j \in 1 .. Len(disk) /\ at + j <= LastEnd
      BY <1>1, <2>3, <2>4, SMTT(30)
    <3> QED BY <1>2, <3>1, <3>2 DEF PartOf, LastEnd
  <2> QED BY <1>3, <2>1, <2>2, <2>4
<1>4. CASE m = Len(appended)
  <2>1. at = Ends(appended)[Len(appended)] /\ Len(disk) > at
    BY <1>1, <1>4
  <2>2. PICK e \in Events :
           /\ PayloadSize[e] <= MaximumPayloadSize
           /\ Len(disk) < at + RecordSize(e)
           /\ \A j \in 1 .. Len(disk) - at :
                Stored(disk[at + j], RecordByte(Len(appended), e, j), damaged)
    BY <1>2, <2>1 DEF PartOf
  <2>3. ASSUME NEW j \in 1 .. RecordSize(e), at + j <= Len(disk)
        PROVE  Stored(disk[at + j], RecordByte(m, e, j), damaged)
    <3>1. RecordSize(e) \in Nat
      BY <1>1, RecordFacts
    <3>2. j \in 1 .. Len(disk) - at
      BY <1>1, <2>3, <3>1
    <3> QED BY <1>4, <2>2, <3>2
  <2> QED BY <1>1, <1>4, <2>2, <2>3
<1> QED BY <1>1, <1>3, <1>4

\* What the header checksum and the payload checksum tell.
LEMMA HeaderTells ==
    ASSUME NEW m \in Nat, NEW at \in Nat, NEW e \in Events,
           \A j \in 1 .. RecordHeaderSize : Stored(disk[at + j], RecordByte(m, e, j), damaged)
    PROVE  /\ HeaderIntact(at) =>
                /\ HeaderIndex(at) = m /\ HeaderEvent(at) = e
                /\ \A j \in 1 .. RecordHeaderSize : disk[at + j] = RecordByte(m, e, j)
           /\ ~HeaderIntact(at) => damaged
<1>1. 1 \in 1 .. RecordHeaderSize /\ RecordHeaderSize \in Nat
  BY LayoutAssumption
<1>2. \A j \in 1 .. RecordHeaderSize : RecordByte(m, e, j) = <<"H", m, e, j>>
  BY <1>1 DEF RecordByte
<1>3. ASSUME HeaderIntact(at)
      PROVE  /\ HeaderIndex(at) = m /\ HeaderEvent(at) = e
             /\ \A j \in 1 .. RecordHeaderSize : disk[at + j] = RecordByte(m, e, j)
  <2>1. disk[at + 1][1] = "H"
    BY <1>3 DEF HeaderIntact
  <2>2. disk[at + 1] # Zero
    BY <2>1 DEF Zero
  <2>3. disk[at + 1] = <<"H", m, e, 1>>
    BY <1>1, <1>2, <2>2 DEF Stored
  <2>4. HeaderIndex(at) = m /\ HeaderEvent(at) = e
    BY <2>3 DEF HeaderIndex, HeaderEvent
  <2>5. \A j \in 1 .. RecordHeaderSize : disk[at + j] = <<"H", m, e, j>>
    BY <1>3, <2>3 DEF HeaderIntact
  <2> QED BY <1>2, <2>4, <2>5
<1>4. ASSUME ~damaged PROVE HeaderIntact(at)
  <2>1. \A j \in 1 .. RecordHeaderSize : disk[at + j] = <<"H", m, e, j>>
    BY <1>2, <1>4 DEF Stored
  <2>2. disk[at + 1] = <<"H", m, e, 1>>
    BY <1>1, <2>1
  <2> QED BY <2>1, <2>2 DEF HeaderIntact
<1> QED BY <1>3, <1>4

LEMMA PayloadTells ==
    ASSUME NEW m \in Nat, NEW at \in Nat, NEW e \in Events, HeaderEvent(at) = e,
           \A j \in 1 .. RecordSize(e) : Stored(disk[at + j], RecordByte(m, e, j), damaged)
    PROVE  /\ PayloadIntact(at) =>
                /\ ParsedEvent(at) = e
                /\ \A k \in 1 .. PayloadSize[e] :
                     disk[at + RecordHeaderSize + k] = <<"P", 0, e, k>>
           /\ ~PayloadIntact(at) => damaged
<1>1. PayloadSize[e] \in Nat /\ RecordHeaderSize \in Nat
  BY LayoutAssumption
<1> DEFINE Same == \A k \in 1 .. PayloadSize[e] : disk[at + RecordHeaderSize + k] = <<"P", 0, e, k>>
<1>2. ParsedEvent(at) = IF Same THEN e ELSE NoEvent
  BY DEF ParsedEvent
<1>3. PayloadIntact(at) => ParsedEvent(at) = e
  BY DEF PayloadIntact
<1>4. NoEvent # e
  BY LayoutAssumption
<1>5. ASSUME ~damaged PROVE Same
  <2>1. ASSUME NEW k \in 1 .. PayloadSize[e]
        PROVE  disk[at + RecordHeaderSize + k] = <<"P", 0, e, k>>
    <3>1. /\ RecordHeaderSize + k \in 1 .. RecordSize(e) /\ ~(RecordHeaderSize + k <= RecordHeaderSize)
          /\ (RecordHeaderSize + k) - RecordHeaderSize = k
          /\ at + (RecordHeaderSize + k) = at + RecordHeaderSize + k
      BY <1>1 DEF RecordSize
    <3>2. disk[at + (RecordHeaderSize + k)] = RecordByte(m, e, RecordHeaderSize + k)
      BY <1>5, <3>1 DEF Stored
    <3> QED BY <3>1, <3>2 DEF RecordByte
  <2> QED BY <2>1
<1> HIDE DEF Same
<1>6. PayloadIntact(at) => Same
  BY <1>2, <1>3, <1>4
<1>7. Same => PayloadIntact(at)
  BY <1>2 DEF PayloadIntact
<1> QED BY <1>3, <1>5, <1>6, <1>7 DEF Same

\* What a turn of the loop decides, and when.
LEMMA VerdictCases ==
    ASSUME LogInv, reader.phase = "reading", reader.offset < reader.file_size,
           NEW m, m = Len(reader.index), NEW at, at = reader.offset
    PROVE  \/ Verdict(at) = "resource_limit" /\ m = MaximumRecords
           \/ /\ Verdict(at) = "truncated_tail" /\ m # MaximumRecords
              /\ m < Len(appended) => reader.file_size < Ends(appended)[m + 1]
           \/ Verdict(at) = "corrupt" /\ damaged
           \/ /\ Verdict(at) = "record" /\ m # MaximumRecords /\ m < Len(appended)
              /\ HeaderEvent(at) = appended[m + 1] /\ ParsedEvent(at) = appended[m + 1]
              /\ Ends(appended)[m + 1] <= reader.file_size
              /\ \A j \in 1 .. RecordSize(appended[m + 1]) :
                   disk[at + j] = RecordByte(m, appended[m + 1], j)
<1> DEFINE left == reader.file_size - at
<1>1. /\ WriterType /\ WriterInv /\ NeverWrongRecord /\ Reading
      /\ reader.file_size <= Len(disk) /\ reader.file_size \in Nat /\ at \in Nat /\ m \in Nat
      /\ at = Ends(appended)[m] /\ m <= Len(appended)
      /\ RecordHeaderSize \in Nat /\ RecordHeaderSize > 0 /\ MaximumPayloadSize \in Nat
  BY LayoutAssumption DEF LogInv, ReaderInv, ReaderType, NotReading, Reading, NeverWrongRecord
<1>2. /\ appended \in Seq(Events) /\ disk \in Seq(Bytes) /\ Len(disk) \in Nat
      /\ Len(appended) \in Nat /\ m \in 0 .. Len(appended)
  BY <1>1 DEF WriterType
<1>3. CASE m = MaximumRecords
  BY <1>3 DEF Verdict
<1>4. CASE m # MaximumRecords /\ left < RecordHeaderSize
  <2>1. Verdict(at) = "truncated_tail"
    BY <1>4 DEF Verdict
  <2>2. m < Len(appended) => reader.file_size < Ends(appended)[m + 1]
    <3>1. SUFFICES ASSUME m < Len(appended) PROVE reader.file_size < Ends(appended)[m + 1]
      OBVIOUS
    <3>2. m # Len(appended) /\ appended[m + 1] \in Events
      BY <1>1, <1>2, <3>1
    <3>3. Ends(appended)[m + 1] = at + RecordSize(appended[m + 1])
      BY <1>1, <1>2, <3>2, EndsFacts
    <3>4. PayloadSize[appended[m + 1]] \in Nat
      BY <3>2, LayoutAssumption
    <3> QED BY <1>1, <1>4, <3>3, <3>4, SMTT(30) DEF RecordSize
  <2> QED BY <1>4, <2>1, <2>2
<1>5. CASE m # MaximumRecords /\ ~(left < RecordHeaderSize)
  <2>1. at + RecordHeaderSize <= reader.file_size /\ at + RecordHeaderSize <= Len(disk)
    BY <1>1, <1>2, <1>5
  <2>2. PICK e \in Events :
             /\ PayloadSize[e] <= MaximumPayloadSize
             /\ m < Len(appended) => e = appended[m + 1] /\ Ends(appended)[m + 1] = at + RecordSize(e)
             /\ m = Len(appended) => Len(disk) < at + RecordSize(e)
             /\ \A j \in 1 .. RecordSize(e) :
                  at + j <= Len(disk) => Stored(disk[at + j], RecordByte(m, e, j), damaged)
    BY <1>1, <1>2, <2>1, RecordAt
  <2>3. PayloadSize[e] \in Nat /\ RecordSize(e) = RecordHeaderSize + PayloadSize[e]
    BY LayoutAssumption DEF RecordSize
  <2>4. \A j \in 1 .. RecordHeaderSize : Stored(disk[at + j], RecordByte(m, e, j), damaged)
    <3>1. \A j \in 1 .. RecordHeaderSize : j \in 1 .. RecordSize(e) /\ at + j <= Len(disk)
      BY <1>1, <1>2, <2>1, <2>3
    <3> QED BY <2>2, <3>1
  <2>5. /\ HeaderIntact(at) =>
                /\ HeaderIndex(at) = m /\ HeaderEvent(at) = e
                /\ \A j \in 1 .. RecordHeaderSize : disk[at + j] = RecordByte(m, e, j)
        /\ ~HeaderIntact(at) => damaged
    BY <1>1, <2>4, HeaderTells
  <2>6. ~(Len(disk) < at + RecordHeaderSize)
    BY <1>1, <1>2, <2>1
  <2>7. CASE ~HeaderIntact(at)
    BY <1>5, <2>5, <2>6, <2>7 DEF Verdict
  <2>8. CASE HeaderIntact(at) /\ left - RecordHeaderSize < PayloadSize[e]
    <3>1. Verdict(at) = "truncated_tail"
      <4>1. ~(PayloadSize[e] > MaximumPayloadSize)
        BY <1>1, <2>2, <2>3
      <4> QED BY <1>5, <2>5, <2>6, <2>8, <4>1 DEF Verdict, PayloadCut
    <3>2. m < Len(appended) => reader.file_size < Ends(appended)[m + 1]
      BY <1>1, <2>2, <2>3, <2>8, SMTT(30)
    <3> QED BY <1>5, <3>1, <3>2
  <2>9. CASE HeaderIntact(at) /\ ~(left - RecordHeaderSize < PayloadSize[e])
    <3>1. at + RecordSize(e) <= reader.file_size /\ at + RecordSize(e) <= Len(disk) /\ m < Len(appended)
      <4>1. at + RecordSize(e) <= reader.file_size /\ at + RecordSize(e) <= Len(disk)
        BY <1>1, <1>2, <2>3, <2>9
      <4>2. m # Len(appended)
        BY <1>1, <1>2, <2>2, <2>3, <4>1
      <4> QED BY <1>1, <1>2, <4>1, <4>2
    <3>2. e = appended[m + 1] /\ Ends(appended)[m + 1] <= reader.file_size
      BY <2>2, <3>1
    <3>3. \A j \in 1 .. RecordSize(e) : Stored(disk[at + j], RecordByte(m, e, j), damaged)
      <4>1. \A j \in 1 .. RecordSize(e) : at + j <= Len(disk)
        BY <1>1, <1>2, <2>3, <3>1
      <4> QED BY <2>2, <4>1
    <3>4. /\ PayloadIntact(at) =>
                /\ ParsedEvent(at) = e
                /\ \A k \in 1 .. PayloadSize[e] :
                     disk[at + RecordHeaderSize + k] = <<"P", 0, e, k>>
          /\ ~PayloadIntact(at) => damaged
      BY <1>1, <2>5, <2>9, <3>3, PayloadTells
    <3>5. Verdict(at) = IF ~PayloadIntact(at) THEN "corrupt" ELSE "record"
      <4>1. ~(PayloadSize[e] > MaximumPayloadSize)
        BY <1>1, <2>2, <2>3
      <4>2. ~(Len(disk) < at + RecordHeaderSize + PayloadSize[e])
        BY <1>1, <1>2, <2>3, <3>1
      <4> QED BY <1>5, <2>5, <2>6, <2>9, <4>1, <4>2 DEF Verdict, PayloadCut
    <3>6. CASE ~PayloadIntact(at)
      BY <3>4, <3>5, <3>6
    <3>7. CASE PayloadIntact(at)
      <4>1. ASSUME NEW j \in 1 .. RecordSize(e) PROVE disk[at + j] = RecordByte(m, e, j)
        <5>1. CASE j <= RecordHeaderSize
          BY <1>1, <2>5, <2>9, <5>1
        <5>2. CASE ~(j <= RecordHeaderSize)
          <6>1. /\ j - RecordHeaderSize \in 1 .. PayloadSize[e]
                /\ at + RecordHeaderSize + (j - RecordHeaderSize) = at + j
            <7>1. j \in Nat /\ j <= RecordHeaderSize + PayloadSize[e] /\ PayloadSize[e] \in Nat
              BY <1>1, <2>3
            <7>2. j - RecordHeaderSize \in 1 .. PayloadSize[e]
              BY <1>1, <5>2, <7>1
            <7>3. at + RecordHeaderSize + (j - RecordHeaderSize) = at + j
              BY <1>1, <7>1
            <7> QED BY <7>2, <7>3
          <6>2. disk[at + j] = <<"P", 0, e, j - RecordHeaderSize>>
            BY <3>4, <3>7, <6>1
          <6> QED BY <5>2, <6>2 DEF RecordByte
        <5> QED BY <5>1, <5>2
      <4> QED BY <1>5, <2>5, <2>9, <3>1, <3>2, <3>4, <3>5, <3>7, <4>1
    <3> QED BY <3>6, <3>7
  <2> QED BY <2>7, <2>8, <2>9
<1> QED BY <1>3, <1>4, <1>5

LEMMA WriterKept ==
    ASSUME WriterType, WriterInv, UNCHANGED <<disk, writerVars, damaged>>
    PROVE  /\ WriterType' /\ WriterInv'
           /\ disk' = disk /\ writer' = writer /\ appended' = appended /\ damaged' = damaged
           /\ End' = End
<1>1. /\ disk' = disk /\ writer' = writer /\ error' = error /\ buffer' = buffer
      /\ position' = position /\ record_count' = record_count /\ bytes_written' = bytes_written
      /\ appended' = appended /\ acked' = acked /\ flushed' = flushed /\ damaged' = damaged
  BY DEF writerVars, countVars
<1>2. WriterType' /\ WriterInv'
  BY <1>1 DEF WriterType, WriterInv, LastEnd
<1>3. End' = End
  BY <1>1, EndIsEnds
<1> QED BY <1>1, <1>2, <1>3

LEMMA RecoveryKept ==
    ASSUME WriterType, RecoveryInv, recovery' = recovery, disk' = disk, writer' = writer,
           appended' = appended, damaged' = damaged
    PROVE  RecoveryInv'
<1>1. damaged \in BOOLEAN
  BY DEF WriterType
<1>2. recovery' \in {"none", "already complete", "removed", "failed", "refused"}
  BY DEF RecoveryInv
<1>3. Offline' = Offline
  BY DEF Offline
<1>4. recovery' = "refused" => Offline'
  BY <1>3 DEF RecoveryInv
<1>5. recovery' = "refused" =>
         \/ damaged'
         \/ Len(disk') < FileHeaderSize
         \/ MaximumRecords <= Len(appended') /\ Ends(appended')[MaximumRecords] < Len(disk')
  BY <1>1 DEF RecoveryInv
<1> QED BY <1>2, <1>4, <1>5 DEF RecoveryInv

LEMMA FinishedFields ==
    ASSUME ReaderType, NEW v \in Statuses, reader' = Finished(v)
    PROVE  /\ ReaderType' /\ reader'.phase = "done" /\ reader'.status = v
           /\ reader'.recovers = reader.recovers /\ reader'.file_size = reader.file_size
           /\ reader'.index = reader.index /\ reader'.valid_bytes = reader.valid_bytes
           /\ reader'.floor = reader.floor /\ reader'.rotten = reader.rotten
<1>1. DOMAIN reader = {"phase", "recovers", "file_size", "offset", "index", "valid_bytes",
                       "status", "floor", "rotten"}
  BY DEF ReaderType, IdleReader
<1>2. /\ reader'.phase = "done" /\ reader'.status = v
      /\ reader'.recovers = reader.recovers /\ reader'.file_size = reader.file_size
      /\ reader'.index = reader.index /\ reader'.valid_bytes = reader.valid_bytes
      /\ reader'.floor = reader.floor /\ reader'.rotten = reader.rotten
      /\ reader'.offset = reader.offset /\ DOMAIN reader' = DOMAIN reader
  BY <1>1 DEF Finished
<1>3. ReaderType'
  BY <1>2 DEF ReaderType, Statuses
<1> QED BY <1>2, <1>3

\* The read ends.
LEMMA FinishStep ==
    ASSUME LogInv, reader.phase = "reading", NEW v, reader' = Finished(v),
           UNCHANGED <<disk, writerVars, recovery, damaged>>, NEW m, m = Len(reader.index),
           \/ v = "complete" /\ reader.offset = reader.file_size
           \/ v = "resource_limit" /\ m = MaximumRecords /\ reader.offset < reader.file_size
           \/ /\ v = "truncated_tail" /\ m # MaximumRecords /\ reader.offset < reader.file_size
              /\ m < Len(appended) => reader.file_size < Ends(appended)[m + 1]
           \/ v = "corrupt" /\ damaged
    PROVE  LogInv'
<1>1. WriterType /\ ReaderType /\ WriterInv /\ ReaderInv /\ RecoveryInv /\ recovery' = recovery
  BY DEF LogInv
<1>2. /\ WriterType' /\ WriterInv'
      /\ disk' = disk /\ writer' = writer /\ appended' = appended /\ damaged' = damaged /\ End' = End
  BY <1>1, WriterKept
<1>3. v \in Statuses
  BY DEF Statuses
<1>4. /\ ReaderType' /\ reader'.phase = "done" /\ reader'.status = v
      /\ reader'.recovers = reader.recovers /\ reader'.file_size = reader.file_size
      /\ reader'.index = reader.index /\ reader'.valid_bytes = reader.valid_bytes
      /\ reader'.floor = reader.floor /\ reader'.rotten = reader.rotten
  BY <1>1, <1>3, FinishedFields
<1>5. RecoveryInv'
  BY <1>1, <1>2, RecoveryKept
<1>6. NeverWrongRecord'
  BY <1>1, <1>2, <1>4 DEF ReaderInv, NeverWrongRecord
<1>7. Reading /\ reader.file_size >= FileHeaderSize /\ m <= MaximumRecords /\ m \in Nat
  BY <1>1 DEF ReaderInv, NotReading, ReaderType
<1>8. m # MaximumRecords => m < MaximumRecords
  BY <1>7, LimitsAssumption
<1>9. Reading'
  BY <1>2, <1>4, <1>7, <1>8 DEF Reading
<1>10. ReaderInv'
  BY <1>1, <1>2, <1>4, <1>6, <1>7, <1>9 DEF ReaderInv, Offline
<1> QED BY <1>2, <1>4, <1>5, <1>10 DEF LogInv

\* A record is read.
LEMMA NextRecord ==
    ASSUME LogInv, reader.phase = "reading", UNCHANGED <<disk, writerVars, recovery, damaged>>,
           NEW m, m = Len(reader.index), NEW at, at = reader.offset, NEW e, e = appended[m + 1],
           m # MaximumRecords, m < Len(appended), Ends(appended)[m + 1] <= reader.file_size,
           \A j \in 1 .. RecordSize(e) : disk[at + j] = RecordByte(m, e, j),
           reader' = [reader EXCEPT !.index = Append(@, [file_offset |-> at, event |-> e]),
                                    !.offset = at + RecordHeaderSize + PayloadSize[e],
                                    !.valid_bytes = at + RecordHeaderSize + PayloadSize[e]]
    PROVE  LogInv'
<1> DEFINE entry == [file_offset |-> at, event |-> e]
           next == at + RecordHeaderSize + PayloadSize[e]
<1>1. WriterType /\ ReaderType /\ WriterInv /\ ReaderInv /\ RecoveryInv /\ recovery' = recovery
  BY DEF LogInv
<1>2. /\ WriterType' /\ WriterInv'
      /\ disk' = disk /\ writer' = writer /\ appended' = appended /\ damaged' = damaged /\ End' = End
  BY <1>1, WriterKept
<1>3. DOMAIN reader = {"phase", "recovers", "file_size", "offset", "index", "valid_bytes",
                       "status", "floor", "rotten"}
  BY <1>1 DEF ReaderType, IdleReader
<1>4. /\ reader'.phase = "reading" /\ reader'.status = reader.status
      /\ reader'.recovers = reader.recovers /\ reader'.file_size = reader.file_size
      /\ reader'.index = Append(reader.index, entry) /\ reader'.valid_bytes = next
      /\ reader'.offset = next
      /\ reader'.floor = reader.floor /\ reader'.rotten = reader.rotten
      /\ DOMAIN reader' = DOMAIN reader
  BY <1>3
<1>5. /\ Reading /\ NeverWrongRecord /\ reader.file_size >= FileHeaderSize
      /\ m \in Nat /\ m <= MaximumRecords /\ at \in Nat /\ at = Ends(appended)[m]
      /\ reader.index \in Seq([file_offset : Nat, event : Events])
      /\ reader.file_size \in Nat /\ reader.valid_bytes = at
  BY <1>1 DEF ReaderInv, NotReading, ReaderType, Reading
<1>6. /\ appended \in Seq(Events) /\ Len(appended) \in Nat /\ e \in Events
      /\ m \in 0 .. Len(appended) /\ m # Len(appended) /\ m + 1 \in 0 .. Len(appended)
      /\ m + 1 <= Len(appended)
  BY <1>1, <1>5 DEF WriterType
<1>7. next \in Nat /\ next = Ends(appended)[m + 1] /\ RecordSize(e) \in Nat /\ next = at + RecordSize(e)
  <2>1. Ends(appended)[m + 1] = at + RecordSize(e)
    BY <1>5, <1>6, EndsFacts
  <2>2. RecordHeaderSize \in Nat /\ PayloadSize[e] \in Nat
    BY <1>6, LayoutAssumption
  <2> QED BY <1>5, <2>1, <2>2, SMTT(30) DEF RecordSize
<1>8. entry \in [file_offset : Nat, event : Events]
  BY <1>5, <1>6
<1> HIDE DEF entry, next
<1>9. /\ reader'.index \in Seq([file_offset : Nat, event : Events])
      /\ Len(reader'.index) = m + 1 /\ reader'.index[m + 1] = entry
      /\ \A i \in 1 .. m : reader'.index[i] = reader.index[i]
  BY <1>4, <1>5, <1>8
<1>10. ReaderType'
  BY <1>1, <1>4, <1>7, <1>9 DEF ReaderType
<1>11. RecoveryInv'
  BY <1>1, <1>2, RecoveryKept
<1>12. NeverWrongRecord'
  <2>1. ASSUME NEW i \in 1 .. Len(reader'.index)
        PROVE  reader'.index[i] = [file_offset |-> End'[i - 1], event |-> appended'[i]]
    <3>1. CASE i = m + 1
      BY <1>2, <1>5, <1>9, <3>1, EndIsEnds DEF entry
    <3>2. CASE i # m + 1
      <4>1. i \in 1 .. m
        BY <1>5, <1>9, <3>2
      <4> QED BY <1>2, <1>5, <1>9, <4>1 DEF NeverWrongRecord
    <3> QED BY <3>1, <3>2
  <2> QED BY <1>2, <1>6, <1>9, <2>1 DEF NeverWrongRecord
<1>13. ASSUME damaged = reader.rotten, NEW k \in 1 .. next
       PROVE  disk[k] = Images(appended)[Len(appended)][k]
  <2>1. CASE k <= at
    BY <1>5, <1>7, <1>13, <2>1 DEF Reading
  <2>2. CASE ~(k <= at)
    <3>1. k - at \in 1 .. RecordSize(e) /\ at + (k - at) = k
      BY <1>5, <1>7, <2>2, SMTT(30)
    <3>2. disk[k] = RecordByte(m, e, k - at)
      BY <3>1
    <3>3. Images(appended)[Len(appended)][at + (k - at)] = RecordByte(m, e, k - at)
      BY <1>5, <1>6, <3>1, ImageBytes
    <3> QED BY <3>1, <3>2, <3>3
  <2> QED BY <2>1, <2>2
<1>14. Reading'
  BY <1>2, <1>4, <1>7, <1>9, <1>13 DEF Reading
<1>15. m + 1 <= MaximumRecords
  BY <1>5, LimitsAssumption
<1>16. ReaderInv'
  BY <1>1, <1>2, <1>4, <1>5, <1>9, <1>12, <1>14, <1>15 DEF ReaderInv, Offline
<1> QED BY <1>2, <1>10, <1>11, <1>16 DEF LogInv

LEMMA ReadRecordStep ==
    ASSUME LogInv, ReadRecord
    PROVE  LogInv'
<1> DEFINE at == reader.offset
           m == Len(reader.index)
<1>1. reader.phase = "reading" /\ UNCHANGED <<disk, writerVars, recovery, damaged>>
  BY DEF ReadRecord
<1>2. Reading /\ at \in Nat /\ reader.file_size \in Nat /\ at <= reader.file_size
  BY <1>1 DEF LogInv, ReaderInv, NotReading, ReaderType, Reading
<1>3. CASE at >= reader.file_size
  <2>1. reader' = Finished("complete") /\ at = reader.file_size
    BY <1>2, <1>3 DEF ReadRecord
  <2> QED BY <1>1, <2>1, FinishStep
<1>4. CASE at < reader.file_size
  <2>1. \/ Verdict(at) = "resource_limit" /\ m = MaximumRecords
        \/ /\ Verdict(at) = "truncated_tail" /\ m # MaximumRecords
           /\ m < Len(appended) => reader.file_size < Ends(appended)[m + 1]
        \/ Verdict(at) = "corrupt" /\ damaged
        \/ /\ Verdict(at) = "record" /\ m # MaximumRecords /\ m < Len(appended)
           /\ HeaderEvent(at) = appended[m + 1] /\ ParsedEvent(at) = appended[m + 1]
           /\ Ends(appended)[m + 1] <= reader.file_size
           /\ \A j \in 1 .. RecordSize(appended[m + 1]) :
                disk[at + j] = RecordByte(m, appended[m + 1], j)
    BY <1>1, <1>4, VerdictCases
  <2>2. ~(at >= reader.file_size)
    BY <1>2, <1>4
  <2>3. CASE Verdict(at) # "record"
    <3>1. reader' = Finished(Verdict(at))
      BY <2>2, <2>3 DEF ReadRecord
    <3>2. \/ Verdict(at) = "resource_limit" /\ m = MaximumRecords
          \/ /\ Verdict(at) = "truncated_tail" /\ m # MaximumRecords
             /\ m < Len(appended) => reader.file_size < Ends(appended)[m + 1]
          \/ Verdict(at) = "corrupt" /\ damaged
      BY <2>1, <2>3
    <3> QED BY <1>1, <1>4, <3>1, <3>2, FinishStep
  <2>4. CASE Verdict(at) = "record"
    <3> DEFINE e == appended[m + 1]
    <3>1. /\ m # MaximumRecords /\ m < Len(appended)
          /\ HeaderEvent(at) = e /\ ParsedEvent(at) = e
          /\ Ends(appended)[m + 1] <= reader.file_size
          /\ \A j \in 1 .. RecordSize(e) : disk[at + j] = RecordByte(m, e, j)
      BY <2>1, <2>4
    <3>2. reader' = [reader EXCEPT !.index = Append(@, [file_offset |-> at, event |-> e]),
                                    !.offset = at + RecordHeaderSize + PayloadSize[e],
                                    !.valid_bytes = at + RecordHeaderSize + PayloadSize[e]]
      BY <2>2, <2>4, <3>1 DEF ReadRecord
    <3> QED BY <1>1, <3>1, <3>2, NextRecord
  <2> QED BY <2>3, <2>4
<1> QED BY <1>2, <1>3, <1>4

-----------------------------------------------------------------------------
(* The result is used. *)

LEMMA IdleAgain ==
    ASSUME LogInv, WriterType', WriterInv', reader' = IdleReader, RecoveryInv',
           appended' = appended
    PROVE  LogInv'
<1>1. appended \in Seq(Events)
  BY DEF LogInv, WriterType
<1>2. ReaderType'
  BY DEF ReaderType, IdleReader, Statuses
<1>3. NeverWrongRecord'
  BY <1>1 DEF NeverWrongRecord, IdleReader
<1>4. ReaderInv'
  BY <1>3 DEF ReaderInv, IdleReader
<1> QED BY <1>2, <1>4 DEF LogInv

LEMMA EndReadStep ==
    ASSUME LogInv, EndRead
    PROVE  LogInv'
<1>1. reader' = IdleReader /\ recovery' = recovery /\ UNCHANGED <<disk, writerVars, damaged>>
  BY DEF EndRead
<1>2. /\ WriterType' /\ WriterInv'
      /\ disk' = disk /\ writer' = writer /\ appended' = appended /\ damaged' = damaged
  BY <1>1, WriterKept DEF LogInv
<1>3. RecoveryInv'
  BY <1>1, <1>2, RecoveryKept DEF LogInv
<1> QED BY <1>1, <1>2, <1>3, IdleAgain

\* A recovery that refuses has a reason to.
LEMMA LeaveAloneStep ==
    ASSUME LogInv, LeaveAlone
    PROVE  LogInv'
<1>1. /\ WriterType /\ WriterInv /\ ReaderType /\ ReaderInv
      /\ reader.phase = "done" /\ reader.recovers /\ ~Recoverable
      /\ recovery' = (IF reader.status = "complete" THEN "already complete" ELSE "refused")
      /\ reader' = IdleReader /\ UNCHANGED <<disk, writerVars, damaged>>
  BY DEF LeaveAlone, LogInv
<1>2. /\ WriterType' /\ WriterInv'
      /\ disk' = disk /\ writer' = writer /\ appended' = appended /\ damaged' = damaged
  BY <1>1, WriterKept
<1>3. /\ Offline /\ reader.file_size = Len(disk)
      /\ NotReading \/ (Reading /\ reader.file_size >= FileHeaderSize)
      /\ Len(reader.index) <= Len(appended)
  BY <1>1 DEF ReaderInv, NeverWrongRecord
<1>4. ASSUME reader.status # "complete"
      PROVE  \/ damaged
             \/ Len(disk) < FileHeaderSize
             \/ MaximumRecords <= Len(appended) /\ Ends(appended)[MaximumRecords] < Len(disk)
  <2>1. CASE NotReading
    BY <1>3, <2>1 DEF NotReading
  <2>2. CASE Reading /\ reader.file_size >= FileHeaderSize
    <3>1. /\ reader.status \in {"truncated_tail", "resource_limit", "corrupt"}
          /\ reader.valid_bytes = Ends(appended)[Len(reader.index)]
      BY <1>1, <1>4, <2>2 DEF Reading
    <3>2. reader.status # "truncated_tail"
      <4>1. reader.status = "truncated_tail" => reader.valid_bytes >= FileHeaderSize
        <5>1. appended \in Seq(Events) /\ Len(reader.index) \in 0 .. Len(appended) /\ 0 \in 0 .. Len(appended)
          <6>1. appended \in Seq(Events) /\ Len(appended) \in Nat /\ Len(reader.index) \in Nat
            <7>1. appended \in Seq(Events)
              BY <1>1 DEF WriterType
            <7>2. reader.index \in Seq([file_offset : Nat, event : Events])
              BY <1>1 DEF ReaderType
            <7> QED BY <7>1, <7>2
          <6> QED BY <1>3, <6>1
        <5>2. 0 <= Len(reader.index)
          BY <5>1
        <5>3. /\ Ends(appended)[0] <= Ends(appended)[Len(reader.index)]
              /\ Ends(appended)[Len(reader.index)] \in Nat /\ Ends(appended)[0] = FileHeaderSize
          BY <5>1, <5>2, EndsOrdered, EndsFacts
        <5> QED BY <3>1, <5>3, LayoutAssumption
      <4> QED BY <1>1, <4>1 DEF Recoverable
    <3>3. CASE reader.status = "resource_limit"
      BY <1>1, <1>3, <2>2, <3>1, <3>3 DEF Reading
    <3>4. CASE reader.status = "corrupt"
      BY <1>1, <2>2, <3>4 DEF Reading
    <3> QED BY <3>1, <3>2, <3>3, <3>4
  <2> QED BY <1>3, <2>1, <2>2
<1>5. RecoveryInv'
  <2>1. CASE reader.status = "complete"
    BY <1>1, <2>1 DEF RecoveryInv
  <2>2. CASE reader.status # "complete"
    <3>1. recovery' = "refused" /\ Offline'
      BY <1>1, <1>2, <1>3, <2>2 DEF Offline
    <3>2. \/ damaged'
          \/ Len(disk') < FileHeaderSize
          \/ MaximumRecords <= Len(appended') /\ Ends(appended')[MaximumRecords] < Len(disk')
      <4>1. damaged \in BOOLEAN
        BY <1>1 DEF WriterType
      <4> QED BY <1>2, <1>4, <2>2, <4>1
    <3> QED BY <3>1, <3>2 DEF RecoveryInv
  <2> QED BY <2>1, <2>2
<1> QED BY <1>1, <1>2, <1>5, IdleAgain

LEMMA FirstBytes ==
    ASSUME NEW f \in Seq(Bytes), NEW n \in Nat, n <= Len(f), NEW g, g = [k \in 1 .. n |-> f[k]]
    PROVE  g \in Seq(Bytes) /\ Len(g) = n /\ \A k \in 1 .. n : g[k] = f[k]
<1>1. \A k \in 1 .. n : f[k] \in Bytes
  OBVIOUS
<1>2. g \in Seq(Bytes)
  BY <1>1
<1>3. Len(g) = n
  OBVIOUS
<1> QED BY <1>2, <1>3

\* recover cuts the file at the end of the last record that is whole.
LEMMA TruncatedFile ==
    ASSUME LogInv, reader.phase = "done", reader.recovers, Recoverable, NEW m, m = Len(reader.index),
           disk' = [k \in 1 .. reader.valid_bytes |-> IF k <= Len(disk) THEN disk[k] ELSE Zero]
    PROVE  /\ Offline /\ m \in 0 .. Len(appended)
           /\ disk' \in Seq(Bytes) /\ Len(disk') = Ends(appended)[m] /\ Len(disk') < Len(disk)
           /\ m < Len(appended) => Len(disk) < Ends(appended)[m + 1]
           /\ \A k \in 1 .. Len(disk') : disk'[k] = disk[k]
           /\ damaged = reader.rotten =>
                \A k \in 1 .. Len(disk') : disk'[k] = Images(appended)[Len(appended)][k]
<1>1. WriterType /\ WriterInv /\ ReaderType /\ ReaderInv
  BY DEF LogInv
<1>2. /\ Offline /\ reader.file_size = Len(disk) /\ m <= Len(appended) /\ Reading
      /\ reader.status = "truncated_tail"
  BY <1>1 DEF ReaderInv, NeverWrongRecord, NotReading, Recoverable
<1>3. /\ disk \in Seq(Bytes) /\ Len(disk) \in Nat /\ appended \in Seq(Events) /\ Len(appended) \in Nat
      /\ m \in Nat /\ reader.valid_bytes \in Nat
  BY <1>1 DEF WriterType, ReaderType
<1>4. /\ reader.valid_bytes = Ends(appended)[m] /\ reader.valid_bytes < Len(disk)
      /\ m < Len(appended) => Len(disk) < Ends(appended)[m + 1]
      /\ damaged = reader.rotten =>
           \A k \in 1 .. reader.valid_bytes : disk[k] = Images(appended)[Len(appended)][k]
  BY <1>2 DEF Reading
<1>5. \A k \in 1 .. reader.valid_bytes : k \in 1 .. Len(disk) /\ k <= Len(disk) /\ disk[k] \in Bytes
  BY <1>3, <1>4
<1>6. disk' = [k \in 1 .. reader.valid_bytes |-> disk[k]]
  BY <1>5
<1>7. /\ disk' \in Seq(Bytes) /\ Len(disk') = reader.valid_bytes
      /\ \A k \in 1 .. Len(disk') : disk'[k] = disk[k]
  <2>1. reader.valid_bytes <= Len(disk)
    BY <1>3, <1>4
  <2>2. /\ disk' \in Seq(Bytes) /\ Len(disk') = reader.valid_bytes
        /\ \A k \in 1 .. reader.valid_bytes : disk'[k] = disk[k]
    BY <1>3, <1>6, <2>1, FirstBytes, Zenon
  <2> QED BY <2>2, Zenon
<1>8. m \in 0 .. Len(appended)
  BY <1>2, <1>3
<1> QED BY <1>2, <1>4, <1>7, <1>8

LEMMA TruncateStep ==
    ASSUME LogInv, Truncate
    PROVE  LogInv'
<1> DEFINE m == Len(reader.index)
<1>1. /\ WriterType /\ WriterInv /\ ReaderType /\ ReaderInv
      /\ reader.phase = "done" /\ reader.recovers /\ Recoverable
      /\ reader' = IdleReader /\ UNCHANGED <<writerVars, damaged>>
  BY DEF Truncate, LogInv
<1>2. CASE recovery' = "failed" /\ UNCHANGED disk
  <2>1. WriterType' /\ WriterInv' /\ appended' = appended
    BY <1>1, <1>2, WriterKept
  <2>2. RecoveryInv'
    BY <1>2 DEF RecoveryInv
  <2> QED BY <1>1, <2>1, <2>2, IdleAgain
<1>3. CASE /\ disk' = [k \in 1 .. reader.valid_bytes |-> IF k <= Len(disk) THEN disk[k] ELSE Zero]
           /\ recovery' = "removed"
  <2>1. /\ Offline /\ m \in 0 .. Len(appended)
        /\ disk' \in Seq(Bytes) /\ Len(disk') = Ends(appended)[m] /\ Len(disk') < Len(disk)
        /\ m < Len(appended) => Len(disk) < Ends(appended)[m + 1]
        /\ \A k \in 1 .. Len(disk') : disk'[k] = disk[k]
    BY <1>1, <1>3, TruncatedFile
  <2>2. /\ writer' = writer /\ error' = error /\ buffer' = buffer
        /\ position' = position /\ record_count' = record_count /\ bytes_written' = bytes_written
        /\ appended' = appended /\ acked' = acked /\ flushed' = flushed /\ damaged' = damaged
    BY <1>1 DEF writerVars, countVars
  <2>3. /\ disk \in Seq(Bytes) /\ appended \in Seq(Events) /\ Len(disk) \in Nat /\ Len(disk') \in Nat
        /\ Len(appended) \in Nat /\ flushed \in Nat /\ flushed <= Len(appended)
    BY <1>1, <2>1 DEF WriterType, WriterInv
  <2>4. PartOf(disk', appended, damaged)
    <3>1. PartOf(disk, appended, damaged) /\ Len(disk') <= Len(disk)
      BY <1>1, <2>1, <2>3, DiskPart
    <3> QED BY <2>1, <2>3, <3>1, PartPrefix
  <2>5. disk' \o buffer' = disk' /\ buffer' = <<>>
    BY <1>1, <2>1, <2>2 DEF WriterInv, Offline
  <2>6. flushed > 0 => Ends(appended)[flushed] <= Len(disk')
    <3>1. SUFFICES ASSUME flushed > 0 PROVE Ends(appended)[flushed] <= Len(disk')
      OBVIOUS
    <3>2. flushed \in 0 .. Len(appended) /\ Ends(appended)[flushed] <= Len(disk)
      BY <1>1, <2>3, <3>1 DEF WriterInv
    <3>3. CASE flushed <= m
      BY <2>1, <2>3, <3>2, <3>3, EndsOrdered
    <3>4. CASE ~(flushed <= m)
      <4>1. m + 1 \in 0 .. Len(appended) /\ m + 1 <= flushed /\ m < Len(appended)
        BY <2>1, <2>3, <3>2, <3>4
      <4>2. /\ Ends(appended)[m + 1] <= Ends(appended)[flushed]
            /\ Ends(appended)[m + 1] \in Nat /\ Ends(appended)[flushed] \in Nat
        BY <2>3, <3>2, <4>1, EndsOrdered
      <4> QED BY <2>1, <2>3, <3>2, <4>1, <4>2
    <3> QED BY <3>3, <3>4
  <2>7. WriterType'
    BY <1>1, <2>1, <2>2 DEF WriterType
  <2>8. WriterInv'
    BY <1>1, <2>1, <2>2, <2>3, <2>4, <2>5, <2>6 DEF WriterInv, Offline
  <2>9. RecoveryInv'
    BY <1>3 DEF RecoveryInv
  <2> QED BY <1>1, <2>2, <2>7, <2>8, <2>9, IdleAgain
<1> QED BY <1>2, <1>3 DEF Truncate

-----------------------------------------------------------------------------
(* The invariant is inductive. *)

LEMMA LogInit == Init => LogInv
<1> SUFFICES ASSUME Init PROVE LogInv
  OBVIOUS
<1>1. /\ disk = <<>> /\ buffer = <<>> /\ appended = <<>> /\ writer = "none" /\ error = FALSE
      /\ position = 0 /\ record_count = 0 /\ bytes_written = 0 /\ reader = IdleReader
      /\ recovery = "none" /\ acked = 0 /\ flushed = 0 /\ damaged = FALSE
  BY DEF Init
<1>2. Len(<<>>) = 0 /\ <<>> \in Seq(Events) /\ <<>> \in Seq(Bytes) /\ <<>> \o <<>> = <<>>
  OBVIOUS
<1>3. PartOf(<<>>, <<>>, FALSE)
  <2>1. Ends(<<>>)[Len(<<>>)] = FileHeaderSize /\ FileHeaderSize \in Nat
    BY EmptyRecording, LayoutAssumption
  <2>2. ~(Len(<<>>) > Ends(<<>>)[Len(<<>>)])
    BY <1>2, <2>1
  <2>3. \A k \in 1 .. Len(<<>>) : FALSE
    BY <1>2
  <2> QED BY <2>2, <2>3, Zenon DEF PartOf
<1>4. WriterType
  BY <1>1, <1>2 DEF WriterType
<1>5. WriterInv
  <2>1. PartOf(disk \o buffer, appended, damaged)
    BY <1>1, <1>2, <1>3, Zenon
  <2>2. Len(appended) = 0 /\ flushed <= Len(appended) /\ ~(flushed > 0)
    BY <1>1, <1>2
  <2>3. \A i \in 1 .. Len(appended) : PayloadSize[appended[i]] <= MaximumPayloadSize
    BY <2>2
  <2> QED BY <1>1, <2>1, <2>2, <2>3 DEF WriterInv
<1>6. ReaderType
  BY <1>1 DEF ReaderType, IdleReader, Statuses
<1>7. ReaderInv
  BY <1>1, <1>2 DEF ReaderInv, NeverWrongRecord, IdleReader
<1>8. RecoveryInv
  BY <1>1 DEF RecoveryInv
<1> QED BY <1>4, <1>5, <1>6, <1>7, <1>8 DEF LogInv

LEMMA LogStutters ==
    ASSUME LogInv, UNCHANGED vars
    PROVE  LogInv'
<1>1. /\ reader' = reader /\ recovery' = recovery /\ UNCHANGED <<disk, writerVars, damaged>>
  BY DEF vars, readerVars
<1>2. WriterType /\ WriterInv /\ ReaderType /\ ReaderInv /\ RecoveryInv
  BY DEF LogInv
<1>3. /\ WriterType' /\ WriterInv' /\ disk' = disk /\ writer' = writer
      /\ appended' = appended /\ damaged' = damaged /\ End' = End
  BY <1>1, <1>2, WriterKept
<1>4. ReaderType' /\ RecoveryInv'
  BY <1>1, <1>2, <1>3, RecoveryKept DEF ReaderType
<1>5. NeverWrongRecord'
  BY <1>1, <1>2, <1>3 DEF ReaderInv, NeverWrongRecord
<1>6. (Reading => Reading') /\ (NotReading => NotReading') /\ (Offline => Offline')
  BY <1>1, <1>3 DEF Reading, NotReading, Offline
<1>7. ReaderInv'
  BY <1>1, <1>2, <1>3, <1>5, <1>6 DEF ReaderInv
<1> QED BY <1>3, <1>4, <1>7 DEF LogInv

\* A later collector on the same path touches neither the file nor a reader.
LEMMA OpenExistingStep ==
    ASSUME LogInv, OpenExisting
    PROVE  LogInv' /\ disk' = disk
<1>1. /\ disk' = disk /\ buffer' = buffer /\ position' = position /\ error' = TRUE
      /\ writer \in {"closed", "crashed"} /\ writer' = "refused"
      /\ record_count' = record_count /\ bytes_written' = bytes_written
      /\ appended' = appended /\ acked' = acked /\ flushed' = flushed
      /\ reader' = reader /\ recovery' = recovery /\ damaged' = damaged
  BY DEF OpenExisting, streamVars, countVars, readerVars
<1>2. WriterType /\ WriterInv /\ ReaderType /\ ReaderInv /\ RecoveryInv
  BY DEF LogInv
<1>3. WriterType' /\ ReaderType'
  BY <1>1, <1>2 DEF WriterType, ReaderType
<1>4. WriterInv'
  BY <1>1, <1>2 DEF WriterInv, LastEnd
<1>5. Offline /\ Offline'
  BY <1>1 DEF Offline
<1>6. RecoveryInv'
  BY <1>1, <1>2, <1>5 DEF RecoveryInv
<1>7. End' = End
  BY <1>1, EndIsEnds
<1>8. NeverWrongRecord'
  BY <1>1, <1>2, <1>7 DEF ReaderInv, NeverWrongRecord
<1>9. (Reading => Reading') /\ (NotReading => NotReading')
  BY <1>1 DEF Reading, NotReading
<1>10. ReaderInv'
  BY <1>1, <1>2, <1>5, <1>8, <1>9 DEF ReaderInv
<1> QED BY <1>1, <1>3, <1>4, <1>6, <1>10 DEF LogInv

LEMMA LogNext ==
    ASSUME RecoverLive = FALSE, LogInv, [Next]_vars
    PROVE  LogInv'
<1>1. CASE WriterStep
  <2>1. WriterType' /\ WriterInv' /\ WriterMoves
    BY <1>1, WriterSteps DEF LogInv
  <2>2. ReaderType' /\ ReaderInv' /\ RecoveryInv'
    BY <2>1, ReaderStays
  <2> QED BY <2>1, <2>2 DEF LogInv
<1>2. CASE \E k \in 1 .. Len(disk) : Rot(k)
  BY <1>2, RotStep
<1>3. CASE \E recovers \in BOOLEAN : StartRead(recovers)
  BY <1>3, StartReadStep
<1>4. CASE ReadRecord
  BY <1>4, ReadRecordStep
<1>5. CASE EndRead
  BY <1>5, EndReadStep
<1>6. CASE Truncate
  BY <1>6, TruncateStep
<1>7. CASE LeaveAlone
  BY <1>7, LeaveAloneStep
<1>8. CASE OpenExisting
  BY <1>8, OpenExistingStep
<1>9. CASE UNCHANGED vars
  BY <1>9, LogStutters
<1> QED BY <1>1, <1>2, <1>3, <1>4, <1>5, <1>6, <1>7, <1>8, <1>9 DEF Next, WriterStep

LEMMA LogInvariant ==
    ASSUME RecoverLive = FALSE
    PROVE  Spec => []LogInv
BY LogInit, LogNext, PTL DEF Spec

-----------------------------------------------------------------------------
(* The records that are whole. *)

LEMMA WholeUpTo ==
    ASSUME appended \in Seq(Events), NEW size \in Nat, NEW w \in 0 .. Len(appended),
           Ends(appended)[w] <= size, w < Len(appended) => size < Ends(appended)[w + 1]
    PROVE  Whole(size) = 1 .. w /\ Cardinality(Whole(size)) = w
<1>1. Len(appended) \in Nat /\ w \in Nat /\ w <= Len(appended)
  OBVIOUS
<1>2. ASSUME NEW i \in 1 .. Len(appended) PROVE Ends(appended)[i] <= size <=> i <= w
  <2>1. i \in 0 .. Len(appended) /\ Ends(appended)[i] \in Nat /\ Ends(appended)[w] \in Nat
    BY <1>1, EndsFacts, SMTT(30)
  <2>2. CASE i <= w
    <3>1. Ends(appended)[i] <= Ends(appended)[w]
      BY <2>1, <2>2, EndsOrdered
    <3> QED BY <2>1, <2>2, <3>1
  <2>3. CASE ~(i <= w)
    <3>1. w + 1 \in 0 .. Len(appended) /\ w + 1 <= i /\ w < Len(appended)
      BY <1>1, <2>3
    <3>2. Ends(appended)[w + 1] <= Ends(appended)[i] /\ Ends(appended)[w + 1] \in Nat
      BY <2>1, <3>1, EndsOrdered
    <3> QED BY <2>1, <2>3, <3>1, <3>2
  <2> QED BY <2>2, <2>3
<1>3. Whole(size) = {i \in 1 .. Len(appended) : i <= w}
  BY <1>2, EndIsEnds DEF Whole
<1>4. Whole(size) = 1 .. w
  BY <1>1, <1>3
<1>5. Cardinality(1 .. w) = w
  BY <1>1, FS_Interval
<1> QED BY <1>4, <1>5

LEMMA WholeCount ==
    ASSUME appended \in Seq(Events), NEW size \in Nat, size >= FileHeaderSize
    PROVE  \E w \in 0 .. Len(appended) :
             /\ Ends(appended)[w] <= size
             /\ w < Len(appended) => size < Ends(appended)[w + 1]
             /\ Cardinality(Whole(size)) = w
<1> DEFINE T == {i \in 0 .. Len(appended) : i = Len(appended) \/ size < Ends(appended)[i + 1]}
<1>1. Len(appended) \in Nat
  OBVIOUS
<1>2. T \subseteq Nat /\ Len(appended) \in T
  BY <1>1
<1>3. PICK w \in T : \A i \in T : w <= i
  <2> HIDE DEF T
  <2> QED BY <1>2, LeastNumber
<1>4. w \in 0 .. Len(appended) /\ (w < Len(appended) => size < Ends(appended)[w + 1])
  BY <1>1
<1>5. Ends(appended)[w] <= size
  <2>1. CASE w = 0
    BY <2>1, EndsFacts, LayoutAssumption
  <2>2. CASE w # 0
    <3>1. w - 1 \in 0 .. Len(appended) /\ w - 1 # Len(appended) /\ ~(w <= w - 1) /\ (w - 1) + 1 = w
      BY <1>1, <1>4, <2>2
    <3>2. ~(size < Ends(appended)[w])
      BY <1>3, <3>1
    <3>3. Ends(appended)[w] \in Nat
      BY <1>4, EndsFacts
    <3> QED BY <3>2, <3>3
  <2> QED BY <2>1, <2>2
<1>6. Cardinality(Whole(size)) = w
  BY <1>4, <1>5, WholeUpTo
<1> QED BY <1>4, <1>5, <1>6

-----------------------------------------------------------------------------
(* The properties. *)

LEMMA TypesFollow == LogInv => TypeOK
<1> SUFFICES ASSUME LogInv PROVE TypeOK
  OBVIOUS
<1>1. WriterType /\ WriterInv /\ ReaderType /\ RecoveryInv
  BY DEF LogInv
<1>2. disk \in Seq(Bytes) /\ buffer \in Seq(Bytes) /\ appended \in Seq(Events)
  BY <1>1 DEF WriterType
<1>3. /\ \A k \in 1 .. Len(disk) : disk[k] \in Bytes
      /\ \A k \in 1 .. Len(buffer) : buffer[k] \in Bytes
      /\ Len(appended) \in Nat
  BY <1>2
<1>4. writer = "open" /\ ~error => position + Len(buffer) = bytes_written
  BY <1>1 DEF WriterInv
<1> QED BY <1>1, <1>3, <1>4 DEF TypeOK, WriterType, ReaderType, RecoveryInv

\* The end of a record tells which records are whole.
LEMMA EndsTell ==
    ASSUME appended \in Seq(Events), NEW i \in 0 .. Len(appended), NEW j \in 0 .. Len(appended),
           NEW size \in Nat, Ends(appended)[i] <= size,
           j < Len(appended) => size < Ends(appended)[j + 1]
    PROVE  i <= j
<1>1. SUFFICES ASSUME ~(i <= j) PROVE FALSE
  OBVIOUS
<1>2. j + 1 \in 0 .. Len(appended) /\ j + 1 <= i /\ j < Len(appended)
  <2>1. Len(appended) \in Nat
    OBVIOUS
  <2> QED BY <1>1, <2>1
<1>3. /\ Ends(appended)[j + 1] <= Ends(appended)[i]
      /\ Ends(appended)[j + 1] \in Nat /\ Ends(appended)[i] \in Nat
  BY <1>2, EndsOrdered
<1> QED BY <1>2, <1>3

\* What a finished read of an undamaged file looks like.
LEMMA ReadDone ==
    ASSUME LogInv, reader.phase = "done", ~damaged, NEW m, m = Len(reader.index)
    PROVE  /\ appended \in Seq(Events) /\ m \in 0 .. Len(appended) /\ m <= MaximumRecords
           /\ reader.file_size \in Nat /\ FileHeaderSize \in Nat /\ MaximumRecords \in Nat
           /\ \/ /\ reader.file_size < FileHeaderSize /\ m = 0 /\ reader.status = "corrupt"
              \/ /\ reader.file_size >= FileHeaderSize
                 /\ reader.valid_bytes = Ends(appended)[m] /\ Ends(appended)[m] \in Nat
                 /\ \/ reader.status = "complete" /\ Ends(appended)[m] = reader.file_size
                    \/ /\ reader.status = "truncated_tail" /\ m < MaximumRecords
                       /\ Ends(appended)[m] < reader.file_size
                       /\ m < Len(appended) => reader.file_size < Ends(appended)[m + 1]
                    \/ /\ reader.status = "resource_limit" /\ m = MaximumRecords
                       /\ Ends(appended)[m] < reader.file_size
<1>1. WriterType /\ ReaderType /\ ReaderInv
  BY DEF LogInv
<1>2. /\ appended \in Seq(Events) /\ Len(appended) \in Nat /\ m \in Nat /\ m <= Len(appended)
      /\ m <= MaximumRecords /\ reader.file_size \in Nat
  <2>1. appended \in Seq(Events) /\ Len(appended) \in Nat
    BY <1>1 DEF WriterType
  <2>2. reader.index \in Seq([file_offset : Nat, event : Events]) /\ reader.file_size \in Nat
    BY <1>1 DEF ReaderType
  <2>3. m <= Len(appended) /\ m <= MaximumRecords
    BY <1>1 DEF ReaderInv, NeverWrongRecord
  <2> QED BY <2>1, <2>2, <2>3
<1>3. FileHeaderSize \in Nat /\ MaximumRecords \in Nat
  BY LayoutAssumption, LimitsAssumption
<1>4. m \in 0 .. Len(appended)
  BY <1>2
<1>5. NotReading \/ (Reading /\ reader.file_size >= FileHeaderSize)
  BY <1>1 DEF ReaderInv
<1>6. CASE NotReading
  <2>1. /\ reader.status = "corrupt" /\ reader.index = <<>>
        /\ reader.file_size < FileHeaderSize
    BY <1>6 DEF NotReading
  <2>2. m = 0
    BY <2>1
  <2> QED BY <1>2, <1>3, <1>4, <2>1, <2>2
<1>7. CASE Reading /\ reader.file_size >= FileHeaderSize
  <2>1. Ends(appended)[m] \in Nat
    BY <1>2, <1>4, EndsFacts
  <2>2. /\ reader.valid_bytes = Ends(appended)[m]
        /\ \/ reader.status = "complete" /\ Ends(appended)[m] = reader.file_size
           \/ /\ reader.status = "truncated_tail" /\ m < MaximumRecords
              /\ Ends(appended)[m] < reader.file_size
              /\ m < Len(appended) => reader.file_size < Ends(appended)[m + 1]
           \/ /\ reader.status = "resource_limit" /\ m = MaximumRecords
              /\ Ends(appended)[m] < reader.file_size
    BY <1>7 DEF Reading
  <2> QED BY <1>2, <1>3, <1>4, <1>7, <2>1, <2>2
<1> QED BY <1>5, <1>6, <1>7

LEMMA ReadsExactlyFollows == LogInv => ReadsExactly
<1> SUFFICES ASSUME LogInv, reader.phase = "done", ~damaged
             PROVE  /\ reader.status = ExpectedStatus(reader.file_size)
                    /\ reader.file_size >= FileHeaderSize =>
                         LET whole == Cardinality(Whole(reader.file_size)) IN
                         /\ Len(reader.index) = IF whole < MaximumRecords THEN whole ELSE MaximumRecords
                         /\ reader.valid_bytes = End[Len(reader.index)]
  BY DEF ReadsExactly
<1> DEFINE m == Len(reader.index)
           size == reader.file_size
<1>1. /\ appended \in Seq(Events) /\ m \in 0 .. Len(appended) /\ m <= MaximumRecords
      /\ size \in Nat /\ FileHeaderSize \in Nat /\ MaximumRecords \in Nat
      /\ \/ size < FileHeaderSize /\ m = 0 /\ reader.status = "corrupt"
         \/ /\ size >= FileHeaderSize
            /\ reader.valid_bytes = Ends(appended)[m] /\ Ends(appended)[m] \in Nat
            /\ \/ reader.status = "complete" /\ Ends(appended)[m] = size
               \/ /\ reader.status = "truncated_tail" /\ m < MaximumRecords
                  /\ Ends(appended)[m] < size
                  /\ m < Len(appended) => size < Ends(appended)[m + 1]
               \/ /\ reader.status = "resource_limit" /\ m = MaximumRecords
                  /\ Ends(appended)[m] < size
  BY ReadDone
<1>2. CASE size < FileHeaderSize
  <2>1. ~(size >= FileHeaderSize)
    BY <1>1, <1>2
  <2> QED BY <1>1, <1>2, <2>1 DEF ExpectedStatus
<1>3. CASE size >= FileHeaderSize
  <2>1. PICK w \in 0 .. Len(appended) :
          /\ Ends(appended)[w] <= size
          /\ w < Len(appended) => size < Ends(appended)[w + 1]
          /\ Cardinality(Whole(size)) = w
    BY <1>1, <1>3, WholeCount
  <2>2. Ends(appended)[w] \in Nat /\ Len(appended) \in Nat /\ w \in Nat /\ m \in Nat
    BY <1>1, EndsFacts
  <2>3. ~(size < FileHeaderSize) /\ Ends(appended)[m] <= size
    BY <1>1, <1>3
  <2>4. m <= w
    BY <1>1, <2>1, <2>3, EndsTell
  <2>5. reader.status \in {"complete", "truncated_tail"} => w <= m
    <3>1. m < Len(appended) /\ Ends(appended)[m] = size => size < Ends(appended)[m + 1]
      <4>1. m < Len(appended) => m + 1 \in 0 .. Len(appended) /\ m < m + 1
        BY <1>1, <2>2
      <4>2. m < Len(appended) => Ends(appended)[m] < Ends(appended)[m + 1]
        BY <1>1, <4>1, EndsGrow
      <4> QED BY <4>2
    <3>2. reader.status \in {"complete", "truncated_tail"} =>
            (m < Len(appended) => size < Ends(appended)[m + 1])
      BY <1>1, <1>3, <2>3, <3>1
    <3> QED BY <1>1, <2>1, <3>2, EndsTell
  <2>6. ExpectedStatus(size) =
          IF w > MaximumRecords THEN "resource_limit"
          ELSE IF size = Ends(appended)[w] THEN "complete"
          ELSE IF w = MaximumRecords THEN "resource_limit" ELSE "truncated_tail"
    BY <2>1, <2>3, EndIsEnds DEF ExpectedStatus
  <2> HIDE DEF m, size
  <2>7. reader.valid_bytes = End[m]
    BY <1>1, <2>3, EndIsEnds
  <2>8. CASE reader.status = "complete"
    <3>1. w = m /\ Ends(appended)[m] = size
      BY <1>1, <2>2, <2>3, <2>4, <2>5, <2>8
    <3>2. ~(w > MaximumRecords) /\ m = IF w < MaximumRecords THEN w ELSE MaximumRecords
      BY <1>1, <2>2, <3>1
    <3> QED BY <2>1, <2>6, <2>7, <2>8, <3>1, <3>2 DEF m, size
  <2>9. CASE reader.status = "truncated_tail"
    <3>1. w = m /\ Ends(appended)[m] < size /\ m < MaximumRecords
      BY <1>1, <2>2, <2>3, <2>4, <2>5, <2>9
    <3>2. /\ ~(w > MaximumRecords) /\ w # MaximumRecords /\ size # Ends(appended)[w]
          /\ m = IF w < MaximumRecords THEN w ELSE MaximumRecords
      BY <1>1, <2>2, <3>1
    <3> QED BY <2>1, <2>6, <2>7, <2>9, <3>2 DEF m, size
  <2>10. CASE reader.status = "resource_limit"
    <3>1. Ends(appended)[m] < size /\ m = MaximumRecords
      BY <1>1, <2>3, <2>10
    <3>2. w > MaximumRecords \/ (w = MaximumRecords /\ size # Ends(appended)[w])
      BY <1>1, <2>2, <2>4, <3>1
    <3>3. m = IF w < MaximumRecords THEN w ELSE MaximumRecords
      BY <1>1, <2>2, <2>4, <3>1
    <3> QED BY <1>1, <2>1, <2>2, <2>6, <2>7, <2>10, <3>2, <3>3 DEF m, size
  <2> QED BY <1>1, <2>3, <2>8, <2>9, <2>10
<1> QED BY <1>1, <1>2, <1>3

LEMMA FlushedSurviveFollows == LogInv => FlushedSurvive
<1> SUFFICES ASSUME LogInv, reader.phase = "done", ~damaged
             PROVE  Len(reader.index) >= (IF reader.floor < MaximumRecords THEN reader.floor
                                          ELSE MaximumRecords)
  BY DEF FlushedSurvive
<1> DEFINE m == Len(reader.index)
           size == reader.file_size
<1>1. /\ appended \in Seq(Events) /\ m \in 0 .. Len(appended) /\ m <= MaximumRecords
      /\ size \in Nat /\ FileHeaderSize \in Nat /\ MaximumRecords \in Nat
      /\ \/ size < FileHeaderSize /\ m = 0 /\ reader.status = "corrupt"
         \/ /\ size >= FileHeaderSize
            /\ reader.valid_bytes = Ends(appended)[m] /\ Ends(appended)[m] \in Nat
            /\ \/ reader.status = "complete" /\ Ends(appended)[m] = size
               \/ /\ reader.status = "truncated_tail" /\ m < MaximumRecords
                  /\ Ends(appended)[m] < size
                  /\ m < Len(appended) => size < Ends(appended)[m + 1]
               \/ /\ reader.status = "resource_limit" /\ m = MaximumRecords
                  /\ Ends(appended)[m] < size
  BY ReadDone
<1>2. /\ reader.floor \in Nat /\ reader.floor <= Len(appended)
      /\ reader.floor > 0 => Ends(appended)[reader.floor] <= size
  BY DEF LogInv, ReaderInv, ReaderType
<1>3. Len(appended) \in Nat /\ m \in Nat /\ reader.floor \in 0 .. Len(appended) /\ 0 \in 0 .. Len(appended)
  BY <1>1, <1>2
<1>4. CASE reader.floor = 0 \/ m = MaximumRecords
  BY <1>1, <1>2, <1>3, <1>4
<1>5. CASE reader.floor # 0 /\ m # MaximumRecords
  <2>1. Ends(appended)[reader.floor] <= size
    BY <1>2, <1>5
  <2>2. size >= FileHeaderSize
    <3>1. /\ Ends(appended)[0] <= Ends(appended)[reader.floor] /\ Ends(appended)[0] = FileHeaderSize
          /\ Ends(appended)[reader.floor] \in Nat
      <4>1. 0 <= reader.floor
        BY <1>2
      <4> QED BY <1>1, <1>3, <4>1, EndsOrdered, EndsFacts
    <3> QED BY <1>1, <2>1, <3>1
  <2>3. m < Len(appended) => size < Ends(appended)[m + 1]
    <3>1. ASSUME m < Len(appended), Ends(appended)[m] = size PROVE size < Ends(appended)[m + 1]
      <4>1. m + 1 \in 0 .. Len(appended) /\ m < m + 1
        BY <1>3, <3>1
      <4> QED BY <1>1, <3>1, <4>1, EndsGrow
    <3> QED BY <1>1, <1>5, <2>2, <3>1
  <2>4. reader.floor <= m
    BY <1>1, <1>3, <2>1, <2>3, EndsTell
  <2> QED BY <1>1, <1>2, <1>3, <2>4
<1> QED BY <1>4, <1>5

LEMMA RecoversFollows == LogInv => RecoverRefusals
<1> SUFFICES ASSUME LogInv, recovery = "refused", ~damaged, ~(Len(disk) < FileHeaderSize)
             PROVE  Cardinality(Whole(Len(disk))) >= MaximumRecords /\ Len(disk) > End[MaximumRecords]
  BY DEF RecoverRefusals
<1>1. MaximumRecords <= Len(appended) /\ Ends(appended)[MaximumRecords] < Len(disk)
  BY DEF LogInv, RecoveryInv
<1>2. /\ appended \in Seq(Events) /\ Len(appended) \in Nat /\ Len(disk) \in Nat
      /\ FileHeaderSize \in Nat /\ MaximumRecords \in 0 .. Len(appended) /\ MaximumRecords \in Nat
  BY <1>1, LayoutAssumption, LimitsAssumption DEF LogInv, WriterType
<1>3. Len(disk) >= FileHeaderSize
  BY <1>2
<1>4. PICK w \in 0 .. Len(appended) :
          /\ Ends(appended)[w] <= Len(disk)
          /\ w < Len(appended) => Len(disk) < Ends(appended)[w + 1]
          /\ Cardinality(Whole(Len(disk))) = w
  BY <1>2, <1>3, WholeCount
<1>5. Ends(appended)[MaximumRecords] \in Nat
  BY <1>2, EndsFacts
<1>6. MaximumRecords <= w
  BY <1>1, <1>2, <1>4, <1>5, EndsTell
<1> QED BY <1>1, <1>2, <1>4, <1>5, <1>6, EndIsEnds

\* Only recover makes the file shorter.
LEMMA OnlyTruncateShortens ==
    ASSUME LogInv, [Next]_vars, Len(disk') < Len(disk)
    PROVE  /\ reader.phase = "done" /\ reader.recovers /\ Recoverable
           /\ disk' = [k \in 1 .. reader.valid_bytes |-> IF k <= Len(disk) THEN disk[k] ELSE Zero]
<1>1. Len(disk) \in Nat /\ disk \in Seq(Bytes) /\ disk' # disk
  BY DEF LogInv, WriterType
<1>2. ~WriterStep
  <2>1. ASSUME WriterStep PROVE FALSE
    <3>1. Len(disk) <= Len(disk') /\ disk' \in Seq(Bytes)
      BY <2>1, WriterSteps DEF LogInv, WriterMoves, Grown, WriterType
    <3>2. Len(disk') \in Nat
      BY <3>1
    <3> QED BY <1>1, <3>1, <3>2
  <2> QED BY <2>1
<1>3. ~(\E k \in 1 .. Len(disk) : Rot(k))
  <2>1. ASSUME NEW k \in 1 .. Len(disk), Rot(k) PROVE FALSE
    <3>1. Len(disk') = Len(disk)
      BY <2>1, RotBytes DEF LogInv
    <3> QED BY <1>1, <3>1
  <2> QED BY <2>1
<1>4. ~(\E recovers \in BOOLEAN : StartRead(recovers)) /\ ~ReadRecord /\ ~EndRead /\ ~LeaveAlone
  BY <1>1 DEF StartRead, ReadRecord, EndRead, LeaveAlone
<1>5. ~(UNCHANGED vars) /\ ~OpenExisting
  BY <1>1, OpenExistingStep DEF vars
<1>6. Truncate
  BY <1>2, <1>3, <1>4, <1>5 DEF Next, WriterStep
<1> QED BY <1>1, <1>6 DEF Truncate

LEMMA KeptStep ==
    ASSUME LogInv, [Next]_vars, Len(disk') < Len(disk)
    PROVE  /\ Whole(Len(disk')) = Whole(Len(disk))
           /\ \E i \in 0 .. Len(appended) :
                Len(disk') = End[i] /\ (damaged = reader.rotten => disk' = Image[i])
<1> DEFINE m == Len(reader.index)
<1>1. /\ reader.phase = "done" /\ reader.recovers /\ Recoverable
      /\ disk' = [k \in 1 .. reader.valid_bytes |-> IF k <= Len(disk) THEN disk[k] ELSE Zero]
  BY OnlyTruncateShortens
<1>2. /\ m \in 0 .. Len(appended)
      /\ disk' \in Seq(Bytes) /\ Len(disk') = Ends(appended)[m] /\ Len(disk') < Len(disk)
      /\ m < Len(appended) => Len(disk) < Ends(appended)[m + 1]
      /\ damaged = reader.rotten =>
           \A k \in 1 .. Len(disk') : disk'[k] = Images(appended)[Len(appended)][k]
  BY <1>1, TruncatedFile
<1>3. /\ appended \in Seq(Events) /\ Len(appended) \in Nat /\ disk \in Seq(Bytes)
      /\ Len(disk) \in Nat /\ Len(disk') \in Nat /\ m \in Nat
  <2>1. appended \in Seq(Events) /\ disk \in Seq(Bytes)
    BY DEF LogInv, WriterType
  <2> QED BY <1>2, <2>1
<1> HIDE DEF m
<1>4. Whole(Len(disk)) = 1 .. m
  <2>1. Ends(appended)[m] <= Len(disk)
    BY <1>2, <1>3
  <2> QED BY <1>2, <1>3, <2>1, WholeUpTo
<1>5. Whole(Len(disk')) = 1 .. m
  <2>1. Ends(appended)[m] <= Len(disk')
    BY <1>2, <1>3
  <2>2. m < Len(appended) => Len(disk') < Ends(appended)[m + 1]
    <3>1. m < Len(appended) => m + 1 \in 0 .. Len(appended) /\ m < m + 1
      BY <1>2, <1>3
    <3> QED BY <1>2, <1>3, <3>1, EndsGrow
  <2> QED BY <1>2, <1>3, <2>1, <2>2, WholeUpTo
<1>6. ASSUME damaged = reader.rotten PROVE disk' = Images(appended)[m]
  <2> DEFINE image == Images(appended)[m]
  <2>1. image \in Seq(Bytes) /\ Len(image) = Ends(appended)[m]
    BY <1>2, <1>3, ImagesFacts
  <2>2. Len(appended) \in 0 .. Len(appended) /\ m <= Len(appended)
    BY <1>2, <1>3
  <2>3. \A k \in 1 .. Ends(appended)[m] : Images(appended)[Len(appended)][k] = image[k]
    BY <1>2, <1>3, <2>2, ImagesPrefix
  <2>4. \A k \in 1 .. Len(disk') : disk'[k] = image[k]
    BY <1>2, <1>6, <2>3
  <2> HIDE DEF image
  <2>5. disk' = image
    BY <1>2, <2>1, <2>4
  <2> QED BY <2>5 DEF image
<1> QED BY <1>2, <1>4, <1>5, <1>6, EndIsEnds, ImageIsImages

-----------------------------------------------------------------------------
(* The theorems.  recover is assumed to run only after the collector has  *)
(* ended: on a live recording it can cut away a record that is still being *)
(* written (the run RecordingLog_live).                                    *)

\* The counters and the stream position of LogWriter agree with the bytes it
\* produced, whatever fails, drains or crashes.
THEOREM LogTypes ==
    ASSUME RecoverLive = FALSE
    PROVE  Spec => []TypeOK
BY LogInvariant, TypesFollow, PTL

\* read_log exposes only records that were appended, in their places and with
\* their events, also on a damaged file and beside a live writer.
THEOREM ExposesOnlyAppended ==
    ASSUME RecoverLive = FALSE
    PROVE  Spec => []NeverWrongRecord
<1>1. LogInv => NeverWrongRecord
  BY DEF LogInv, ReaderInv
<1> QED BY <1>1, LogInvariant, PTL

\* read_log of an undamaged file returns exactly the records that lie wholly
\* in the bytes it saw, and the status that says so, wherever the file is cut.
THEOREM ReadsInterrupted ==
    ASSUME RecoverLive = FALSE
    PROVE  Spec => []ReadsExactly
BY LogInvariant, ReadsExactlyFollows, PTL

\* A record flushed by append or flush is returned by every later read_log of
\* the undamaged file, whatever became of the collector.
THEOREM FlushedNeverLost ==
    ASSUME RecoverLive = FALSE
    PROVE  Spec => []FlushedSurvive
BY LogInvariant, FlushedSurviveFollows, PTL

\* recover_truncated_tail refuses only a damaged file, a file without a whole
\* header, or one that goes on behind the record limit.
THEOREM RefusesOnlyDamage ==
    ASSUME RecoverLive = FALSE
    PROVE  Spec => []RecoverRefusals
BY LogInvariant, RecoversFollows, PTL

\* No step makes the file lose a completed record, and what recover leaves is
\* a flawless recording.
THEOREM NoRecordLost ==
    ASSUME RecoverLive = FALSE
    PROVE  Spec => CompletedRecordsKept
<1> DEFINE Kept == Len(disk') < Len(disk) =>
             /\ Whole(Len(disk')) = Whole(Len(disk))
             /\ \E i \in 0 .. Len(appended) :
                  Len(disk') = End[i] /\ (damaged = reader.rotten => disk' = Image[i])
<1>1. LogInv /\ [Next]_vars => [Kept]_vars
  BY KeptStep
<1> QED BY <1>1, LogInvariant, PTL DEF Spec, CompletedRecordsKept
=============================================================================
