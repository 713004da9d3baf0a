---------------------------- MODULE StdioDemuxProofs ----------------------------
(***************************************************************************)
(* The loop of processDockerStream gives whole frames: for any frames, any *)
(* number of them, and any chunk of the stream they make.                  *)
(***************************************************************************)
EXTENDS StdioDemux, MessageProxyProofs, RecursionLemmas, FiniteSetTheorems

-----------------------------------------------------------------------------
(* Frames on the stream *)

Lines == {Answer(c) : c \in Calls} \cup {Fragment}
Units == Lines \cup {Header(n) : n \in Nat}
Frames == {frame \in SUBSET Calls : IsFiniteSet(frame)}

LEMMA SetToSeqIsSequence ==
  ASSUME NEW S, IsFiniteSet(S)
  PROVE  /\ SetToSeq(S) \in Seq(S)
         /\ Len(SetToSeq(S)) = Cardinality(S)
         /\ \A x \in S : \E i \in 1 .. Cardinality(S) : SetToSeq(S)[i] = x
<1> DEFINE n == Cardinality(S)
           q == SetToSeq(S)
<1>1. n \in Nat /\ Bijection(1 .. n, S) # {}
  BY FS_CardinalityType DEF ExistsBijection
<1>2. \E f \in [1 .. n -> S] : IsInjective(f)
  BY <1>1 DEF Bijection, Injection
<1>3. q \in [1 .. n -> S] /\ IsInjective(q)
  BY <1>2 DEF SetToSeq
<1> HIDE DEF q
<1>4. q \in Injection(1 .. n, S)
  BY <1>3 DEF Injection
<1>5. IsFiniteSet(1 .. n) /\ Cardinality(1 .. n) = n
  <2>1. 1 \in Int /\ n \in Int
    BY <1>1
  <2>2. /\ IsFiniteSet(1 .. n)
        /\ Cardinality(1 .. n) = IF 1 > n THEN 0 ELSE n - 1 + 1
    BY <2>1, FS_Interval
  <2> QED
    BY <1>1, <2>2
<1>6. q \in Surjection(1 .. n, S)
  BY <1>4, <1>5, FS_Injection
<1>7. q \in Seq(S) /\ Len(q) = n
  BY <1>1, <1>3
<1> QED
  BY <1>6, <1>7 DEF Surjection, q

LEMMA UnitsDiffer ==
  /\ \A c, d : Answer(c) = Answer(d) => c = d
  /\ \A c : Answer(c) # Fragment
  /\ \A u \in Lines : u.kind # "header"
  /\ \A n : Header(n).kind = "header" /\ Header(n).size = n
<1>1. \A c : Answer(c).kind = "answer" /\ Answer(c).call = c
  BY DEF Answer
<1>2. Fragment.kind = "other"
  BY DEF Fragment
<1>3. \A n : Header(n).kind = "header" /\ Header(n).size = n
  BY DEF Header
<1>4. \A u \in Lines : u.kind # "header"
  BY <1>1, <1>2 DEF Lines
<1>5. \A c, d : Answer(c) = Answer(d) => c = d
  BY <1>1
<1>6. \A c : Answer(c) # Fragment
  BY <1>1, <1>2
<1> QED
  BY <1>3, <1>4, <1>5, <1>6

\* A payload has lines, none of which reads as a header, and the messages of the frame.
LEMMA PayloadFacts ==
  ASSUME NEW frame \in Frames
  PROVE  /\ Payload(frame) \in Seq(Lines)
         /\ Len(Payload(frame)) >= 1
         /\ Messages(Payload(frame)) = frame
<1> DEFINE p == Payload(frame)
<1>1. CASE frame = {}
  <2>1. p = <<Fragment>>
    BY <1>1 DEF Payload
  <2>2. p \in Seq(Lines) /\ Len(p) = 1 /\ p[1] = Fragment
    BY <2>1 DEF Lines
  <2> HIDE DEF p
  <2>3. Messages(p) = {}
    BY <2>2, UnitsDiffer DEF Messages
  <2> QED
    BY <1>1, <2>2, <2>3 DEF p
<1>2. CASE frame # {}
  <2> DEFINE A == {Answer(c) : c \in frame}
             f == [c \in frame |-> Answer(c)]
  <2>1. f \in Surjection(frame, A)
    BY DEF Surjection
  <2>2. IsFiniteSet(frame) /\ frame \subseteq Calls
    BY DEF Frames
  <2>3. IsFiniteSet(A)
    <3> HIDE DEF A, f
    <3> QED
      BY <2>1, <2>2, FS_Surjection
  <2>4. p = SetToSeq(A)
    BY <1>2 DEF Payload
  <2>5. A \subseteq Lines /\ A # {}
    BY <1>2, <2>2 DEF Lines
  <2>6. Cardinality(A) \in Nat /\ Cardinality(A) # 0
    <3> HIDE DEF A
    <3> QED
      BY <2>3, <2>5, FS_EmptySet, FS_CardinalityType
  <2> HIDE DEF p, A
  <2>7. /\ p \in Seq(A) /\ Len(p) = Cardinality(A)
        /\ \A x \in A : \E i \in 1 .. Cardinality(A) : p[i] = x
    BY <2>3, <2>4, SetToSeqIsSequence
  <2>8. p \in Seq(Lines) /\ Len(p) >= 1
    BY <2>5, <2>6, <2>7
  <2>9. Messages(p) = frame
    <3>1. ASSUME NEW c \in frame PROVE c \in Messages(p)
      <4>1. Answer(c) \in A
        BY DEF A
      <4> QED
        BY <2>2, <2>7, <4>1 DEF Messages
    <3>2. ASSUME NEW c \in Messages(p) PROVE c \in frame
      <4>1. PICK i \in 1 .. Len(p) : p[i] = Answer(c)
        BY DEF Messages
      <4>2. p[i] \in A
        BY <2>7
      <4> QED
        BY <4>1, <4>2, UnitsDiffer DEF A
    <3> QED
      BY <3>1, <3>2
  <2> QED
    BY <2>8, <2>9 DEF p
<1> QED
  BY <1>1, <1>2

\* The length of a frame on the stream.
Size(frame) == Len(Payload(frame)) + 1

LEMMA EncodedFacts ==
  ASSUME NEW frame \in Frames
  PROVE  /\ Encoded(frame) \in Seq(Units)
         /\ Len(Encoded(frame)) = Size(frame)
         /\ Size(frame) \in Nat /\ Size(frame) >= 2
         /\ Encoded(frame)[1] = Header(Len(Payload(frame)))
         /\ \A k \in 1 .. Len(Payload(frame)) : Encoded(frame)[k + 1] = Payload(frame)[k]
<1> DEFINE p == Payload(frame)
           h == <<Header(Len(p))>>
<1>1. p \in Seq(Lines) /\ Len(p) >= 1 /\ Len(p) \in Nat
  BY PayloadFacts
<1> HIDE DEF p
<1>2. p \in Seq(Units)
  BY <1>1 DEF Units
<1>3. h \in Seq(Units) /\ Len(h) = 1 /\ h[1] = Header(Len(p))
  BY <1>1 DEF Units
<1> HIDE DEF h
<1> DEFINE e == h \o p
<1>4. /\ e \in Seq(Units) /\ Len(e) = Len(h) + Len(p)
      /\ \A i \in 1 .. Len(h) + Len(p) :
           e[i] = IF i <= Len(h) THEN h[i] ELSE p[i - Len(h)]
  BY <1>2, <1>3, ConcatProperties, Zenon
<1>5. Encoded(frame) = e
  BY DEF Encoded, h, p
<1> HIDE DEF e
<1>6. e[1] = h[1]
  BY <1>1, <1>3, <1>4
<1>7. ASSUME NEW k \in 1 .. Len(p) PROVE e[k + 1] = p[k]
  <2>1. k + 1 \in 1 .. Len(h) + Len(p) /\ ~(k + 1 <= Len(h)) /\ k + 1 - Len(h) = k
    BY <1>1, <1>3
  <2> QED
    BY <1>4, <2>1
<1> QED
  BY <1>1, <1>3, <1>4, <1>5, <1>6, <1>7 DEF Size, p

-----------------------------------------------------------------------------
(* The layout of the stream *)

\* The units of the first m frames.
Part(frames, m) == Stream(SubSeq(frames, 1, m))

LEMMA PartStep ==
  ASSUME NEW frames \in Seq(Frames), NEW m \in Nat, m < Len(frames)
  PROVE  /\ Part(frames, 0) = <<>>
         /\ Part(frames, m) \in Seq(Units)
         /\ Part(frames, m + 1) = Part(frames, m) \o Encoded(frames[m + 1])
<1> DEFINE seqs == [i \in 1 .. Len(frames) |-> Encoded(frames[i])]
<1>1. seqs \in Seq(Seq(Units)) /\ Len(seqs) = Len(frames)
  <2>1. \A i \in 1 .. Len(frames) : Encoded(frames[i]) \in Seq(Units)
    BY EncodedFacts
  <2> QED
    BY <2>1
<1>2. ASSUME NEW n \in 0 .. Len(frames) PROVE Part(frames, n) = FlattenSeq(SubSeq(seqs, 1, n))
  <2> DEFINE q == SubSeq(frames, 1, n)
             e == [i \in 1 .. Len(q) |-> Encoded(q[i])]
  <2>1. Len(q) = n /\ \A i \in 1 .. n : q[i] = frames[i]
    OBVIOUS
  <2>2. SubSeq(seqs, 1, n) = [i \in 1 .. n |-> Encoded(frames[i])]
    <3>1. n \in Nat /\ n <= Len(frames) /\ Len(frames) \in Nat
      OBVIOUS
    <3>2. \A i \in 1 .. n : i \in 1 .. Len(frames)
      BY <3>1
    <3>3. SubSeq(seqs, 1, n) = [i \in 1 .. n |-> seqs[i]]
      <4> HIDE DEF seqs
      <4> QED
        BY <1>1, <3>1, <3>2
    <3> QED
      BY <3>2, <3>3
  <2>3. e = [i \in 1 .. n |-> Encoded(frames[i])]
    <3> HIDE DEF q
    <3> QED
      BY <2>1
  <2> QED
    BY <2>2, <2>3, Zenon DEF Part, Stream
<1> HIDE DEF seqs
<1>3. /\ FlattenSeq(SubSeq(seqs, 1, 0)) = <<>>
      /\ FlattenSeq(SubSeq(seqs, 1, m)) \in Seq(Units)
      /\ FlattenSeq(SubSeq(seqs, 1, m + 1)) = FlattenSeq(SubSeq(seqs, 1, m)) \o seqs[m + 1]
  <2>1. m < Len(seqs)
    BY <1>1
  <2> QED
    BY <1>1, <2>1, FlattenStep, Zenon
<1>4. seqs[m + 1] = Encoded(frames[m + 1])
  BY DEF seqs
<1>5. 0 \in 0 .. Len(frames) /\ m \in 0 .. Len(frames) /\ m + 1 \in 0 .. Len(frames)
  OBVIOUS
<1> QED
  BY <1>2, <1>3, <1>4, <1>5, Zenon

\* Frame m + 1 lies on the stream where it begins.
Lies(stream, b, frame) ==
  /\ b + Size(frame) <= Len(stream)
  /\ stream[b + 1] = Header(Len(Payload(frame)))
  /\ \A k \in 1 .. Len(Payload(frame)) : stream[b + 1 + k] = Payload(frame)[k]

LEMMA LiesAtEnd ==
  ASSUME NEW s \in Seq(Units), NEW frame \in Frames
  PROVE  Lies(s \o Encoded(frame), Len(s), frame)
<1> DEFINE e == Encoded(frame)
           r == s \o e
<1>1. /\ e \in Seq(Units) /\ Len(e) = Size(frame) /\ Size(frame) \in Nat /\ Size(frame) >= 2
      /\ e[1] = Header(Len(Payload(frame)))
      /\ \A k \in 1 .. Len(Payload(frame)) : e[k + 1] = Payload(frame)[k]
      /\ Len(Payload(frame)) \in Nat /\ Size(frame) = Len(Payload(frame)) + 1
  BY EncodedFacts, PayloadFacts DEF Size
<1> HIDE DEF e
<1>2. /\ r \in Seq(Units) /\ Len(r) = Len(s) + Len(e)
      /\ \A i \in 1 .. Len(s) + Len(e) : r[i] = IF i <= Len(s) THEN s[i] ELSE e[i - Len(s)]
  BY <1>1, ConcatProperties, Zenon
<1> HIDE DEF r
<1>3. Len(s) \in Nat
  OBVIOUS
<1>4. r[Len(s) + 1] = e[1]
  BY <1>1, <1>2, <1>3
<1>5. ASSUME NEW k \in 1 .. Len(Payload(frame)) PROVE r[Len(s) + 1 + k] = Payload(frame)[k]
  <2> DEFINE i == Len(s) + 1 + k
  <2>1. i \in 1 .. Len(s) + Len(e) /\ ~(i <= Len(s)) /\ i - Len(s) = k + 1
    BY <1>1, <1>3
  <2> HIDE DEF i
  <2>2. r[i] = e[k + 1]
    BY <1>2, <2>1
  <2> QED
    BY <1>1, <2>2 DEF i
<1>6. Lies(r, Len(s), frame)
  BY <1>1, <1>2, <1>3, <1>4, <1>5 DEF Lies
<1> QED
  BY <1>6 DEF r, e

LEMMA LiesLonger ==
  ASSUME NEW s \in Seq(Units), NEW e \in Seq(Units), NEW b \in Nat, NEW frame \in Frames,
         Lies(s, b, frame)
  PROVE  Lies(s \o e, b, frame)
<1> DEFINE r == s \o e
<1>1. /\ r \in Seq(Units) /\ Len(r) = Len(s) + Len(e)
      /\ \A i \in 1 .. Len(s) + Len(e) : r[i] = IF i <= Len(s) THEN s[i] ELSE e[i - Len(s)]
  BY ConcatProperties, Zenon
<1>2. Len(s) \in Nat /\ Len(e) \in Nat
  OBVIOUS
<1>3. Len(Payload(frame)) \in Nat /\ Size(frame) = Len(Payload(frame)) + 1
  BY PayloadFacts DEF Size
<1> HIDE DEF r
<1>4. ASSUME NEW i \in 1 .. Len(s) PROVE r[i] = s[i]
  BY <1>1, <1>2
<1>5. b + 1 \in 1 .. Len(s) /\ \A k \in 1 .. Len(Payload(frame)) : b + 1 + k \in 1 .. Len(s)
  BY <1>2, <1>3 DEF Lies
<1> QED
  BY <1>1, <1>2, <1>3, <1>4, <1>5 DEF Lies, r

\* The units before frame j + 1, for j from 0 on.
Borders(frames) == [j \in 0 .. Len(frames) |-> Len(Part(frames, j))]

\* Frames lie on the stream one after the other, with nothing in between.
Laid(stream, b, frames) ==
  /\ stream \in Seq(Units)
  /\ b \in [0 .. Len(frames) -> Nat]
  /\ b[Len(frames)] = Len(stream)
  /\ \A j \in 0 .. Len(frames) - 1 :
       b[j + 1] = b[j] + Size(frames[j + 1]) /\ Lies(stream, b[j], frames[j + 1])
  /\ \A p \in 1 .. Len(stream) : \E j \in 0 .. Len(frames) - 1 :
       b[j] < p /\ p <= b[j] + Size(frames[j + 1])

LEMMA StreamIsLaid ==
  ASSUME NEW frames \in Seq(Frames)
  PROVE  Laid(Stream(frames), Borders(frames), frames)
<1> DEFINE n == Len(frames)
           P(m) == Part(frames, m)
           Lain(m) == \A j \in 0 .. m - 1 : Lies(P(m), Len(P(j)), frames[j + 1])
           Covers(m) == \A p \in 1 .. Len(P(m)) : \E j \in 0 .. m - 1 :
                          Len(P(j)) < p /\ p <= Len(P(j)) + Size(frames[j + 1])
           Good(m) == P(m) \in Seq(Units) /\ Lain(m) /\ Covers(m)
           T == {m \in Nat : m <= n => \A k \in 0 .. m : Good(k)}
<1>0. n \in Nat /\ P(0) = <<>>
  <2>1. SubSeq(frames, 1, 0) = <<>>
    OBVIOUS
  <2>2. P(0) = FlattenSeq([i \in 1 .. 0 |-> Encoded(<<>>[i])])
    BY <2>1 DEF Part, Stream
  <2>3. [i \in 1 .. 0 |-> Encoded(<<>>[i])] = <<>>
    OBVIOUS
  <2>4. FlattenSeq(<<>>) = <<>>
    BY DEF FlattenSeq
  <2> QED
    BY <2>2, <2>3, <2>4
<1>1. 0 \in T
  <2>1. P(0) \in Seq(Units) /\ Len(P(0)) = 0
    <3>1. <<>> \in Seq(Units) /\ Len(<<>>) = 0
      OBVIOUS
    <3> HIDE DEF P
    <3> QED
      BY <1>0, <3>1
  <2>2. Good(0)
    BY <2>1
  <2> HIDE DEF Good
  <2> QED
    BY <2>2
<1>2. ASSUME NEW m \in T PROVE m + 1 \in T
  <2> SUFFICES ASSUME m + 1 <= n PROVE \A k \in 0 .. m + 1 : Good(k)
    OBVIOUS
  <2>1. \A k \in 0 .. m : Good(k)
    OBVIOUS
  <2>2. m < n /\ m \in Nat /\ frames[m + 1] \in Frames
    OBVIOUS
  <2> DEFINE e == Encoded(frames[m + 1])
  <2>3. P(m + 1) = P(m) \o e
    BY <2>2, PartStep, Zenon
  <2>4. /\ P(m) \in Seq(Units) /\ e \in Seq(Units) /\ Len(e) = Size(frames[m + 1])
        /\ Len(P(m)) \in Nat /\ Size(frames[m + 1]) \in Nat
    <3>1. P(m) \in Seq(Units)
      BY <2>1, <2>2
    <3>2. e \in Seq(Units) /\ Len(e) = Size(frames[m + 1]) /\ Size(frames[m + 1]) \in Nat
      BY <2>2, EncodedFacts
    <3> HIDE DEF P
    <3> QED
      BY <3>1, <3>2
  <2>5. P(m + 1) \in Seq(Units) /\ Len(P(m + 1)) = Len(P(m)) + Size(frames[m + 1])
    <3>1. P(m) \o e \in Seq(Units) /\ Len(P(m) \o e) = Len(P(m)) + Len(e)
      <4> HIDE DEF P, e
      <4> QED
        BY <2>4, ConcatProperties, Zenon
    <3> HIDE DEF P, e
    <3> QED
      BY <2>3, <2>4, <3>1
  <2>6. ASSUME NEW j \in 0 .. m PROVE Lies(P(m + 1), Len(P(j)), frames[j + 1])
    <3>1. CASE j = m
      BY <2>2, <2>3, <2>4, <3>1, LiesAtEnd, Zenon
    <3>2. CASE j # m
      <4>1. j \in 0 .. m - 1 /\ j \in 0 .. m /\ m \in 0 .. m /\ frames[j + 1] \in Frames
        BY <2>2, <3>2
      <4>2. Lies(P(m), Len(P(j)), frames[j + 1])
        BY <2>1, <4>1
      <4>3. Len(P(j)) \in Nat
        <5>1. P(j) \in Seq(Units)
          BY <2>1, <4>1
        <5> HIDE DEF P
        <5> QED
          BY <5>1
      <4> QED
        BY <2>3, <2>4, <4>1, <4>2, <4>3, LiesLonger, Zenon
    <3> QED
      BY <3>1, <3>2
  <2>7. ASSUME NEW p \in 1 .. Len(P(m + 1))
        PROVE  \E j \in 0 .. m : Len(P(j)) < p /\ p <= Len(P(j)) + Size(frames[j + 1])
    <3>1. CASE p <= Len(P(m))
      <4>1. Covers(m) /\ p \in 1 .. Len(P(m))
        BY <2>1, <2>2, <2>4, <2>5, <3>1
      <4>2. PICK j \in 0 .. m - 1 : Len(P(j)) < p /\ p <= Len(P(j)) + Size(frames[j + 1])
        BY <4>1
      <4>3. j \in 0 .. m
        BY <2>2
      <4> HIDE DEF P
      <4> QED
        BY <4>2, <4>3
    <3>2. CASE ~(p <= Len(P(m)))
      <4> HIDE DEF P
      <4>1. m \in 0 .. m /\ Len(P(m)) < p /\ p <= Len(P(m)) + Size(frames[m + 1])
        BY <2>2, <2>4, <2>5, <3>2
      <4> QED
        BY <4>1
    <3> QED
      BY <3>1, <3>2
  <2>8. m + 1 - 1 = m
    BY <2>2
  <2>9. Good(m + 1)
    <3> HIDE DEF P
    <3> QED
      BY <2>5, <2>6, <2>7, <2>8
  <2> HIDE DEF Good
  <2>10. \A k \in 0 .. m + 1 : k \in 0 .. m \/ k = m + 1
    BY <2>2
  <2> QED
    BY <2>1, <2>9, <2>10
<1> HIDE DEF T
<1>3. T = Nat
  BY <1>1, <1>2, Induction DEF T
<1> DEFINE b == Borders(frames)
<1>4. \A k \in 0 .. n : Good(k) /\ b[k] = Len(P(k))
  <2> HIDE DEF Good
  <2> QED
    BY <1>0, <1>3 DEF T, Borders
<1>5. Stream(frames) = P(n) /\ n \in 0 .. n
  <2>1. SubSeq(frames, 1, n) = frames
    BY SubSeqFull, Zenon
  <2>2. n \in 0 .. n
    BY <1>0
  <2> QED
    BY <2>1, <2>2, Zenon DEF Part
<1>6. \A k \in 0 .. n : P(k) \in Seq(Units) /\ Len(P(k)) \in Nat
  <2>1. \A k \in 0 .. n : P(k) \in Seq(Units)
    BY <1>4
  <2> HIDE DEF P
  <2> QED
    BY <2>1
<1>7. b \in [0 .. n -> Nat]
  BY <1>6 DEF Borders
<1>8. ASSUME NEW j \in 0 .. n - 1
      PROVE  b[j + 1] = b[j] + Size(frames[j + 1]) /\ Lies(Stream(frames), b[j], frames[j + 1])
  <2>1. j \in Nat /\ j < n /\ j \in 0 .. n /\ j + 1 \in 0 .. n /\ frames[j + 1] \in Frames
    BY <1>0
  <2>2. P(j + 1) = P(j) \o Encoded(frames[j + 1])
    BY <2>1, PartStep, Zenon
  <2>3. Len(P(j + 1)) = Len(P(j)) + Size(frames[j + 1])
    <3>1. /\ Encoded(frames[j + 1]) \in Seq(Units)
          /\ Len(Encoded(frames[j + 1])) = Size(frames[j + 1])
      BY <2>1, EncodedFacts
    <3>2. P(j) \in Seq(Units)
      BY <1>6, <2>1
    <3> HIDE DEF P
    <3> QED
      BY <2>2, <3>1, <3>2, ConcatProperties
  <2>4. Lies(P(n), Len(P(j)), frames[j + 1])
    BY <1>4, <1>5
  <2> HIDE DEF b, P
  <2> QED
    BY <1>4, <1>5, <2>1, <2>3, <2>4
<1>9. ASSUME NEW p \in 1 .. Len(Stream(frames))
      PROVE  \E j \in 0 .. n - 1 : b[j] < p /\ p <= b[j] + Size(frames[j + 1])
  <2>1. Covers(n)
    BY <1>4, <1>5
  <2>2. PICK j \in 0 .. n - 1 : Len(P(j)) < p /\ p <= Len(P(j)) + Size(frames[j + 1])
    BY <1>5, <2>1
  <2>3. b[j] = Len(P(j))
    BY <1>0, <1>4
  <2> HIDE DEF b, P
  <2> QED
    BY <2>2, <2>3
<1> HIDE DEF P, b
<1> QED
  BY <1>4, <1>5, <1>6, <1>7, <1>8, <1>9 DEF Laid, b

-----------------------------------------------------------------------------
(* The loop *)

Loops == [offset : Nat, given : Seq(SUBSET Calls)]

\* An iteration leaves a state of the loop.
LEMMA IterationTyping ==
  ASSUME NEW chunk \in Seq(Units), NEW loop \in Loops
  PROVE  Iteration(chunk, loop) \in Loops
<1> DEFINE start == loop.offset + 1
           end == start + chunk[start].size
           given == Append(loop.given, Messages(SubSeq(chunk, start + 1, end)))
<1>1. CASE start > Len(chunk) \/ chunk[start].kind # "header" \/ end > Len(chunk)
  BY <1>1 DEF Iteration
<1>2. CASE ~(start > Len(chunk) \/ chunk[start].kind # "header" \/ end > Len(chunk))
  <2>1. start \in Nat /\ start \in 1 .. Len(chunk)
    BY <1>2 DEF Loops
  <2>2. chunk[start] \in Units
    BY <2>1
  <2>3. chunk[start].size \in Nat
    BY <1>2, <2>2, UnitsDiffer DEF Units
  <2>4. end \in Nat
    BY <2>1, <2>3
  <2>5. given \in Seq(SUBSET Calls)
    BY DEF Messages, Loops
  <2>6. Iteration(chunk, loop) = [offset |-> end, given |-> given]
    BY <1>2, Zenon DEF Iteration
  <2> HIDE DEF start, end, given
  <2> QED
    BY <2>4, <2>5, <2>6 DEF Loops
<1> QED
  BY <1>1, <1>2

LEMMA IterationsFollow ==
  ASSUME NEW chunk \in Seq(Units)
  PROVE  /\ Iterations(chunk)[0] = [offset |-> 0, given |-> <<>>]
         /\ \A k \in 0 .. Len(chunk) - 1 :
              Iterations(chunk)[k + 1] = Iteration(chunk, Iterations(chunk)[k])
<1> DEFINE D == 0 .. Len(chunk)
           zero == [offset |-> 0, given |-> <<>>]
           F == [g \in [D -> Loops] |->
                   [k \in D |-> IF k = 0 THEN zero ELSE Iteration(chunk, g[k - 1])]]
<1>0. zero \in Loops
  BY DEF Loops
<1>1. F \in [[D -> Loops] -> [D -> Loops]]
  <2>1. ASSUME NEW g \in [D -> Loops], NEW k \in D
        PROVE  (IF k = 0 THEN zero ELSE Iteration(chunk, g[k - 1])) \in Loops
    <3>1. CASE k # 0
      <4>1. k - 1 \in D
        BY <3>1
      <4> HIDE DEF D
      <4>2. g[k - 1] \in Loops
        BY <4>1
      <4> QED
        BY <3>1, <4>2, IterationTyping
    <3> QED
      BY <1>0, <3>1
  <2> HIDE DEF D, zero
  <2> QED
    BY <2>1
<1>2. Contractive(F, D, Loops)
  <2> SUFFICES ASSUME NEW g \in [D -> Loops], NEW h \in [D -> Loops], NEW n \in D,
                      \A m \in D : m < n => g[m] = h[m]
               PROVE  F[g][n] = F[h][n]
    BY Zenon DEF Contractive
  <2>1. n # 0 => g[n - 1] = h[n - 1]
    OBVIOUS
  <2> HIDE DEF D, zero
  <2> QED
    BY <2>1
<1>3. D \in SUBSET Nat /\ Loops # {}
  BY <1>0
<1>4. HasSolution(F, D, Loops)
  <2> HIDE DEF F, D
  <2> QED
    BY <1>1, <1>2, <1>3, RecursiveFunction, Zenon
<1>5. \E f : f = [k \in D |-> IF k = 0 THEN zero ELSE Iteration(chunk, f[k - 1])]
  <2> HIDE DEF D, zero
  <2>1. PICK f \in [D -> Loops] : f = F[f]
    BY <1>4 DEF HasSolution, Solves
  <2> QED
    BY <2>1
<1> DEFINE I == Iterations(chunk)
<1>6. I = [k \in D |-> IF k = 0 THEN zero ELSE Iteration(chunk, I[k - 1])]
  BY <1>5, Zenon DEF Iterations
<1> HIDE DEF I
<1>7. 0 \in D
  OBVIOUS
<1>8. I[0] = zero
  BY <1>6, <1>7
<1>9. ASSUME NEW k \in 0 .. Len(chunk) - 1 PROVE I[k + 1] = Iteration(chunk, I[k])
  <2> DEFINE m == k + 1
  <2>1. m \in D /\ m # 0 /\ m - 1 = k
    OBVIOUS
  <2> HIDE DEF m, D, zero
  <2>2. I[m] = Iteration(chunk, I[k])
    BY <1>6, <2>1
  <2> QED
    BY <2>2 DEF m
<1> QED
  BY <1>8, <1>9 DEF I

\* A chunk that begins with a line stops the loop at once.
LEMMA TornChunkIsDropped ==
  ASSUME NEW chunk \in Seq(Units), Len(chunk) > 0 => chunk[1].kind # "header"
  PROVE  ProcessDockerStream(chunk) = <<>>
<1> DEFINE I == Iterations(chunk)
           zero == [offset |-> 0, given |-> <<>>]
           T == {k \in Nat : k <= Len(chunk) => I[k] = zero}
<1>0. /\ I[0] = zero
      /\ \A k \in 0 .. Len(chunk) - 1 : I[k + 1] = Iteration(chunk, I[k])
  BY IterationsFollow, Zenon
<1> HIDE DEF I
<1>1. 0 \in T
  BY <1>0
<1>2. ASSUME NEW k \in T PROVE k + 1 \in T
  <2> SUFFICES ASSUME k + 1 <= Len(chunk) PROVE I[k + 1] = zero
    OBVIOUS
  <2>1. k \in 0 .. Len(chunk) - 1 /\ Len(chunk) > 0 /\ I[k] = zero
    OBVIOUS
  <2>2. Iteration(chunk, zero) = zero
    BY <2>1 DEF Iteration
  <2> HIDE DEF T, zero
  <2> QED
    BY <1>0, <2>1, <2>2
<1> HIDE DEF T
<1>3. T = Nat
  BY <1>1, <1>2, Induction DEF T
<1>4. I[Len(chunk)] = zero
  <2>1. Len(chunk) \in Nat
    OBVIOUS
  <2> QED
    BY <1>3, <2>1 DEF T
<1> QED
  BY <1>4 DEF ProcessDockerStream, I

\* A chunk of the stream, unit by unit.
LEMMA ChunkUnits ==
  ASSUME NEW stream \in Seq(Units), NEW a \in Nat, NEW last \in Nat,
         a <= last, last <= Len(stream)
  PROVE  /\ SubSeq(stream, a + 1, last) \in Seq(Units)
         /\ Len(SubSeq(stream, a + 1, last)) = last - a
         /\ \A p \in 1 .. last - a : SubSeq(stream, a + 1, last)[p] = stream[a + p]
<1> DEFINE m == a + 1
           q == SubSeq(stream, m, last)
<1>0. m \in Nat /\ 1 <= m /\ last - m + 1 = last - a /\ Len(stream) \in Nat /\ m = a + 1
  OBVIOUS
<1> HIDE DEF m
<1>1. q = [p \in 1 .. last - m + 1 |-> stream[p + m - 1]]
  BY <1>0
<1>2. \A p \in 1 .. last - a : p + m - 1 = a + p /\ a + p \in 1 .. Len(stream)
  BY <1>0
<1>3. q = [p \in 1 .. last - a |-> stream[a + p]]
  BY <1>0, <1>1, <1>2
<1>4. \A p \in 1 .. last - a : stream[a + p] \in Units
  BY <1>2
<1>5. last - a \in Nat
  OBVIOUS
<1> HIDE DEF q
<1>6. q \in Seq(Units) /\ Len(q) = last - a /\ \A p \in 1 .. last - a : q[p] = stream[a + p]
  BY <1>3, <1>4, <1>5
<1> QED
  BY <1>6 DEF q, m

\* A frame that ends in a chunk lies in it.
LEMMA ChunkHasFrame ==
  ASSUME NEW stream \in Seq(Units), NEW a \in Nat, NEW last \in Nat,
         a <= last, last <= Len(stream),
         NEW c \in Nat, a <= c, NEW frame \in Frames,
         Lies(stream, c, frame), c + Size(frame) <= last
  PROVE  Lies(SubSeq(stream, a + 1, last), c - a, frame)
<1> DEFINE q == SubSeq(stream, a + 1, last)
<1>1. Len(q) = last - a /\ \A p \in 1 .. last - a : q[p] = stream[a + p]
  BY ChunkUnits, Zenon
<1> HIDE DEF q
<1>2. Len(Payload(frame)) \in Nat /\ Size(frame) = Len(Payload(frame)) + 1
  BY PayloadFacts DEF Size
<1>3. q[c - a + 1] = stream[c + 1]
  <2> DEFINE p == c - a + 1
  <2>1. p \in 1 .. last - a /\ a + p = c + 1
    BY <1>2
  <2> HIDE DEF p
  <2>2. q[p] = stream[c + 1]
    BY <1>1, <2>1
  <2> QED
    BY <2>2 DEF p
<1>4. ASSUME NEW k \in 1 .. Len(Payload(frame)) PROVE q[c - a + 1 + k] = stream[c + 1 + k]
  <2> DEFINE p == c - a + 1 + k
  <2>1. p \in 1 .. last - a /\ a + p = c + 1 + k
    BY <1>2
  <2> HIDE DEF p
  <2>2. q[p] = stream[c + 1 + k]
    BY <1>1, <2>1
  <2> QED
    BY <2>2 DEF p
<1>5. c - a + Size(frame) <= Len(q)
  BY <1>1, <1>2
<1>6. Lies(q, c - a, frame)
  BY <1>3, <1>4, <1>5 DEF Lies
<1> QED
  BY <1>6 DEF q

\* An iteration at a frame that lies in the chunk gives the frame.
LEMMA IterationGives ==
  ASSUME NEW chunk \in Seq(Units), NEW o \in Nat, NEW given, NEW frame \in Frames,
         Lies(chunk, o, frame)
  PROVE  Iteration(chunk, [offset |-> o, given |-> given])
           = [offset |-> o + Size(frame), given |-> Append(given, frame)]
<1> DEFINE p == Payload(frame)
           start == o + 1
           end == start + Len(p)
           loop == [offset |-> o, given |-> given]
           q == SubSeq(chunk, start + 1, end)
<1>1. /\ p \in Seq(Lines) /\ Len(p) \in Nat /\ Len(p) >= 1
      /\ Messages(p) = frame /\ Size(frame) = Len(p) + 1
  BY PayloadFacts DEF Size
<1>2. p \in Seq(Units)
  BY <1>1 DEF Units
<1>3. chunk[start] = Header(Len(p)) /\ \A k \in 1 .. Len(p) : chunk[start + k] = p[k]
  BY DEF Lies
<1>4. o + Size(frame) <= Len(chunk)
  BY DEF Lies
<1> HIDE DEF p
<1>5. start \in Nat /\ end \in Nat /\ start <= end /\ end <= Len(chunk)
      /\ end - start = Len(p) /\ end = o + Size(frame) /\ Len(chunk) \in Nat
  BY <1>1, <1>4
<1>6. chunk[start].kind = "header" /\ chunk[start].size = Len(p)
  BY <1>3, UnitsDiffer
<1>7. loop.offset + 1 = start /\ loop.given = given
  OBVIOUS
<1> HIDE DEF start, q, loop
<1>8. Iteration(chunk, loop) = [offset |-> end, given |-> Append(given, Messages(q))]
  <2>1. ~(start > Len(chunk)) /\ ~(end > Len(chunk))
    BY <1>1, <1>5
  <2> QED
    BY <1>6, <1>7, <2>1, Zenon DEF Iteration, q
<1> HIDE DEF end
<1>9. q = p
  <2>1. q \in Seq(Units) /\ Len(q) = Len(p) /\ \A k \in 1 .. Len(p) : q[k] = chunk[start + k]
    <3>1. /\ q \in Seq(Units) /\ Len(q) = end - start
          /\ \A k \in 1 .. end - start : q[k] = chunk[start + k]
      BY <1>5, ChunkUnits, Zenon DEF q
    <3> QED
      BY <1>5, <3>1
  <2> QED
    BY <1>2, <1>3, <2>1, SeqEqual
<1> QED
  BY <1>1, <1>5, <1>8, <1>9, Zenon DEF loop

\* An iteration whose frame does not end in the chunk leaves the loop where it is.
LEMMA IterationStops ==
  ASSUME NEW chunk \in Seq(Units), NEW o \in Nat, NEW given, NEW frame \in Frames,
         o < Len(chunk) => chunk[o + 1] = Header(Len(Payload(frame))),
         Len(chunk) < o + Size(frame)
  PROVE  Iteration(chunk, [offset |-> o, given |-> given]) = [offset |-> o, given |-> given]
<1> DEFINE p == Payload(frame)
           start == o + 1
           loop == [offset |-> o, given |-> given]
<1>1. Len(p) \in Nat /\ Size(frame) = Len(p) + 1 /\ Len(chunk) \in Nat
  BY PayloadFacts DEF Size
<1>2. loop.offset + 1 = start
  OBVIOUS
<1>3. start > Len(chunk) \/ chunk[start].size = Len(p)
  <2>1. CASE o < Len(chunk)
    BY <2>1, UnitsDiffer
  <2>2. CASE ~(o < Len(chunk))
    BY <1>1, <2>2
  <2> QED
    BY <2>1, <2>2
<1>4. start + Len(p) > Len(chunk)
  <2> HIDE DEF p
  <2> QED
    BY <1>1
<1> HIDE DEF p, start, loop
<1>5. start > Len(chunk) \/ start + chunk[start].size > Len(chunk)
  BY <1>3, <1>4
<1> QED
  BY <1>2, <1>5, Zenon DEF Iteration, loop

\* Where the loop is after k iterations on a chunk from frame i + 1 to unit last: at
\* the end of frame j, having given the frames between; at the latest after as many
\* iterations as the chunk has units, the next frame does not end in the chunk.
LoopAt(frames, b, i, last, k, loop, j) ==
  /\ b[i] <= b[j] /\ b[j] <= last
  /\ loop = [offset |-> b[j] - b[i], given |-> SubSeq(frames, i + 1, j)]
  /\ b[j] - b[i] >= k \/ (j < Len(frames) => last < b[j + 1])

LEMMA IterationMoves ==
  ASSUME NEW frames \in Seq(Frames), NEW stream, NEW b, Laid(stream, b, frames),
         NEW i \in 0 .. Len(frames) - 1, NEW last \in b[i] .. Len(stream),
         NEW chunk, chunk = SubSeq(stream, b[i] + 1, last),
         NEW k \in Nat, NEW loop, NEW j \in i .. Len(frames),
         LoopAt(frames, b, i, last, k, loop, j)
  PROVE  \E m \in i .. Len(frames) :
           LoopAt(frames, b, i, last, k + 1, Iteration(chunk, loop), m)
<1> DEFINE n == Len(frames)
           a == b[i]
           c == b[j]
           given == SubSeq(frames, i + 1, j)
<1>0. n \in Nat /\ i \in 0 .. n /\ j \in 0 .. n /\ j \in Nat /\ i \in Nat /\ i <= j /\ i < n
  OBVIOUS
<1>1. /\ stream \in Seq(Units) /\ Len(stream) \in Nat
      /\ a \in Nat /\ c \in Nat /\ b[n] = Len(stream)
  <2>1. stream \in Seq(Units) /\ b \in [0 .. n -> Nat] /\ b[n] = Len(stream)
    BY DEF Laid
  <2> QED
    BY <1>0, <2>1
<1>2. /\ a <= c /\ c <= last /\ loop = [offset |-> c - a, given |-> given]
      /\ c - a >= k \/ (j < n => last < b[j + 1])
  BY DEF LoopAt
<1>3. last \in Nat /\ a <= last /\ last <= Len(stream) /\ c - a \in Nat
  BY <1>1, <1>2
<1> DEFINE o == c - a
<1>4. /\ chunk \in Seq(Units) /\ Len(chunk) = last - a
      /\ \A p \in 1 .. last - a : chunk[p] = stream[a + p]
  <2> HIDE DEF a
  <2> QED
    BY <1>1, <1>3, ChunkUnits, Zenon DEF a
<1>5. CASE j = n
  <2>1. c = last
    BY <1>1, <1>2, <1>3, <1>5
  <2> HIDE DEF a, c, given
  <2>2. Iteration(chunk, loop) = loop
    <3>1. loop.offset + 1 > Len(chunk)
      BY <1>1, <1>2, <1>3, <1>4, <2>1
    <3> QED
      BY <3>1, Zenon DEF Iteration
  <2>3. ~(j < n)
    BY <1>0, <1>5
  <2>4. LoopAt(frames, b, i, last, k + 1, Iteration(chunk, loop), j)
    BY <1>2, <2>2, <2>3 DEF LoopAt, a, c, given
  <2> QED
    BY <2>4
<1>6. CASE j # n
  <2> DEFINE frame == frames[j + 1]
             d == b[j + 1]
  <2>1. j < n /\ j \in 0 .. n - 1 /\ frame \in Frames /\ j + 1 \in i .. n
    BY <1>0, <1>6
  <2>2. d = c + Size(frame) /\ Lies(stream, c, frame)
    BY <2>1 DEF Laid
  <2>3. Size(frame) \in Nat /\ Size(frame) >= 2
    BY <2>1, EncodedFacts
  <2> HIDE DEF a, c, d, frame, given, n
  <2>4. CASE last < d
    <3>1. o < Len(chunk) => chunk[o + 1] = Header(Len(Payload(frame)))
      <4> SUFFICES ASSUME o < Len(chunk) PROVE chunk[o + 1] = Header(Len(Payload(frame)))
        OBVIOUS
      <4>1. o + 1 \in 1 .. last - a /\ a + (o + 1) = c + 1
        BY <1>1, <1>3, <1>4
      <4> QED
        BY <1>4, <2>2, <4>1 DEF Lies
    <3>2. Len(chunk) < o + Size(frame) /\ o \in Nat
      BY <1>1, <1>3, <1>4, <2>2, <2>3, <2>4
    <3> HIDE DEF o
    <3>3. Iteration(chunk, [offset |-> o, given |-> given]) = [offset |-> o, given |-> given]
      BY <1>4, <2>1, <3>1, <3>2, IterationStops, Zenon
    <3>4. Iteration(chunk, loop) = loop
      BY <1>2, <3>3, Zenon DEF o
    <3>5. LoopAt(frames, b, i, last, k + 1, Iteration(chunk, loop), j)
      BY <1>2, <2>4, <3>4, Zenon DEF LoopAt, a, c, d, given
    <3> QED
      BY <3>5
  <2>5. CASE ~(last < d)
    <3>1. c + Size(frame) <= last
      BY <1>1, <1>3, <2>2, <2>3, <2>5
    <3>2. Lies(chunk, o, frame) /\ o \in Nat
      BY <1>1, <1>2, <1>3, <2>1, <2>2, <3>1, ChunkHasFrame, Zenon DEF a
    <3>3. o + Size(frame) = d - a /\ o + Size(frame) >= k + 1 /\ a <= d /\ d <= last
      <4>1. c - a >= k
        BY <1>2, <2>1, <2>5 DEF d
      <4> QED
        BY <1>1, <1>2, <1>3, <2>2, <2>3, <3>1, <4>1
    <3> HIDE DEF o
    <3>4. Iteration(chunk, [offset |-> o, given |-> given])
            = [offset |-> d - a, given |-> Append(given, frame)]
      <4>1. Iteration(chunk, [offset |-> o, given |-> given])
              = [offset |-> o + Size(frame), given |-> Append(given, frame)]
        BY <1>4, <2>1, <3>2, IterationGives, Zenon
      <4> QED
        BY <3>3, <4>1, Zenon
    <3>5. Append(given, frame) = SubSeq(frames, i + 1, j + 1)
      <4> DEFINE r == SubSeq(frames, i + 1, j + 1)
      <4>1. given \in Seq(Frames) /\ r \in Seq(Frames)
        BY <1>0, <2>1 DEF given, n
      <4>2. Len(given) = j - i /\ \A p \in 1 .. j - i : given[p] = frames[i + p]
        BY <1>0, <2>1 DEF given, n
      <4>3. Len(r) = j + 1 - i /\ \A p \in 1 .. j + 1 - i : r[p] = frames[i + p]
        BY <1>0, <2>1 DEF n
      <4> HIDE DEF r
      <4> DEFINE t == Append(given, frame)
      <4>4. /\ t \in Seq(Frames) /\ Len(t) = j - i + 1
            /\ \A p \in 1 .. j - i + 1 : t[p] = IF p = j - i + 1 THEN frame ELSE given[p]
        <5>1. /\ t \in Seq(Frames) /\ Len(t) = Len(given) + 1
              /\ \A p \in 1 .. Len(given) + 1 :
                   t[p] = IF p = Len(given) + 1 THEN frame ELSE given[p]
          BY <2>1, <4>1, AppendProperties
        <5> HIDE DEF t
        <5> QED
          BY <4>2, <5>1
      <4> HIDE DEF t
      <4>5. ASSUME NEW p \in 1 .. j - i + 1 PROVE t[p] = frames[i + p]
        <5>1. CASE p = j - i + 1
          <6>1. i + p = j + 1
            BY <1>0, <5>1
          <6> QED
            BY <4>4, <5>1, <6>1 DEF frame
        <5>2. CASE p # j - i + 1
          BY <1>0, <4>2, <4>4, <5>2
        <5> QED
          BY <5>1, <5>2
      <4>6. j - i + 1 = j + 1 - i
        BY <1>0
      <4>7. Len(t) = Len(r) /\ \A p \in 1 .. Len(t) : t[p] = r[p]
        BY <4>3, <4>4, <4>5, <4>6
      <4>8. t = r
        BY <4>1, <4>4, <4>7, SeqEqual
      <4> QED
        BY <4>8 DEF t, r
    <3>6. Iteration(chunk, loop) = [offset |-> d - a, given |-> SubSeq(frames, i + 1, j + 1)]
      BY <1>2, <3>4, <3>5, Zenon DEF o
    <3>7. d - a >= k + 1
      BY <3>3
    <3>8. LoopAt(frames, b, i, last, k + 1, Iteration(chunk, loop), j + 1)
      BY <3>3, <3>6, <3>7, Zenon DEF LoopAt, a, d
    <3> QED
      BY <2>1, <3>8 DEF n
  <2> QED
    BY <2>4, <2>5
<1> QED
  BY <1>5, <1>6

\* A chunk that begins where a frame does.
LEMMA WholeChunkIsGiven ==
  ASSUME NEW frames \in Seq(Frames), NEW stream, NEW b, Laid(stream, b, frames),
         NEW i \in 0 .. Len(frames) - 1, NEW last \in b[i] .. Len(stream)
  PROVE  \E j \in 0 .. Len(frames) :
           /\ b[j] <= last
           /\ j < Len(frames) => last < b[j + 1]
           /\ ProcessDockerStream(SubSeq(stream, b[i] + 1, last)) = SubSeq(frames, i + 1, j)
<1> DEFINE n == Len(frames)
           chunk == SubSeq(stream, b[i] + 1, last)
           I == Iterations(chunk)
           At(k) == \E j \in i .. n : LoopAt(frames, b, i, last, k, I[k], j)
           T == {k \in Nat : k <= Len(chunk) => At(k)}
<1>0. /\ n \in Nat /\ i \in Nat /\ i <= n /\ stream \in Seq(Units) /\ Len(stream) \in Nat
      /\ b[i] \in Nat /\ b[n] = Len(stream) /\ b \in [0 .. n -> Nat]
      /\ last \in Nat /\ b[i] <= last /\ last <= Len(stream)
  <2>1. n \in Nat /\ i \in 0 .. n /\ i \in Nat /\ i <= n
    OBVIOUS
  <2>2. stream \in Seq(Units) /\ b \in [0 .. n -> Nat] /\ b[n] = Len(stream)
    BY DEF Laid
  <2>3. b[i] \in Nat /\ Len(stream) \in Nat
    BY <2>1, <2>2
  <2>4. last \in Nat /\ b[i] <= last /\ last <= Len(stream)
    BY <2>3
  <2> QED
    BY <2>1, <2>2, <2>3, <2>4
<1>1. chunk \in Seq(Units) /\ Len(chunk) = last - b[i] /\ Len(chunk) \in Nat
  BY <1>0
<1>2. /\ I[0] = [offset |-> 0, given |-> <<>>]
      /\ \A k \in 0 .. Len(chunk) - 1 : I[k + 1] = Iteration(chunk, I[k])
  <2> HIDE DEF chunk
  <2> QED
    BY <1>1, IterationsFollow, Zenon
<1> HIDE DEF I
<1>3. 0 \in T
  <2>1. SubSeq(frames, i + 1, i) = <<>>
    BY <1>0
  <2>2. LoopAt(frames, b, i, last, 0, I[0], i)
    BY <1>0, <1>2, <2>1 DEF LoopAt
  <2>3. i \in i .. n
    BY <1>0
  <2> QED
    BY <2>2, <2>3
<1>4. ASSUME NEW k \in T PROVE k + 1 \in T
  <2> HIDE DEF chunk, At
  <2> SUFFICES ASSUME k + 1 <= Len(chunk) PROVE At(k + 1)
    OBVIOUS
  <2>1. k \in Nat /\ k <= Len(chunk) /\ k \in 0 .. Len(chunk) - 1
    BY <1>1
  <2>2. PICK j \in i .. n : LoopAt(frames, b, i, last, k, I[k], j)
    BY <2>1 DEF At
  <2>3. \E m \in i .. n : LoopAt(frames, b, i, last, k + 1, Iteration(chunk, I[k]), m)
    BY <2>1, <2>2, IterationMoves, Zenon DEF chunk
  <2>4. I[k + 1] = Iteration(chunk, I[k])
    BY <1>2, <2>1
  <2> QED
    BY <2>3, <2>4 DEF At
<1> HIDE DEF T
<1>5. T = Nat
  BY <1>3, <1>4, Induction DEF T
<1> HIDE DEF chunk
<1>6. PICK j \in i .. n : LoopAt(frames, b, i, last, Len(chunk), I[Len(chunk)], j)
  BY <1>1, <1>5 DEF T
<1>7. j \in 0 .. n /\ b[j] \in Nat
  BY <1>0
<1>8. j < n => last < b[j + 1]
  <2> SUFFICES ASSUME j < n, ~(last < b[j + 1]) PROVE FALSE
    OBVIOUS
  <2>1. j \in 0 .. n - 1 /\ frames[j + 1] \in Frames
    BY <1>0, <1>7
  <2>2. b[j + 1] = b[j] + Size(frames[j + 1]) /\ Size(frames[j + 1]) \in Nat
        /\ Size(frames[j + 1]) >= 2
    BY <2>1, EncodedFacts DEF Laid
  <2>3. b[j] - b[i] >= Len(chunk) /\ b[j] <= last
    BY <1>6 DEF LoopAt
  <2> QED
    BY <1>0, <1>1, <1>7, <2>2, <2>3
<1>9. b[j] <= last /\ I[Len(chunk)].given = SubSeq(frames, i + 1, j)
  BY <1>6 DEF LoopAt
<1>10. ProcessDockerStream(chunk) = SubSeq(frames, i + 1, j)
  BY <1>9, Zenon DEF ProcessDockerStream, I
<1> QED
  BY <1>7, <1>8, <1>9, <1>10, Zenon DEF chunk

\* A chunk that begins within a frame begins with a line.
LEMMA TornChunkBeginsWithLine ==
  ASSUME NEW frames \in Seq(Frames), NEW stream, NEW b, Laid(stream, b, frames),
         NEW a \in Nat, a < Len(stream), NEW last \in a .. Len(stream),
         \A i \in 0 .. Len(frames) - 1 : b[i] # a
  PROVE  ProcessDockerStream(SubSeq(stream, a + 1, last)) = <<>>
<1> DEFINE q == SubSeq(stream, a + 1, last)
<1>1. stream \in Seq(Units) /\ Len(stream) \in Nat /\ last \in Nat /\ a <= last /\ last <= Len(stream)
  <2>1. stream \in Seq(Units)
    BY DEF Laid
  <2> QED
    BY <2>1
<1>2. PICK j \in 0 .. Len(frames) - 1 : b[j] < a + 1 /\ a + 1 <= b[j] + Size(frames[j + 1])
  <2>1. a + 1 \in 1 .. Len(stream)
    BY <1>1
  <2> QED
    BY <2>1, Zenon DEF Laid
<1> DEFINE frame == frames[j + 1]
<1>3. frame \in Frames /\ b[j] \in Nat /\ Lies(stream, b[j], frame) /\ b[j] # a
  <2>1. b \in [0 .. Len(frames) -> Nat] /\ Lies(stream, b[j], frame)
    BY DEF Laid
  <2>2. frame \in Frames /\ j \in 0 .. Len(frames)
    OBVIOUS
  <2> QED
    BY <2>1, <2>2
<1> HIDE DEF frame
<1>4. /\ Payload(frame) \in Seq(Lines) /\ Len(Payload(frame)) \in Nat
      /\ Size(frame) = Len(Payload(frame)) + 1
  BY <1>3, PayloadFacts DEF Size
<1> DEFINE k == a - b[j]
<1>5. k \in 1 .. Len(Payload(frame)) /\ b[j] + 1 + k = a + 1
  BY <1>2, <1>3, <1>4 DEF frame
<1> HIDE DEF k
<1>6. stream[a + 1] = Payload(frame)[k]
  <2>1. stream[b[j] + 1 + k] = Payload(frame)[k]
    BY <1>3, <1>5 DEF Lies
  <2> QED
    BY <1>5, <2>1
<1>7. stream[a + 1].kind # "header"
  <2>1. Payload(frame)[k] \in Lines
    BY <1>4, <1>5
  <2> QED
    BY <1>6, <2>1, UnitsDiffer
<1>8. q \in Seq(Units) /\ Len(q) = last - a /\ \A p \in 1 .. last - a : q[p] = stream[a + p]
  BY <1>1, ChunkUnits, Zenon
<1> HIDE DEF q
<1>9. Len(q) > 0 => q[1].kind # "header"
  <2> SUFFICES ASSUME Len(q) > 0 PROVE q[1] = stream[a + 1]
    BY <1>7
  <2>1. 1 \in 1 .. last - a
    BY <1>1, <1>8
  <2> QED
    BY <1>8, <2>1
<1>10. ProcessDockerStream(q) = <<>>
  BY <1>8, <1>9, TornChunkIsDropped, Zenon
<1> QED
  BY <1>10 DEF q

-----------------------------------------------------------------------------
(* Every pipe *)

\* What ChunksGiveWholeFrames says of one pipe.
GivesWholeFrames(frames) ==
  \A first \in 1 .. Len(Stream(frames)) : \A last \in first - 1 .. Len(Stream(frames)) :
    LET given == ProcessDockerStream(SubSeq(Stream(frames), first, last))
    IN IF \E i \in 1 .. Len(frames) : Before(frames, i) = first - 1
       THEN \E i, j \in 0 .. Len(frames) :
              /\ Before(frames, i + 1) = first - 1
              /\ Before(frames, j + 1) <= last
              /\ j < Len(frames) => last < Before(frames, j + 2)
              /\ given = SubSeq(frames, i + 1, j)
       ELSE given = <<>>

LEMMA AnyFrames ==
  ASSUME NEW frames \in Seq(Frames)
  PROVE  GivesWholeFrames(frames)
<1> DEFINE n == Len(frames)
           stream == Stream(frames)
           b == Borders(frames)
<1>1. Laid(stream, b, frames) /\ n \in Nat /\ Len(stream) \in Nat
  <2>1. Laid(stream, b, frames)
    BY StreamIsLaid
  <2>2. stream \in Seq(Units)
    BY <2>1 DEF Laid
  <2> HIDE DEF stream
  <2> QED
    BY <2>1, <2>2
<1>2. ASSUME NEW j \in 0 .. n PROVE Before(frames, j + 1) = b[j]
  <2>1. j + 1 - 1 = j
    OBVIOUS
  <2> QED
    BY <2>1 DEF Before, Borders, Part
<1> HIDE DEF stream, b
<1> SUFFICES ASSUME NEW first \in 1 .. Len(stream), NEW last \in first - 1 .. Len(stream)
             PROVE  IF \E i \in 1 .. n : Before(frames, i) = first - 1
                    THEN \E i, j \in 0 .. n :
                           /\ Before(frames, i + 1) = first - 1
                           /\ Before(frames, j + 1) <= last
                           /\ j < n => last < Before(frames, j + 2)
                           /\ ProcessDockerStream(SubSeq(stream, first, last))
                                = SubSeq(frames, i + 1, j)
                    ELSE ProcessDockerStream(SubSeq(stream, first, last)) = <<>>
  BY DEF GivesWholeFrames, stream
<1> DEFINE a == first - 1
<1>3. a \in Nat /\ a + 1 = first /\ a < Len(stream) /\ last \in a .. Len(stream)
  BY <1>1
<1> HIDE DEF a
<1>4. CASE \E i \in 1 .. n : Before(frames, i) = first - 1
  <2>1. PICK h \in 1 .. n : Before(frames, h) = first - 1
    BY <1>4
  <2> DEFINE i == h - 1
  <2>2. i \in 0 .. n - 1 /\ i \in 0 .. n /\ i + 1 = h
    BY <1>1
  <2> HIDE DEF i
  <2>3. b[i] = a /\ Before(frames, i + 1) = first - 1
    BY <1>2, <2>1, <2>2 DEF a
  <2>4. last \in b[i] .. Len(stream)
    BY <1>3, <2>3
  <2>5. PICK j \in 0 .. n :
          /\ b[j] <= last
          /\ j < n => last < b[j + 1]
          /\ ProcessDockerStream(SubSeq(stream, b[i] + 1, last)) = SubSeq(frames, i + 1, j)
    <3> HIDE DEF n
    <3>1. i \in 0 .. Len(frames) - 1
      BY <2>2 DEF n
    <3> QED
      BY <1>1, <2>4, <3>1, WholeChunkIsGiven, SMTT(30) DEF n
  <2>6. Before(frames, j + 1) <= last
    BY <1>2, <2>5
  <2>7. j < n => last < Before(frames, j + 2)
    <3> SUFFICES ASSUME j < n PROVE last < Before(frames, j + 2)
      OBVIOUS
    <3>1. j + 1 \in 0 .. n /\ j + 1 + 1 = j + 2
      BY <1>1
    <3> QED
      BY <1>2, <2>5, <3>1
  <2>8. ProcessDockerStream(SubSeq(stream, first, last)) = SubSeq(frames, i + 1, j)
    BY <1>3, <2>3, <2>5, Zenon
  <2> QED
    BY <1>4, <2>2, <2>3, <2>6, <2>7, <2>8
<1>5. CASE ~(\E i \in 1 .. n : Before(frames, i) = first - 1)
  <2>1. ASSUME NEW i \in 0 .. n - 1 PROVE b[i] # a
    <3>1. i \in 0 .. n /\ i + 1 \in 1 .. n
      BY <1>1
    <3> QED
      BY <1>2, <1>5, <3>1 DEF a
  <2>2. ProcessDockerStream(SubSeq(stream, a + 1, last)) = <<>>
    BY <1>1, <1>3, <2>1, TornChunkBeginsWithLine, Zenon
  <2> QED
    BY <1>3, <1>5, <2>2
<1> QED
  BY <1>4, <1>5

\* A write of the server answers one or two calls, so its frames are finite sets.
PipesHoldFrames == \A s \in Sessions : pipe[s] \in Seq(Frames)

LEMMA BroadcastHoldsFrames ==
  ASSUME TypeOK, PipesHoldFrames, NEW frames \in Seq(Frames), Broadcast(frames)
  PROVE  PipesHoldFrames'
<1>1. pipe' = [s \in Sessions |-> IF Listening(s) THEN pipe[s] \o frames ELSE pipe[s]]
  BY DEF Broadcast
<1> SUFFICES ASSUME NEW s \in Sessions PROVE pipe'[s] \in Seq(Frames)
  BY DEF PipesHoldFrames
<1>2. pipe[s] \in Seq(Frames)
  BY DEF PipesHoldFrames
<1>3. pipe'[s] = IF Listening(s) THEN pipe[s] \o frames ELSE pipe[s]
  BY <1>1
<1> QED
  BY <1>2, <1>3

LEMMA StepHoldsFrames ==
  ASSUME TypeOK, PipesHoldFrames, [Next]_vars
  PROVE  PipesHoldFrames'
<1>1. ASSUME NEW s \in Sessions, NEW c \in Calls, Forward(s, c) PROVE PipesHoldFrames'
  BY <1>1 DEF Forward, PipesHoldFrames
<1>2. CASE ServerWrites
  <2>1. PICK c \in asked \cup {None}, e \in asked \cup {None} :
          Broadcast(<<{c, e} \ {None}>>)
    BY <1>2 DEF ServerWrites
  <2>2. {c, e} \ {None} \in Frames
    <3>1. IsFiniteSet({c}) /\ IsFiniteSet({e})
      BY FS_Singleton
    <3>2. IsFiniteSet({c} \cup {e})
      BY <3>1, FS_Union, Zenon
    <3>3. IsFiniteSet({c, e} \ {None})
      <4>1. {c, e} \ {None} \subseteq {c} \cup {e}
        OBVIOUS
      <4> QED
        BY <3>2, <4>1, FS_Subset, Zenon
    <3> QED
      BY <3>3 DEF Frames, TypeOK
  <2>3. <<{c, e} \ {None}>> \in Seq(Frames)
    BY <2>2
  <2> QED
    BY <2>1, <2>3, BroadcastHoldsFrames, Zenon
<1>3. CASE ServerWritesLong
  <2>1. Broadcast(<<{}, {}>>)
    BY <1>3 DEF ServerWritesLong
  <2>2. {} \in Frames
    BY FS_EmptySet DEF Frames
  <2>3. <<{}, {}>> \in Seq(Frames)
    BY <2>2
  <2> QED
    BY <2>1, <2>3, BroadcastHoldsFrames, Zenon
<1>4. ASSUME NEW s \in Sessions, Start(s) \/ CloseStreamable(s) \/ HangUp(s)
      PROVE  PipesHoldFrames'
  BY <1>4 DEF Start, CloseStreamable, HangUp, PipesHoldFrames
<1>5. ASSUME NEW s \in Sessions, CloseSse(s) PROVE PipesHoldFrames'
  <2>1. pipe' = [pipe EXCEPT ![s] = <<>>] /\ <<>> \in Seq(Frames)
    BY <1>5 DEF CloseSse
  <2> QED
    BY <2>1 DEF PipesHoldFrames, TypeOK
<1>6. ASSUME NEW s \in Sessions, Chunk(s) PROVE PipesHoldFrames'
  <2>1. PICK n \in 0 .. Len(pipe[s]) : pipe' = [pipe EXCEPT ![s] = SubSeq(@, n + 1, Len(@))]
    BY <1>6 DEF Chunk, Receive
  <2>2. SubSeq(pipe[s], n + 1, Len(pipe[s])) \in Seq(Frames)
    <3>1. pipe[s] \in Seq(Frames)
      BY DEF PipesHoldFrames
    <3> QED
      BY <3>1
  <2> QED
    BY <2>1, <2>2 DEF PipesHoldFrames, TypeOK
<1>7. CASE UNCHANGED vars
  BY <1>7 DEF vars, PipesHoldFrames
<1> QED
  BY <1>1, <1>2, <1>3, <1>4, <1>5, <1>6, <1>7 DEF Next

\* Whatever is on its way to a session, and wherever the daemon and the socket cut
\* it, processDockerStream passes on the frames that lie whole in a chunk beginning
\* with a frame, in order and no other, and nothing of any other chunk.
THEOREM WholeFramesOnly == Spec => []ChunksGiveWholeFrames
<1>1. Init => PipesHoldFrames
  <2>1. <<>> \in Seq(Frames)
    OBVIOUS
  <2> QED
    BY <2>1 DEF Init, PipesHoldFrames
<1>2. TypeOK /\ PipesHoldFrames /\ [Next]_vars => PipesHoldFrames'
  BY StepHoldsFrames
<1>3. PipesHoldFrames => ChunksGiveWholeFrames
  <2> SUFFICES ASSUME PipesHoldFrames, NEW s \in Sessions PROVE GivesWholeFrames(pipe[s])
    BY Zenon DEF ChunksGiveWholeFrames, GivesWholeFrames
  <2>1. pipe[s] \in Seq(Frames)
    BY DEF PipesHoldFrames
  <2> QED
    BY <2>1, AnyFrames, Zenon
<1> QED
  BY <1>1, <1>2, <1>3, TypeCorrect, PTL DEF Spec

=============================================================================
