--------------------------- MODULE ProtocolProofs ---------------------------
(***************************************************************************)
(* What the two ends of the wire make of each other, for every payload:    *)
(* the framing of Protocol.tla loses nothing, finds nothing too early, and *)
(* the decoders give back what was encoded.                                *)
(***************************************************************************)
EXTENDS Protocol, SequenceTheorems, TLAPS

LEMMA FieldType ==
  ASSUME NEW n \in Nat
  PROVE  n % U32Values \in Nat /\ n % U16Values \in Nat
  BY WidthAssumption

(* A number below the width of its field is kept.                          *)
LEMMA FieldKeeps ==
  ASSUME NEW n \in Nat, NEW w \in Nat \ {0}, n < w
  PROVE  n % w = n
  OBVIOUS

LEMMA FieldNotMore ==
  ASSUME NEW n \in Nat, NEW w \in Nat \ {0}
  PROVE  n % w \in Nat /\ n % w <= n
<1>1. n % w \in Nat /\ n % w < w
  OBVIOUS
<1>2. CASE n < w
  BY <1>2, FieldKeeps
<1>3. CASE ~(n < w)
  BY <1>1, <1>3
<1>. QED BY <1>2, <1>3

LEMMA LenIsNat ==
  ASSUME NEW p \in Seq(Nat)
  PROVE  Len(p) \in Nat
  BY LenProperties

LEMMA ThreeCells ==
  ASSUME NEW a \in Nat, NEW b \in Nat, NEW c \in Nat
  PROVE  LET h == <<a>> \o <<b>> \o <<c>>
         IN  h \in Seq(Nat) /\ Len(h) = 3 /\ h[1] = a /\ h[2] = b /\ h[3] = c
<1>1. /\ <<a>> \in Seq(Nat) /\ Len(<<a>>) = 1 /\ <<a>>[1] = a
      /\ <<b>> \in Seq(Nat) /\ Len(<<b>>) = 1 /\ <<b>>[1] = b
      /\ <<c>> \in Seq(Nat) /\ Len(<<c>>) = 1 /\ <<c>>[1] = c
  OBVIOUS
<1>2. /\ <<a>> \o <<b>> \in Seq(Nat) /\ Len(<<a>> \o <<b>>) = 2
      /\ (<<a>> \o <<b>>)[1] = a /\ (<<a>> \o <<b>>)[2] = b
  BY <1>1, ConcatProperties
<1>. QED BY <1>1, <1>2, ConcatProperties

(* Cutting a concatenation where its parts meet gives the parts.           *)
LEMMA CutAtSeam ==
  ASSUME NEW a \in Seq(Nat), NEW b \in Seq(Nat)
  PROVE  /\ SubSeq(a \o b, 1, Len(a)) = a
         /\ SubSeq(a \o b, Len(a) + 1, Len(a \o b)) = b
<1>1. Len(a) \in Nat /\ Len(b) \in Nat
  BY LenIsNat
<1>2. /\ a \o b \in Seq(Nat) /\ Len(a \o b) = Len(a) + Len(b)
      /\ \A i \in 1 .. Len(a) + Len(b) :
            (a \o b)[i] = IF i <= Len(a) THEN a[i] ELSE b[i - Len(a)]
  BY ConcatProperties
<1>3. SubSeq(a \o b, 1, Len(a)) = a
  <2>1. \A i \in 1 .. Len(a) : (a \o b)[i] = a[i] /\ a[i] \in Nat
    BY <1>1, <1>2
  <2>2. /\ SubSeq(a \o b, 1, Len(a)) \in Seq(Nat)
        /\ Len(SubSeq(a \o b, 1, Len(a))) = Len(a)
        /\ \A i \in 1 .. Len(a) : SubSeq(a \o b, 1, Len(a))[i] = a[i]
    BY <1>1, <2>1, SubSeqProperties
  <2>. QED BY <2>2, SeqEqual
<1>4. SubSeq(a \o b, Len(a) + 1, Len(a) + Len(b)) = b
  <2>1. \A i \in Len(a) + 1 .. Len(a) + Len(b) : (a \o b)[i] = b[i - Len(a)] /\ (a \o b)[i] \in Nat
    BY <1>1, <1>2
  <2>2. /\ SubSeq(a \o b, Len(a) + 1, Len(a) + Len(b)) \in Seq(Nat)
        /\ Len(SubSeq(a \o b, Len(a) + 1, Len(a) + Len(b))) = Len(b)
        /\ \A i \in 1 .. Len(b) :
              SubSeq(a \o b, Len(a) + 1, Len(a) + Len(b))[i] = (a \o b)[Len(a) + i]
    BY <1>1, <2>1, SubSeqProperties
  <2>3. \A i \in 1 .. Len(b) : (a \o b)[Len(a) + i] = b[i]
    BY <1>1, <2>1
  <2>. QED BY <2>2, <2>3, SeqEqual
<1>. QED BY <1>2, <1>3, <1>4

LEMMA ConcatPrefix ==
  ASSUME NEW a \in Seq(Nat), NEW b \in Seq(Nat)
  PROVE  \A i \in 1 .. Len(a) : (a \o b)[i] = a[i]
<1>1. Len(a) \in Nat /\ Len(b) \in Nat
  BY LenIsNat
<1>2. \A i \in 1 .. Len(a) + Len(b) :
         (a \o b)[i] = IF i <= Len(a) THEN a[i] ELSE b[i - Len(a)]
  BY ConcatProperties
<1>. QED BY <1>1, <1>2

(* The same of a part in the middle.                                       *)
LEMMA CutMiddle ==
  ASSUME NEW a \in Seq(Nat), NEW b \in Seq(Nat), NEW c \in Seq(Nat)
  PROVE  SubSeq((a \o b) \o c, Len(a) + 1, Len(a) + Len(b)) = b
<1>1. Len(a) \in Nat /\ Len(b) \in Nat /\ Len(c) \in Nat
  BY LenIsNat
<1>2. /\ a \o b \in Seq(Nat) /\ Len(a \o b) = Len(a) + Len(b)
      /\ \A i \in 1 .. Len(a) + Len(b) :
            (a \o b)[i] = IF i <= Len(a) THEN a[i] ELSE b[i - Len(a)]
  BY ConcatProperties
<1>3. /\ (a \o b) \o c \in Seq(Nat)
      /\ \A i \in 1 .. Len(a \o b) : ((a \o b) \o c)[i] = (a \o b)[i]
  <2>1. \A i \in 1 .. Len(a \o b) + Len(c) :
           ((a \o b) \o c)[i] = IF i <= Len(a \o b) THEN (a \o b)[i] ELSE c[i - Len(a \o b)]
    BY <1>2, ConcatProperties
  <2>. QED BY <1>1, <1>2, <2>1, ConcatProperties
<1>4. \A i \in 1 .. Len(b) : ((a \o b) \o c)[Len(a) + i] = b[i] /\ b[i] \in Nat
  BY <1>1, <1>2, <1>3
<1>5. \A i \in Len(a) + 1 .. Len(a) + Len(b) : ((a \o b) \o c)[i] \in Nat
  <2>1. \A i \in Len(a) + 1 .. Len(a) + Len(b) : i - Len(a) \in 1 .. Len(b) /\ i = Len(a) + (i - Len(a))
    BY <1>1
  <2>. QED BY <1>4, <2>1
<1>. DEFINE m == SubSeq((a \o b) \o c, Len(a) + 1, Len(a) + Len(b))
<1>6. m \in Seq(Nat) /\ Len(m) = Len(b) /\ \A i \in 1 .. Len(b) : m[i] = ((a \o b) \o c)[Len(a) + i]
  BY <1>1, <1>5, SubSeqProperties
<1>. QED BY <1>4, <1>6, SeqEqual

(* Of the second part the first cells.                                     *)
LEMMA CutBehindSeam ==
  ASSUME NEW a \in Seq(Nat), NEW b \in Seq(Nat), NEW n \in Nat, n <= Len(b)
  PROVE  SubSeq(a \o b, Len(a) + 1, Len(a) + n) = SubSeq(b, 1, n)
<1>1. Len(a) \in Nat /\ Len(b) \in Nat
  BY LenIsNat
<1>2. PICK x, y, z : x = a \o b /\ y = SubSeq(a \o b, Len(a) + 1, Len(a) + n)
                     /\ z = SubSeq(b, 1, n)
  OBVIOUS
<1>3. /\ x \in Seq(Nat) /\ Len(x) = Len(a) + Len(b)
      /\ \A i \in 1 .. Len(a) + Len(b) : x[i] = IF i <= Len(a) THEN a[i] ELSE b[i - Len(a)]
  BY <1>2, ConcatProperties
<1>4. ASSUME NEW i \in 1 .. n PROVE x[Len(a) + i] = b[i] /\ b[i] \in Nat
  <2>1. i \in 1 .. Len(b)
    BY <1>1
  <2>2. PICK k \in Nat : k = Len(a) + i
    BY <1>1, <2>1
  <2>3. x[k] = b[i]
    <3>1. k \in 1 .. Len(a) + Len(b) /\ ~(k <= Len(a)) /\ k - Len(a) = i
      BY <1>1, <2>1, <2>2
    <3>. QED BY <1>3, <3>1
  <2>4. b[i] \in Nat
    BY <2>1, ElementOfSeq
  <2>. QED BY <2>2, <2>3, <2>4
<1>5. ASSUME NEW i \in Len(a) + 1 .. Len(a) + n PROVE x[i] \in Nat
  <2>1. PICK j \in 1 .. n : i = Len(a) + j
    <3>1. i - Len(a) \in 1 .. n /\ i = Len(a) + (i - Len(a))
      BY <1>1
    <3>. QED BY <3>1
  <2>. QED BY <1>4, <2>1
<1>6. y \in Seq(Nat) /\ Len(y) = n /\ \A i \in 1 .. n : y[i] = x[Len(a) + i]
  <2>1. PICK e \in Nat, f \in Nat : e = Len(a) + 1 /\ f = Len(a) + n
    BY <1>1
  <2>2. y = SubSeq(x, e, f) /\ \A i \in e .. f : x[i] \in Nat
    BY <1>2, <1>5, <2>1
  <2>3. /\ y \in Seq(Nat) /\ Len(y) = IF e <= f THEN f - e + 1 ELSE 0
        /\ \A i \in 1 .. f - e + 1 : y[i] = x[e + i - 1]
    BY <2>1, <2>2, SubSeqProperties
  <2>4. Len(y) = n /\ f - e + 1 = n
    BY <1>1, <2>1, <2>3
  <2>5. ASSUME NEW i \in 1 .. n PROVE y[i] = x[Len(a) + i]
    <3>1. e + i - 1 = Len(a) + i
      BY <1>1, <2>1
    <3>. QED BY <2>3, <2>4, <3>1
  <2>. QED BY <2>3, <2>4, <2>5
<1>7. z \in Seq(Nat) /\ Len(z) = n /\ \A i \in 1 .. n : z[i] = b[i]
  BY <1>1, <1>2, <1>4, SubSeqProperties
<1>8. \A i \in 1 .. n : y[i] = z[i]
  BY <1>4, <1>6, <1>7
<1>9. y = z
  BY <1>6, <1>7, <1>8, SeqEqual
<1>. QED BY <1>2, <1>9

(* A message on the wire is its three header cells and its payload.        *)
LEMMA WrapShape ==
  ASSUME NEW t \in Nat, NEW s \in Nat, NEW p \in Seq(Nat)
  PROVE  \E h \in Seq(Nat) :
             /\ Len(h) = 3
             /\ h[1] = Len(p) % U32Values /\ h[2] = t /\ h[3] = s % U32Values
             /\ Wrap(t, s, p) = h \o p
             /\ Wrap(t, s, p) \in Seq(Nat) /\ Len(Wrap(t, s, p)) = 3 + Len(p)
<1>1. Len(p) \in Nat
  BY LenIsNat
<1>2. Len(p) % U32Values \in Nat /\ s % U32Values \in Nat
  BY <1>1, FieldType
<1>. DEFINE h == <<Len(p) % U32Values>> \o <<t>> \o <<s % U32Values>>
<1>3. /\ h \in Seq(Nat) /\ Len(h) = 3
      /\ h[1] = Len(p) % U32Values /\ h[2] = t /\ h[3] = s % U32Values
  BY <1>2, ThreeCells
<1>4. Wrap(t, s, p) = h \o p
  BY DEF Wrap, Put32
<1>. HIDE DEF h
<1>5. h \o p \in Seq(Nat) /\ Len(h \o p) = Len(h) + Len(p)
  BY <1>3, ConcatProperties
<1>. QED BY <1>3, <1>4, <1>5 DEF h

(* next_message gives back exactly the message that was encoded, whatever  *)
(* follows it in the buffer, and leaves exactly what follows; the number of*)
(* the message keeps 32 bits.  The payload must be shorter than 2^32.      *)
THEOREM FramingRoundTrip ==
  ASSUME NEW t \in Nat, NEW s \in Nat, NEW p \in Seq(Nat), NEW rest \in Seq(Nat),
         Len(p) < U32Values
  PROVE  /\ HasMessage(Wrap(t, s, p) \o rest)
         /\ NextMessage(Wrap(t, s, p) \o rest)
              = [type |-> t, seq |-> s % U32Values, payload |-> p]
         /\ AfterMessage(Wrap(t, s, p) \o rest) = rest
<1>. DEFINE w == Wrap(t, s, p)
            b == w \o rest
<1>1. Len(p) \in Nat /\ Len(rest) \in Nat
  BY LenIsNat
<1>2. Len(p) % U32Values = Len(p)
  BY <1>1, FieldKeeps, WidthAssumption
<1>3. PICK h \in Seq(Nat) :
         /\ Len(h) = 3 /\ h[1] = Len(p) /\ h[2] = t /\ h[3] = s % U32Values
         /\ w = h \o p /\ w \in Seq(Nat) /\ Len(w) = 3 + Len(p)
  <2>1. PICK h \in Seq(Nat) :
           /\ Len(h) = 3
           /\ h[1] = Len(p) % U32Values /\ h[2] = t /\ h[3] = s % U32Values
           /\ Wrap(t, s, p) = h \o p
           /\ Wrap(t, s, p) \in Seq(Nat) /\ Len(Wrap(t, s, p)) = 3 + Len(p)
    <3>. HIDE DEF w
    <3>. QED BY WrapShape
  <2>. QED BY <1>2, <2>1, Zenon
<1>. HIDE DEF w
<1>4. b[1] = h[1] /\ b[2] = h[2] /\ b[3] = h[3]
  <2>1. \A i \in 1 .. Len(h) : w[i] = h[i]
    BY <1>3, ConcatPrefix
  <2>2. \A i \in 1 .. Len(w) : b[i] = w[i]
    BY <1>3, ConcatPrefix
  <2>3. \A i \in {1, 2, 3} : i \in 1 .. Len(h) /\ i \in 1 .. Len(w)
    BY <1>1, <1>3
  <2>. QED BY ONLY <2>1, <2>2, <2>3
<1>5. Len(b) = (3 + Len(p)) + Len(rest)
  <2>1. Len(w \o rest) = Len(w) + Len(rest)
    BY <1>3, ConcatProperties
  <2>. QED BY <1>3, <2>1
<1>6. SubSeq(b, 4, 3 + Len(p)) = p
  <2>1. SubSeq((h \o p) \o rest, Len(h) + 1, Len(h) + Len(p)) = p
    BY <1>3, CutMiddle
  <2>. QED BY <1>3, <2>1
<1>7. SubSeq(b, 4 + Len(p), Len(b)) = rest
  <2>1. SubSeq(b, Len(w) + 1, Len(b)) = rest
    BY <1>3, CutAtSeam
  <2>2. Len(w) + 1 = 4 + Len(p)
    BY <1>1, <1>3
  <2>. QED BY <2>1, <2>2
<1>. HIDE DEF b
<1>8. b[1] = Len(p) /\ b[2] = t /\ b[3] = s % U32Values
  BY <1>3, <1>4
<1>9. Total(b) = 3 + Len(p) /\ Total(b) + 1 = 4 + Len(p)
  BY <1>1, <1>8 DEF Total, HeaderSize
<1>10. HasMessage(b)
  BY <1>1, <1>5, <1>9 DEF HasMessage, HasHeader, HeaderSize
<1>11. NextMessage(b) = [type |-> t, seq |-> s % U32Values, payload |-> p]
  <2>1. SubSeq(b, 3 + 1, Total(b)) = p
    BY <1>6, <1>9
  <2>. QED BY <1>8, <2>1 DEF NextMessage, HeaderSize
<1>12. AfterMessage(b) = rest
  BY <1>7, <1>9 DEF AfterMessage, Cut
<1>. QED BY <1>10, <1>11, <1>12 DEF b, w

(* A message that has not arrived whole, cut at any point, in its header   *)
(* too, is not taken for one (next_message returns None).                  *)
THEOREM TornMessageWaits ==
  ASSUME NEW t \in Nat, NEW s \in Nat, NEW p \in Seq(Nat), Len(p) < U32Values,
         NEW n \in Nat, n < Len(Wrap(t, s, p))
  PROVE  ~HasMessage(SubSeq(Wrap(t, s, p), 1, n))
<1>. DEFINE part == SubSeq(Wrap(t, s, p), 1, n)
<1>1. Len(p) \in Nat /\ Len(p) % U32Values = Len(p)
  BY LenIsNat, FieldKeeps, WidthAssumption
<1>2. PICK h \in Seq(Nat) :
         /\ Len(h) = 3
         /\ h[1] = Len(p) % U32Values /\ h[2] = t /\ h[3] = s % U32Values
         /\ Wrap(t, s, p) = h \o p
         /\ Wrap(t, s, p) \in Seq(Nat) /\ Len(Wrap(t, s, p)) = 3 + Len(p)
  BY WrapShape
<1>3. Len(part) = n /\ \A i \in 1 .. n : part[i] = Wrap(t, s, p)[i]
  <2>1. \A i \in 1 .. n : i \in 1 .. Len(Wrap(t, s, p))
    <3>1. Len(Wrap(t, s, p)) \in Nat
      BY <1>2, LenIsNat
    <3>. QED BY ONLY <3>1, n \in Nat, n < Len(Wrap(t, s, p))
  <2>2. \A i \in 1 .. n : Wrap(t, s, p)[i] \in Nat
    BY <1>2, <2>1, ElementOfSeq
  <2>. QED BY <2>2, SubSeqProperties
<1>4. Wrap(t, s, p)[1] = Len(p)
  BY <1>1, <1>2, ConcatPrefix
<1>. HIDE DEF part
<1>5. CASE n < 3
  BY <1>3, <1>5 DEF HasMessage, HasHeader, HeaderSize
<1>6. CASE n >= 3
  <2>1. Total(part) = 3 + Len(p)
    BY <1>3, <1>4, <1>6 DEF Total, HeaderSize
  <2>2. ~(Len(part) >= Total(part))
    BY <1>1, <1>2, <1>3, <2>1
  <2>. QED BY <2>2 DEF HasMessage, part
<1>. QED BY <1>1, <1>5, <1>6

(* encode_imu_batch cuts the count of the samples to 16 bits, and not the  *)
(* samples: however many there are, the decoder finds the first ones, as   *)
(* many as the count says, and leaves the next message where it is.        *)
THEOREM ImuBatchCutToItsCount ==
  ASSUME NEW s \in Nat, NEW samples \in Seq(Nat), NEW rest \in Seq(Nat),
         Len(samples) + 1 < U32Values
  PROVE  LET b == EncodeImuBatch(s, samples) \o rest
             n == Len(samples) % U16Values
         IN  /\ HasMessage(b) /\ AfterMessage(b) = rest
             /\ Decode(NextMessage(b)) = {[samples |-> SubSeq(samples, 1, n)]}
<1>1. PICK l \in Nat : l = Len(samples)
  BY LenIsNat
<1>2. PICK n \in Nat : n = l % U16Values /\ n <= l
  <2>1. l % U16Values \in Nat /\ l % U16Values <= l
    BY <1>1, FieldNotMore, WidthAssumption
  <2>. QED BY <2>1
<1>3. PICK c, p : c = <<n>> /\ p = c \o samples
  OBVIOUS
<1>4. c \in Seq(Nat) /\ Len(c) = 1 /\ c[1] = n
  BY <1>3
<1>5. p \in Seq(Nat) /\ Len(p) = 1 + l /\ p[1] = n
  BY <1>1, <1>3, <1>4, ConcatProperties
<1>6. PICK q : q = SubSeq(samples, 1, n) /\ q = SubSeq(p, 2, 1 + n)
  <2>1. SubSeq(p, Len(c) + 1, Len(c) + n) = SubSeq(samples, 1, n)
    BY <1>1, <1>2, <1>3, <1>4, CutBehindSeam
  <2>2. Len(c) + 1 = 2 /\ Len(c) + n = 1 + n
    BY <1>4
  <2>. QED BY <2>1, <2>2
<1>7. DecodeImuBatch(p) = {[samples |-> q]}
  <2>1. ~(Len(p) < 1 \/ Len(p) < 1 + p[1])
    BY <1>1, <1>2, <1>5
  <2>. QED BY <1>5, <1>6, <2>1 DEF DecodeImuBatch, Unless
<1>8. EncodeImuBatch(s, samples) = Wrap(ImuBatch, s, p)
  BY <1>1, <1>2, <1>3 DEF EncodeImuBatch, Put16
<1>9. PICK b, m : b = EncodeImuBatch(s, samples) \o rest /\ m = NextMessage(b)
  OBVIOUS
<1>10. /\ HasMessage(b) /\ AfterMessage(b) = rest
       /\ m = [type |-> ImuBatch, seq |-> s % U32Values, payload |-> p]
  BY <1>1, <1>5, <1>8, <1>9, FramingRoundTrip DEF ImuBatch
<1>11. m.type = ImuBatch /\ m.payload = p
  BY <1>10
<1>12. Decode(m) = DecodeImuBatch(m.payload)
  BY <1>11 DEF Decode, VideoConfig, VideoChunk, ImuBatch, PoseSample, PointCloud,
               CameraIntrinsics
<1>13. Decode(m) = {[samples |-> q]}
  BY <1>7, <1>11, <1>12
<1>. QED BY <1>1, <1>2, <1>6, <1>9, <1>10, <1>13

(* A counted batch is decoded to exactly its samples, when its 16-bit count*)
(* can hold their number.                                                  *)
THEOREM ImuBatchRoundTrip ==
  ASSUME NEW s \in Nat, NEW samples \in Seq(Nat), NEW rest \in Seq(Nat),
         Len(samples) < U16Values, Len(samples) + 1 < U32Values
  PROVE  Decode(NextMessage(EncodeImuBatch(s, samples) \o rest)) = {[samples |-> samples]}
<1>1. PICK l \in Nat : l = Len(samples) /\ l % U16Values = l
  BY LenIsNat, FieldKeeps, WidthAssumption
<1>2. PICK q : q = SubSeq(samples, 1, l)
  OBVIOUS
<1>3. \A i \in 1 .. l : samples[i] \in Nat
  BY <1>1, ElementOfSeq
<1>4. q \in Seq(Nat) /\ Len(q) = l /\ \A i \in 1 .. l : q[i] = samples[i]
  BY <1>1, <1>2, <1>3, SubSeqProperties
<1>5. q = samples
  BY <1>1, <1>4, SeqEqual
<1>6. Decode(NextMessage(EncodeImuBatch(s, samples) \o rest)) = {[samples |-> q]}
  BY <1>1, <1>2, ImuBatchCutToItsCount
<1>. QED BY <1>5, <1>6
=============================================================================
