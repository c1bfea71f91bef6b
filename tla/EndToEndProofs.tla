--------------------------- MODULE EndToEndProofs ---------------------------
(***************************************************************************)
(* Theorems about EndToEnd, for captures of any messages, any caps, any    *)
(* number of connections and breaks, and a disk that may cut any write.    *)
(***************************************************************************)
EXTENDS EndToEnd, ProtocolProofs, WellFoundedInduction, FiniteSetTheorems

-----------------------------------------------------------------------------
(* Sequences of sequences, flattened.  FlattenSeq is a fold, and so a      *)
(* function that calls itself: Chain is that function, and the lemmas      *)
(* about it are inductions over sets of numbers and of sequences.          *)

LEMMA Least ==
  ASSUME NEW T, T \subseteq Nat, T # {}
  PROVE \E x \in T : \A y \in T : x <= y
<1>1. IsWellFoundedOn(OpToRel(<, Nat), Nat)
  BY NatLessThanWellFounded
<1>2. PICK x \in T : \A y \in T : ~(<<y, x>> \in OpToRel(<, Nat))
  BY <1>1, WFMin
<1>3. \A y \in T : ~(y < x)
  BY <1>2 DEF OpToRel
<1>4. x \in Nat /\ \A y \in T : y \in Nat
  OBVIOUS
<1>. QED BY <1>3, <1>4

LEMMA NatSetInduction ==
  ASSUME NEW S, 0 \in S, \A n \in Nat : n \in S => n + 1 \in S
  PROVE  Nat \subseteq S
<1>. SUFFICES ASSUME Nat \ S # {} PROVE FALSE
  OBVIOUS
<1>1. PICK x \in Nat \ S : \A y \in Nat \ S : x <= y
  BY Least
<1>2. x - 1 \in Nat /\ x - 1 \notin Nat \ S
  BY <1>1
<1>. QED BY <1>1, <1>2

Chain(f, s, n) == f = [i \in 1 .. n |-> IF i = 1 THEN s[i] ELSE f[i - 1] \o s[i]]

(* Such a chain exists for every sequence of sequences.                    *)
LEMMA ChainExists ==
  ASSUME NEW s
  PROVE  \A n \in Nat : \E f : Chain(f, s, n)
<1>. DEFINE S == {n \in Nat : \E f : Chain(f, s, n)}
<1>1. 0 \in S
  <2>. DEFINE z == [i \in 1 .. 0 |-> 0]
  <2>1. Chain(z, s, 0)
    BY DEF Chain
  <2>. QED BY <2>1
<1>2. ASSUME NEW n \in Nat, n \in S PROVE n + 1 \in S
  <2>1. PICK f : Chain(f, s, n)
    BY <1>2
  <2>. DEFINE g == [i \in 1 .. n + 1 |->
                       IF i <= n THEN f[i] ELSE IF i = 1 THEN s[i] ELSE f[n] \o s[i]]
  <2>2. \A i \in 1 .. n + 1 : g[i] = IF i = 1 THEN s[i] ELSE g[i - 1] \o s[i]
    <3>. TAKE i \in 1 .. n + 1
    <3>1. CASE i <= n /\ i = 1
      BY <2>1, <3>1 DEF Chain
    <3>2. CASE i <= n /\ i # 1
      <4>1. i \in 1 .. n /\ i - 1 \in 1 .. n /\ i - 1 \in 1 .. n + 1
        BY <3>2
      <4>2. f[i] = f[i - 1] \o s[i]
        BY <2>1, <3>2, <4>1 DEF Chain
      <4>3. g[i] = f[i] /\ g[i - 1] = f[i - 1]
        BY <4>1
      <4>. QED BY <3>2, <4>2, <4>3
    <3>3. CASE i = n + 1 /\ i = 1
      BY <3>3
    <3>4. CASE i = n + 1 /\ i # 1
      <4>1. i - 1 = n /\ n \in 1 .. n + 1 /\ ~(i <= n) /\ n <= n
        BY <3>4
      <4>2. g[i] = f[n] \o s[i] /\ g[n] = f[n]
        BY <3>4, <4>1
      <4>. QED BY <3>4, <4>1, <4>2
    <3>. QED BY <3>1, <3>2, <3>3, <3>4
  <2>3. g = [i \in 1 .. n + 1 |-> g[i]]
    OBVIOUS
  <2>4. Chain(g, s, n + 1)
    <3>. HIDE DEF g
    <3>. QED BY <2>2, <2>3 DEF Chain
  <2>. QED BY <2>4
<1>3. Nat \subseteq S
  <2>. HIDE DEF S
  <2>. QED BY <1>1, <1>2, NatSetInduction
<1>. QED BY <1>3

(* FlattenSeq is the end of that chain.                                    *)
LEMMA FlattenIsChain ==
  ASSUME NEW s, Len(s) \in Nat, Len(s) # 0
  PROVE  \E f : Chain(f, s, Len(s)) /\ FlattenSeq(s) = f[Len(s)]
<1>. DEFINE F == CHOOSE f : f = [i \in 1 .. Len(s) |-> IF i = 1 THEN s[i] ELSE f[i - 1] \o s[i]]
<1>1. FlattenSeq(s) = F[Len(s)]
  BY DEF FlattenSeq
<1>2. \E f : f = [i \in 1 .. Len(s) |-> IF i = 1 THEN s[i] ELSE f[i - 1] \o s[i]]
  BY ChainExists DEF Chain
<1>3. F = [i \in 1 .. Len(s) |-> IF i = 1 THEN s[i] ELSE F[i - 1] \o s[i]]
  BY <1>2
<1>. QED BY <1>1, <1>3 DEF Chain

LEMMA ChainStart ==
  ASSUME NEW n \in Nat, NEW s, NEW f, Chain(f, s, n), n # 0
  PROVE  f[1] = s[1]
<1>1. 1 \in 1 .. n
  OBVIOUS
<1>. QED BY <1>1 DEF Chain

Links(f, s, k) == f[k + 1] = f[k] \o s[k + 1]
LEMMA ChainLinks ==
  ASSUME NEW n \in Nat, NEW s, NEW f, Chain(f, s, n), NEW k \in 1 .. n - 1
  PROVE  Links(f, s, k)
<1>1. PICK i \in 1 .. n : i = k + 1
  OBVIOUS
<1>2. i # 1 /\ i - 1 = k
  BY <1>1
<1>3. f[i] = f[i - 1] \o s[i]
  BY <1>2 DEF Chain
<1>. QED BY <1>1, <1>2, <1>3 DEF Links

(* Chains over sequences that agree, agree.                                *)
LEMMA ChainsAgree ==
  ASSUME NEW n \in Nat, NEW m \in Nat, NEW s, NEW t, NEW f, NEW g, n <= m,
         Chain(f, s, n), Chain(g, t, m), \A i \in 1 .. n : s[i] = t[i]
  PROVE  \A i \in 1 .. n : f[i] = g[i]
<1>. DEFINE S == {k \in Nat : k + 1 \in 1 .. n => f[k + 1] = g[k + 1]}
<1>1. 0 \in S
  <2>1. ASSUME 1 \in 1 .. n PROVE f[1] = g[1]
    <3>1. n # 0 /\ m # 0 /\ s[1] = t[1]
      BY <2>1
    <3>2. f[1] = s[1]
      BY <3>1, ChainStart
    <3>3. g[1] = t[1]
      BY <3>1, ChainStart
    <3>. QED BY <3>1, <3>2, <3>3
  <2>. QED BY <2>1
<1>2. ASSUME NEW k \in Nat, k \in S PROVE k + 1 \in S
  <2>. DEFINE j == k + 1
  <2>. SUFFICES ASSUME j + 1 \in 1 .. n PROVE f[j + 1] = g[j + 1]
    OBVIOUS
  <2>1. f[j] = g[j] /\ j \in 1 .. n - 1 /\ j \in 1 .. m - 1
    BY <1>2
  <2>. HIDE DEF j
  <2>2. f[j + 1] = f[j] \o s[j + 1]
    <3>1. Links(f, s, j)
      BY <2>1, ChainLinks
    <3>. QED BY <3>1 DEF Links
  <2>3. g[j + 1] = g[j] \o t[j + 1]
    <3>1. Links(g, t, j)
      BY <2>1, ChainLinks
    <3>. QED BY <3>1 DEF Links
  <2>. QED BY <2>1, <2>2, <2>3
<1>3. Nat \subseteq S
  <2>. HIDE DEF S
  <2>. QED BY <1>1, <1>2, NatSetInduction
<1>4. ASSUME NEW i \in 1 .. n PROVE f[i] = g[i]
  <2>1. PICK k \in Nat : i = k + 1
    <3>1. i - 1 \in Nat /\ i = (i - 1) + 1
      OBVIOUS
    <3>. QED BY <3>1
  <2>. QED BY <1>3, <2>1
<1>. QED BY <1>4

LEMMA FlattenEmpty == FlattenSeq(<<>>) = <<>>
BY DEF FlattenSeq

(* An element appended is joined at the end.                               *)
LEMMA FlattenAppend ==
  ASSUME NEW S, NEW s \in Seq(Seq(S)), NEW x \in Seq(S)
  PROVE  FlattenSeq(Append(s, x)) = FlattenSeq(s) \o x
<1>. DEFINE t == Append(s, x)
            n == Len(s)
<1>1. /\ n \in Nat /\ Len(t) = n + 1 /\ t[n + 1] = x
      /\ \A i \in 1 .. n : s[i] = t[i]
  BY AppendProperties, LenProperties
<1>. HIDE DEF t
<1>2. PICK g : Chain(g, t, n + 1) /\ FlattenSeq(t) = g[n + 1]
  BY <1>1, FlattenIsChain
<1>3. /\ g[1] = t[1]
      /\ \A k \in 1 .. n : g[k + 1] = g[k] \o t[k + 1]
  <2>1. n + 1 \in Nat /\ n + 1 # 0 /\ n + 1 - 1 = n
    BY <1>1
  <2>. DEFINE m == n + 1
  <2>2. m \in Nat /\ m # 0 /\ m - 1 = n /\ Chain(g, t, m)
    BY <1>2, <2>1
  <2>. HIDE DEF m
  <2>3. g[1] = t[1]
    BY <2>2, ChainStart
  <2>4. \A k \in 1 .. m - 1 : g[k + 1] = g[k] \o t[k + 1]
    BY <2>2, ChainLinks DEF Links
  <2>. QED BY <2>2, <2>3, <2>4
<1>4. CASE n = 0
  <2>1. g[1] = x
    BY <1>1, <1>3, <1>4
  <2>2. s = <<>>
    BY <1>4
  <2>3. FlattenSeq(s) \o x = x
    BY <2>2, FlattenEmpty, ConcatEmptySeq
  <2>. QED BY <1>2, <1>4, <2>1, <2>3 DEF t
<1>5. CASE n # 0
  <2>1. PICK f : Chain(f, s, n) /\ FlattenSeq(s) = f[n]
    BY <1>1, <1>5, FlattenIsChain
  <2>2. f[n] = g[n]
    <3>1. \A i \in 1 .. n : f[i] = g[i]
      <4>. HIDE DEF n
      <4>. QED BY <1>1, <1>2, <2>1, ChainsAgree
    <3>. QED BY <1>1, <1>5, <3>1
  <2>3. g[n + 1] = g[n] \o x
    <3>1. n \in 1 .. n
      BY <1>1, <1>5
    <3>. QED BY <1>1, <1>3, <3>1
  <2>. QED BY <1>2, <2>1, <2>2, <2>3 DEF t
<1>. QED BY <1>4, <1>5

(* Induction over sequences: a set of them that has the empty one and with *)
(* each of its members every longer one by an element has them all.        *)
LEMMA SeqSetInduction ==
  ASSUME NEW S, NEW T, <<>> \in T, \A s \in T, x \in S : Append(s, x) \in T
  PROVE  Seq(S) \subseteq T
<1>. DEFINE N == {n \in Nat : \A s \in Seq(S) : Len(s) = n => s \in T}
<1>1. 0 \in N
  <2>1. ASSUME NEW s \in Seq(S), Len(s) = 0 PROVE s = <<>>
    BY <2>1
  <2>. QED BY <2>1
<1>2. ASSUME NEW n \in Nat, n \in N PROVE n + 1 \in N
  <2>. SUFFICES ASSUME NEW s \in Seq(S), Len(s) = n + 1 PROVE s \in T
    OBVIOUS
  <2>1. s # <<>>
    OBVIOUS
  <2>2. PICK r \in Seq(S), x \in S : s = Append(r, x)
    BY <2>1, SequenceEmptyOrAppend
  <2>3. Len(r) \in Nat /\ Len(s) = Len(r) + 1
    BY <2>2, AppendProperties, LenProperties
  <2>4. Len(r) = n
    BY <2>3
  <2>5. r \in T
    BY <1>2, <2>4
  <2>. QED BY <2>2, <2>5
<1>3. Nat \subseteq N
  <2>. HIDE DEF N
  <2>. QED BY <1>1, <1>2, NatSetInduction
<1>4. ASSUME NEW s \in Seq(S) PROVE s \in T
  <2>1. Len(s) \in Nat
    BY LenProperties
  <2>. QED BY <1>3, <2>1
<1>. QED BY <1>4

LEMMA FlattenType ==
  ASSUME NEW S, NEW s \in Seq(Seq(S))
  PROVE  FlattenSeq(s) \in Seq(S)
<1>. DEFINE T == {t \in Seq(Seq(S)) : FlattenSeq(t) \in Seq(S)}
<1>1. <<>> \in T
  BY FlattenEmpty, EmptySeq
<1>2. ASSUME NEW t \in T, NEW x \in Seq(S) PROVE Append(t, x) \in T
  <2>1. FlattenSeq(Append(t, x)) = FlattenSeq(t) \o x
    BY FlattenAppend
  <2>2. FlattenSeq(t) \o x \in Seq(S)
    BY ConcatProperties
  <2>3. Append(t, x) \in Seq(Seq(S))
    BY AppendProperties
  <2>. QED BY <2>1, <2>2, <2>3
<1>3. Seq(Seq(S)) \subseteq T
  <2>. HIDE DEF T
  <2>. QED BY <1>1, <1>2, SeqSetInduction
<1>. QED BY <1>3

Regroups(a, b, c) == (a \o b) \o c = a \o (b \o c)
LEMMA Associative ==
  ASSUME NEW S, NEW a \in Seq(S), NEW b \in Seq(S), NEW c \in Seq(S)
  PROVE  Regroups(a, b, c)
BY ConcatAssociative DEF Regroups

LEMMA ConcatAppend ==
  ASSUME NEW S, NEW a \in Seq(S), NEW b \in Seq(S), NEW c \in S
  PROVE  a \o Append(b, c) = Append(a \o b, c)
<1>1. <<c>> \in Seq(S) /\ a \o b \in Seq(S)
  BY ConcatProperties
<1>2. Append(b, c) = b \o <<c>> /\ Append(a \o b, c) = (a \o b) \o <<c>>
  BY <1>1, AppendIsConcat
<1>3. Regroups(a, b, <<c>>)
  BY <1>1, Associative
<1>. QED BY <1>2, <1>3 DEF Regroups

(* Flattening two lists one after the other joins what each gives.         *)
LEMMA FlattenConcat ==
  ASSUME NEW S, NEW s \in Seq(Seq(S)), NEW t \in Seq(Seq(S))
  PROVE  FlattenSeq(s \o t) = FlattenSeq(s) \o FlattenSeq(t)
<1>. DEFINE T == {u \in Seq(Seq(S)) : FlattenSeq(s \o u) = FlattenSeq(s) \o FlattenSeq(u)}
<1>0. FlattenSeq(s) \in Seq(S)
  BY FlattenType
<1>1. <<>> \in T
  <2>1. s \o <<>> = s
    BY ConcatEmptySeq
  <2>2. FlattenSeq(s) \o FlattenSeq(<<>>) = FlattenSeq(s)
    BY <1>0, FlattenEmpty, ConcatEmptySeq
  <2>3. <<>> \in Seq(Seq(S))
    BY EmptySeq
  <2>. QED BY <2>1, <2>2, <2>3
<1>2. ASSUME NEW u \in T, NEW x \in Seq(S) PROVE Append(u, x) \in T
  <2>1. /\ u \in Seq(Seq(S)) /\ FlattenSeq(s \o u) = FlattenSeq(s) \o FlattenSeq(u)
        /\ FlattenSeq(u) \in Seq(S)
    BY FlattenType
  <2>2. s \o Append(u, x) = Append(s \o u, x)
    <3>1. PICK Q : Q = Seq(S)
      OBVIOUS
    <3>2. s \in Seq(Q) /\ u \in Seq(Q) /\ x \in Q
      BY <2>1, <3>1
    <3>. QED BY ONLY <3>2, ConcatAppend
  <2>3. FlattenSeq(Append(s \o u, x)) = FlattenSeq(s \o u) \o x
    <3>1. s \o u \in Seq(Seq(S))
      BY <2>1, ConcatProperties
    <3>. QED BY <3>1, FlattenAppend
  <2>4. FlattenSeq(Append(u, x)) = FlattenSeq(u) \o x
    BY <2>1, FlattenAppend
  <2>5. (FlattenSeq(s) \o FlattenSeq(u)) \o x = FlattenSeq(s) \o (FlattenSeq(u) \o x)
    <3>1. PICK a, b : a = FlattenSeq(s) /\ b = FlattenSeq(u)
      OBVIOUS
    <3>2. a \in Seq(S) /\ b \in Seq(S) /\ x \in Seq(S)
      BY <1>0, <2>1, <3>1
    <3>3. Regroups(a, b, x)
      BY ONLY <3>2, Associative
    <3>. QED BY <3>1, <3>3 DEF Regroups
  <2>6. Append(u, x) \in Seq(Seq(S))
    BY <2>1, AppendProperties
  <2>. QED BY <2>1, <2>2, <2>3, <2>4, <2>5, <2>6
<1>3. Seq(Seq(S)) \subseteq T
  <2>. HIDE DEF T
  <2>. QED BY <1>1, <1>2, SeqSetInduction
<1>. QED BY <1>3

LEMMA FlattenOne ==
  ASSUME NEW S, NEW x \in Seq(S)
  PROVE  FlattenSeq(<<x>>) = x
<1>1. <<>> \in Seq(Seq(S)) /\ Append(<<>>, x) = <<x>>
  BY EmptySeq
<1>2. FlattenSeq(Append(<<>>, x)) = <<>> \o x
  BY <1>1, FlattenAppend, FlattenEmpty
<1>3. <<>> \o x = x
  BY ConcatEmptySeq
<1>. QED BY <1>1, <1>2, <1>3

LEMMA HeadThenTail ==
  ASSUME NEW S, NEW s \in Seq(S), s # <<>>
  PROVE  s = <<Head(s)>> \o Tail(s) /\ Head(s) \in S /\ Tail(s) \in Seq(S)
<1>1. Head(s) = s[1] /\ Tail(s) = SubSeq(s, 2, Len(s)) /\ Len(s) \in Nat \ {0}
  BY TailIsSubSeq, EmptySeq
<1>2. 1 \in 1 .. Len(s) /\ Len(s) \in 1 .. Len(s)
  BY <1>1
<1>3. SubSeq(s, 1, Len(s)) = << s[1] >> \o SubSeq(s, 1 + 1, Len(s))
  BY <1>2, SubSeqRecursiveFirst
<1>4. SubSeq(s, 1, Len(s)) = s
  BY SubSeqFull
<1>5. Head(s) \in S /\ Tail(s) \in Seq(S)
  BY HeadTailProperties
<1>. QED BY <1>1, <1>3, <1>4, <1>5

(* The first element is joined at the front.                               *)
LEMMA FlattenCons ==
  ASSUME NEW S, NEW s \in Seq(Seq(S)), s # <<>>
  PROVE  /\ Head(s) \in Seq(S) /\ Tail(s) \in Seq(Seq(S))
         /\ FlattenSeq(s) = Head(s) \o FlattenSeq(Tail(s))
<1>1. Head(s) \in Seq(S) /\ Tail(s) \in Seq(Seq(S))
  BY HeadTailProperties
<1>2. <<Head(s)>> \in Seq(Seq(S)) /\ s = <<Head(s)>> \o Tail(s)
  <2>1. PICK Q : Q = Seq(S)
    OBVIOUS
  <2>2. s \in Seq(Q)
    BY <2>1
  <2>3. s = <<Head(s)>> \o Tail(s)
    BY <2>2, HeadThenTail
  <2>4. <<Head(s)>> \in Seq(Seq(S))
    BY <1>1
  <2>. QED BY <2>3, <2>4
<1>3. FlattenSeq(<<Head(s)>> \o Tail(s)) = FlattenSeq(<<Head(s)>>) \o FlattenSeq(Tail(s))
  BY <1>1, <1>2, FlattenConcat
<1>4. FlattenSeq(<<Head(s)>>) = Head(s)
  BY <1>1, FlattenOne
<1>. QED BY <1>1, <1>2, <1>3, <1>4
-----------------------------------------------------------------------------
(* The messages of the capture.                                            *)

(* The messages after the a-th, up to the b-th.                            *)
Messages(a, b) == [i \in 1 .. b - a |-> Encoded(Script[a + i])]

LEMMA ScriptElements ==
  ASSUME NEW i \in 1 .. Len(Script)
  PROVE  Script[i] \in Bodies
<1>1. Script \in Seq(Bodies)
  BY ScriptAssumption
<1>. QED BY <1>1, ElementOfSeq

LEMMA SomeBody ==
  ASSUME NEW b \in Bodies
  PROVE  \/ /\ b.type = VideoChunk /\ b.seq \in Nat /\ b.timestamp \in Nat
            /\ b.is_keyframe \in BOOLEAN /\ b.nal \in Seq(Nat)
         \/ b.type = ImuBatch /\ b.seq \in Nat /\ b.samples \in Seq(Nat)
         \/ /\ b.type = PoseSample /\ b.seq \in Nat /\ b.timestamp \in Nat
            /\ b.tracking_state \in Nat /\ b.pose \in Seq(Nat)
         \/ /\ b.type = PointCloud /\ b.seq \in Nat /\ b.timestamp \in Nat
            /\ b.points \in Seq(Nat)
         \/ b.type = CameraIntrinsics /\ b.seq \in Nat /\ b.intrinsics \in Seq(Nat)
BY DEF Bodies

LEMMA PutTypes ==
  ASSUME NEW n \in Nat
  PROVE  Put16(n) \in Seq(Nat) /\ Put32(n) \in Seq(Nat)
BY FieldType DEF Put16, Put32

(* Every message is a header and a payload.                                *)
LEMMA EncodedIsWrapped ==
  ASSUME NEW b \in Bodies
  PROVE  \E t \in Known \ {VideoConfig}, p \in Seq(Nat) :
             t = b.type /\ b.seq \in Nat /\ Encoded(b) = Wrap(t, b.seq, p)
<1>. USE DEF Known, VideoConfig, VideoChunk, ImuBatch, PoseSample, PointCloud, CameraIntrinsics
<1>1. CASE b.type = VideoChunk
  <2>1. /\ b.seq \in Nat /\ b.timestamp \in Nat /\ b.is_keyframe \in BOOLEAN
        /\ b.nal \in Seq(Nat)
    BY <1>1, SomeBody
  <2>. DEFINE p == <<b.timestamp, IF b.is_keyframe THEN 1 ELSE 0>> \o b.nal
  <2>2. <<b.timestamp, IF b.is_keyframe THEN 1 ELSE 0>> \in Seq(Nat)
    BY <2>1
  <2>3. p \in Seq(Nat)
    BY <2>1, <2>2, ConcatProperties
  <2>4. Encoded(b) = Wrap(16, b.seq, p)
    BY <1>1 DEF Encoded, EncodeVideoChunk
  <2>5. 16 \in Known \ {VideoConfig} /\ b.type = 16
    BY <1>1
  <2>. HIDE DEF p
  <2>. QED BY <2>1, <2>3, <2>4, <2>5
<1>2. CASE b.type = ImuBatch
  <2>1. b.seq \in Nat /\ b.samples \in Seq(Nat)
    BY <1>2, SomeBody
  <2>. DEFINE p == Put16(Len(b.samples)) \o b.samples
  <2>3. p \in Seq(Nat)
    BY <2>1, PutTypes, LenIsNat, ConcatProperties
  <2>4. Encoded(b) = Wrap(32, b.seq, p)
    BY <1>2 DEF Encoded, EncodeImuBatch
  <2>5. 32 \in Known \ {VideoConfig} /\ b.type = 32
    BY <1>2
  <2>. HIDE DEF p
  <2>. QED BY <2>1, <2>3, <2>4, <2>5
<1>3. CASE b.type = PoseSample
  <2>1. /\ b.seq \in Nat /\ b.timestamp \in Nat /\ b.tracking_state \in Nat
        /\ b.pose \in Seq(Nat)
    BY <1>3, SomeBody
  <2>. DEFINE p == <<b.timestamp, b.tracking_state>> \o b.pose
  <2>2. <<b.timestamp, b.tracking_state>> \in Seq(Nat)
    BY <2>1
  <2>3. p \in Seq(Nat)
    BY <2>1, <2>2, ConcatProperties
  <2>4. Encoded(b) = Wrap(48, b.seq, p)
    BY <1>3 DEF Encoded, EncodePoseSample
  <2>5. 48 \in Known \ {VideoConfig} /\ b.type = 48
    BY <1>3
  <2>. HIDE DEF p
  <2>. QED BY <2>1, <2>3, <2>4, <2>5
<1>4. CASE b.type = PointCloud
  <2>1. b.seq \in Nat /\ b.timestamp \in Nat /\ b.points \in Seq(Nat)
    BY <1>4, SomeBody
  <2>. DEFINE p == <<b.timestamp>> \o Put32(Len(b.points)) \o b.points
  <2>2. <<b.timestamp>> \in Seq(Nat)
    BY <2>1
  <2>3. p \in Seq(Nat)
    <3>1. PICK n \in Nat : n = Len(b.points)
      BY <2>1, LenIsNat
    <3>2. Put32(n) \in Seq(Nat)
      BY PutTypes
    <3>. QED BY <2>1, <2>2, <3>1, <3>2, ConcatProperties
  <2>4. Encoded(b) = Wrap(49, b.seq, p)
    BY <1>4 DEF Encoded, EncodePointCloud
  <2>5. 49 \in Known \ {VideoConfig} /\ b.type = 49
    BY <1>4
  <2>. HIDE DEF p
  <2>. QED BY <2>1, <2>3, <2>4, <2>5
<1>5. CASE b.type = CameraIntrinsics
  <2>1. b.seq \in Nat /\ b.intrinsics \in Seq(Nat)
    BY <1>5, SomeBody
  <2>4. Encoded(b) = Wrap(50, b.seq, b.intrinsics)
    BY <1>5 DEF Encoded, EncodeCameraIntrinsics
  <2>. QED BY <1>5, <2>1, <2>4
<1>. QED BY <1>1, <1>2, <1>3, <1>4, <1>5, SomeBody

(* A wrapped message is its header and its payload.                        *)
Headed(m, t, s, p) ==
    /\ m \in Seq(Nat) /\ Len(m) = 3 + Len(p)
    /\ \E h \in Seq(Nat) :
          /\ Len(h) = 3
          /\ h[1] = Len(p) % U32Values /\ h[2] = t /\ h[3] = s % U32Values
          /\ m = h \o p
LEMMA WrapIsHeaded ==
  ASSUME NEW t \in Nat, NEW s \in Nat, NEW p \in Seq(Nat)
  PROVE  Headed(Wrap(t, s, p), t, s, p)
<1>1. \E h \in Seq(Nat) :
          /\ Len(h) = 3
          /\ h[1] = Len(p) % U32Values /\ h[2] = t /\ h[3] = s % U32Values
          /\ Wrap(t, s, p) = h \o p
          /\ Wrap(t, s, p) \in Seq(Nat) /\ Len(Wrap(t, s, p)) = 3 + Len(p)
  BY WrapShape
<1>. QED BY <1>1 DEF Headed

(* The i-th message: it announces its own length.                          *)
LEMMA MessageShape ==
  ASSUME NEW i \in 1 .. Len(Script)
  PROVE  /\ Encoded(Script[i]) \in Seq(Nat) /\ Len(Encoded(Script[i])) \in Nat
         /\ Len(Encoded(Script[i])) >= 3
         /\ Encoded(Script[i])[1] = Len(Encoded(Script[i])) - 3
<1>1. Script[i] \in Bodies
  BY ScriptElements
<1>2. PICK t \in Known \ {VideoConfig}, p \in Seq(Nat) :
          Script[i].seq \in Nat /\ Encoded(Script[i]) = Wrap(t, Script[i].seq, p)
  BY <1>1, EncodedIsWrapped
<1>3. t \in Nat
  BY DEF Known, VideoConfig, VideoChunk, ImuBatch, PoseSample, PointCloud, CameraIntrinsics
<1>4. PICK m : m = Encoded(Script[i])
  OBVIOUS
<1>5. PICK h \in Seq(Nat) :
          /\ Len(h) = 3 /\ h[1] = Len(p) % U32Values
          /\ m = h \o p /\ m \in Seq(Nat) /\ Len(m) = 3 + Len(p)
  <2>1. PICK n \in Nat : n = Script[i].seq
    BY <1>2
  <2>2. m = Wrap(t, n, p) /\ t \in Nat /\ n \in Nat /\ p \in Seq(Nat)
    BY <1>2, <1>3, <1>4, <2>1
  <2>3. Headed(m, t, n, p)
    BY <2>2, WrapIsHeaded
  <2>. QED BY <2>3 DEF Headed
<1>6. Len(p) \in Nat
  BY LenIsNat
<1>7. Len(m) < 3 + U32Values
  BY <1>4, ScriptFits, ScriptAssumption DEF HeaderSize, Fits
<1>8. Len(p) % U32Values = Len(p)
  <2>1. U32Values \in Nat \ {0} /\ Len(p) < U32Values
    BY <1>5, <1>6, <1>7, WidthAssumption
  <2>. QED BY <1>6, <2>1, FieldKeeps
<1>9. m[1] = h[1]
  BY <1>5, ConcatPrefix
<1>. QED BY <1>4, <1>5, <1>6, <1>8, <1>9

(* A message at the head of a file or a buffer is found there.             *)
LEMMA MessageAtHead ==
  ASSUME NEW m \in Seq(Nat), NEW rest \in Seq(Nat), Len(m) >= 3, m[1] = Len(m) - 3
  PROVE  /\ m \o rest \in Seq(Nat)
         /\ Len(m \o rest) = Len(m) + Len(rest) /\ Len(m) \in Nat /\ Len(rest) \in Nat
         /\ HasHeader(m \o rest) /\ Total(m \o rest) = Len(m)
         /\ SubSeq(m \o rest, 1, Len(m)) = m
         /\ Cut(m \o rest, Total(m \o rest) + 1) = rest
         /\ \A i \in 1 .. Len(m) : (m \o rest)[i] = m[i]
<1>. DEFINE b == m \o rest
<1>1. b \in Seq(Nat) /\ Len(b) = Len(m) + Len(rest) /\ Len(m) \in Nat /\ Len(rest) \in Nat
  BY ConcatProperties, LenIsNat
<1>2. \A i \in 1 .. Len(m) : b[i] = m[i]
  BY ConcatPrefix
<1>3. SubSeq(b, 1, Len(m)) = m /\ SubSeq(b, Len(m) + 1, Len(b)) = rest
  BY CutAtSeam
<1>. HIDE DEF b
<1>4. HasHeader(b)
  BY <1>1 DEF HasHeader, HeaderSize
<1>5. Total(b) = Len(m)
  <2>1. b[1] = Len(m) - 3
    BY <1>1, <1>2
  <2>. QED BY <1>1, <2>1 DEF Total, HeaderSize
<1>6. Cut(b, Total(b) + 1) = rest
  BY <1>3, <1>5 DEF Cut
<1>. QED BY <1>1, <1>2, <1>3, <1>4, <1>5, <1>6 DEF b

LEMMA MessagesType ==
  ASSUME NEW a \in Nat, NEW b \in Nat, a <= b, b <= Len(Script)
  PROVE  Messages(a, b) \in Seq(Seq(Nat)) /\ Len(Messages(a, b)) = b - a
<1>1. Len(Script) \in Nat
  BY ScriptAssumption, LenProperties
<1>2. \A i \in 1 .. b - a : a + i \in 1 .. Len(Script)
  BY <1>1
<1>3. \A i \in 1 .. b - a : Encoded(Script[a + i]) \in Seq(Nat)
  BY <1>2, MessageShape
<1>4. b - a \in Nat
  OBVIOUS
<1>. QED BY <1>3, <1>4 DEF Messages

LEMMA NoMessages ==
  ASSUME NEW a \in Nat
  PROVE  Messages(a, a) = <<>>
<1>1. 1 .. a - a = {}
  OBVIOUS
<1>. QED BY <1>1 DEF Messages

(* One more message written comes last.                                    *)
LEMMA MessagesGrow ==
  ASSUME NEW a \in Nat, NEW b \in Nat, a <= b, b < Len(Script)
  PROVE  Append(Messages(a, b), Encoded(Script[b + 1])) = Messages(a, b + 1)
<1>1. Len(Script) \in Nat
  BY ScriptAssumption, LenProperties
<1>2. /\ Messages(a, b) \in Seq(Seq(Nat)) /\ Len(Messages(a, b)) = b - a
      /\ Messages(a, b + 1) \in Seq(Seq(Nat)) /\ Len(Messages(a, b + 1)) = (b + 1) - a
  <2>1. b <= Len(Script)
    BY <1>1
  <2>2. PICK c \in Nat : c = b + 1
    OBVIOUS
  <2>3. a <= c /\ c <= Len(Script)
    BY <1>1, <2>2
  <2>4. Messages(a, b) \in Seq(Seq(Nat)) /\ Len(Messages(a, b)) = b - a
    BY <2>1, MessagesType
  <2>5. Messages(a, c) \in Seq(Seq(Nat)) /\ Len(Messages(a, c)) = c - a
    BY <2>3, MessagesType
  <2>. QED BY <2>2, <2>4, <2>5
<1>3. PICK m, s, r : m = Encoded(Script[b + 1]) /\ s = Messages(a, b) /\ r = Messages(a, b + 1)
  OBVIOUS
<1>4. m \in Seq(Nat)
  BY <1>1, <1>3, MessageShape
<1>5. /\ Append(s, m) \in Seq(Seq(Nat)) /\ Len(Append(s, m)) = (b - a) + 1
      /\ \A i \in 1 .. b - a : Append(s, m)[i] = s[i]
      /\ Append(s, m)[(b - a) + 1] = m
  <2>1. s \in Seq(Seq(Nat)) /\ Len(s) = b - a /\ b - a \in Nat
    BY <1>2, <1>3
  <2>. QED BY <1>4, <2>1, AppendProperties
<1>6. ASSUME NEW i \in 1 .. (b - a) + 1 PROVE Append(s, m)[i] = r[i]
  <2>1. r[i] = Encoded(Script[a + i])
    BY <1>3 DEF Messages
  <2>2. CASE i <= b - a
    <3>1. s[i] = Encoded(Script[a + i])
      BY <1>3, <2>2 DEF Messages
    <3>. QED BY <1>5, <2>1, <2>2, <3>1
  <2>3. CASE i = (b - a) + 1
    <3>1. a + i = b + 1
      BY <2>3
    <3>. QED BY <1>3, <1>5, <2>1, <2>3, <3>1
  <2>4. i <= b - a \/ i = (b - a) + 1
    OBVIOUS
  <2>. QED BY <2>2, <2>3, <2>4
<1>7. r \in Seq(Seq(Nat)) /\ Len(r) = (b - a) + 1
  BY <1>2, <1>3
<1>8. Append(s, m) = r
  BY <1>5, <1>6, <1>7, SeqEqual
<1>. QED BY <1>3, <1>8

(* A message taken is the first of them.                                   *)
LEMMA MessagesFirst ==
  ASSUME NEW a \in Nat, NEW b \in Nat, a < b, b <= Len(Script)
  PROVE  /\ Messages(a, b) # <<>> /\ Messages(a, b) \in Seq(Seq(Nat))
         /\ Head(Messages(a, b)) = Encoded(Script[a + 1])
         /\ Tail(Messages(a, b)) = Messages(a + 1, b)
<1>1. PICK s, r : s = Messages(a, b) /\ r = Messages(a + 1, b)
  OBVIOUS
<1>2. s \in Seq(Seq(Nat)) /\ Len(s) = b - a
  <2>1. a <= b
    OBVIOUS
  <2>2. Messages(a, b) \in Seq(Seq(Nat)) /\ Len(Messages(a, b)) = b - a
    BY <2>1, MessagesType
  <2>. QED BY <1>1, <2>2
<1>3. r \in Seq(Seq(Nat)) /\ Len(r) = b - (a + 1)
  <2>1. PICK c \in Nat : c = a + 1
    OBVIOUS
  <2>2. c <= b
    BY <2>1
  <2>3. Messages(c, b) \in Seq(Seq(Nat)) /\ Len(Messages(c, b)) = b - c
    BY <2>2, MessagesType
  <2>. QED BY <1>1, <2>1, <2>3
<1>4. s # <<>>
  BY <1>2, EmptySeq
<1>5. s[1] = Encoded(Script[a + 1])
  BY <1>1 DEF Messages
<1>6. /\ Head(s) = s[1] /\ Tail(s) \in Seq(Seq(Nat)) /\ Len(Tail(s)) = Len(s) - 1
      /\ \A i \in 1 .. Len(Tail(s)) : Tail(s)[i] = s[i + 1]
  BY <1>2, <1>4, HeadTailProperties
<1>7. ASSUME NEW i \in 1 .. b - (a + 1) PROVE Tail(s)[i] = r[i]
  <2>1. PICK j \in 1 .. b - a : j = i + 1
    OBVIOUS
  <2>2. Tail(s)[i] = s[j]
    BY <1>2, <1>6, <2>1
  <2>3. s[j] = Encoded(Script[a + j]) /\ r[i] = Encoded(Script[(a + 1) + i])
    BY <1>1 DEF Messages
  <2>4. a + j = (a + 1) + i
    BY <2>1
  <2>. QED BY <2>2, <2>3, <2>4
<1>8. Tail(s) = r
  <2>1. Len(Tail(s)) = b - (a + 1)
    BY <1>2, <1>6
  <2>. QED BY <1>3, <1>6, <1>7, <2>1, SeqEqual
<1>. QED BY <1>1, <1>2, <1>4, <1>5, <1>6, <1>8

(* The cells of some messages, the first taken apart.                      *)
FirstApart(a, b) ==
    LET m == Encoded(Script[a + 1])
        rest == FlattenSeq(Messages(a + 1, b))
    IN  /\ m \in Seq(Nat) /\ Len(m) >= 3 /\ m[1] = Len(m) - 3
        /\ rest \in Seq(Nat)
        /\ FlattenSeq(Messages(a, b)) = m \o rest
LEMMA CellsFirst ==
  ASSUME NEW a \in Nat, NEW b \in Nat, a < b, b <= Len(Script)
  PROVE  FirstApart(a, b)
<1>1. PICK m, rest : m = Encoded(Script[a + 1]) /\ rest = FlattenSeq(Messages(a + 1, b))
  OBVIOUS
<1>2. m \in Seq(Nat) /\ Len(m) >= 3 /\ m[1] = Len(m) - 3
  <2>1. PICK i \in 1 .. Len(Script) : i = a + 1
    <3>1. Len(Script) \in Nat
      BY ScriptAssumption, LenProperties
    <3>. QED BY <3>1
  <2>. QED BY <1>1, <2>1, MessageShape
<1>3. rest \in Seq(Nat)
  <2>1. PICK c \in Nat : c = a + 1
    OBVIOUS
  <2>2. c <= b
    BY <2>1
  <2>3. Messages(c, b) \in Seq(Seq(Nat))
    BY <2>2, MessagesType
  <2>. QED BY <1>1, <2>1, <2>3, FlattenType
<1>4. FlattenSeq(Messages(a, b)) = m \o rest
  <2>1. PICK s : s = Messages(a, b)
    OBVIOUS
  <2>2. s # <<>> /\ s \in Seq(Seq(Nat)) /\ Head(s) = m /\ FlattenSeq(Tail(s)) = rest
    BY <1>1, <2>1, MessagesFirst
  <2>3. FlattenSeq(s) = Head(s) \o FlattenSeq(Tail(s))
    BY <2>2, FlattenCons
  <2>. QED BY <2>1, <2>2, <2>3
<1>. QED BY <1>1, <1>2, <1>3, <1>4 DEF FirstApart

LEMMA CellsLast ==
  ASSUME NEW a \in Nat, NEW b \in Nat, a <= b, b < Len(Script)
  PROVE  LET m == Encoded(Script[b + 1])
             cells == FlattenSeq(Messages(a, b))
         IN  /\ m \in Seq(Nat) /\ Len(m) >= 3 /\ m[1] = Len(m) - 3
             /\ cells \in Seq(Nat)
             /\ FlattenSeq(Messages(a, b + 1)) = cells \o m
<1>0. Len(Script) \in Nat
  BY ScriptAssumption, LenProperties
<1>1. PICK m, s : m = Encoded(Script[b + 1]) /\ s = Messages(a, b)
  OBVIOUS
<1>2. m \in Seq(Nat) /\ Len(m) >= 3 /\ m[1] = Len(m) - 3
  <2>1. PICK i \in 1 .. Len(Script) : i = b + 1
    BY <1>0
  <2>. QED BY <1>1, <2>1, MessageShape
<1>3. s \in Seq(Seq(Nat))
  <2>1. b <= Len(Script)
    BY <1>0
  <2>. QED BY <1>1, <2>1, MessagesType
<1>4. FlattenSeq(s) \in Seq(Nat)
  BY <1>3, FlattenType
<1>5. Append(s, m) = Messages(a, b + 1)
  BY <1>1, MessagesGrow
<1>6. FlattenSeq(Append(s, m)) = FlattenSeq(s) \o m
  BY <1>2, <1>3, FlattenAppend
<1>. QED BY <1>1, <1>2, <1>4, <1>5, <1>6

(* No two messages have no cells.                                          *)
LEMMA CellsAreSome ==
  ASSUME NEW a \in Nat, NEW b \in Nat, a <= b, b <= Len(Script)
  PROVE  /\ FlattenSeq(Messages(a, b)) \in Seq(Nat)
         /\ Len(FlattenSeq(Messages(a, b))) \in Nat
         /\ a < b <=> FlattenSeq(Messages(a, b)) # <<>>
         /\ a < b => Len(FlattenSeq(Messages(a, b))) >= 3
         /\ a = b => Len(FlattenSeq(Messages(a, b))) = 0
<1>1. PICK c : c = FlattenSeq(Messages(a, b))
  OBVIOUS
<1>2. CASE a < b
  <2>1. PICK m, rest : /\ m \in Seq(Nat) /\ Len(m) >= 3 /\ m[1] = Len(m) - 3
                       /\ rest \in Seq(Nat) /\ c = m \o rest
    <3>1. FirstApart(a, b)
      BY <1>2, CellsFirst
    <3>. QED BY <1>1, <3>1 DEF FirstApart
  <2>2. c \in Seq(Nat) /\ Len(c) = Len(m) + Len(rest)
    BY <2>1, MessageAtHead
  <2>3. Len(m) \in Nat /\ Len(rest) \in Nat
    BY <2>1, LenIsNat
  <2>4. Len(c) >= 3 /\ Len(c) \in Nat
    BY <2>1, <2>2, <2>3
  <2>5. c # <<>>
    BY <2>2, <2>4, EmptySeq
  <2>. QED BY <1>1, <1>2, <2>2, <2>4, <2>5
<1>3. CASE a = b
  <2>1. c = <<>>
    BY <1>1, <1>3, NoMessages, FlattenEmpty
  <2>2. c \in Seq(Nat) /\ Len(c) = 0
    BY <2>1, EmptySeq
  <2>. QED BY <1>1, <1>3, <2>1, <2>2
<1>. QED BY <1>2, <1>3

(* Two runs of messages that meet are one run.                             *)
LEMMA MessagesMeet ==
  ASSUME NEW a \in Nat, NEW b \in Nat, NEW c \in Nat, a <= b, b <= c, c <= Len(Script)
  PROVE  Messages(a, b) \o Messages(b, c) = Messages(a, c)
<1>1. PICK s, t, r : s = Messages(a, b) /\ t = Messages(b, c) /\ r = Messages(a, c)
  OBVIOUS
<1>2. s \in Seq(Seq(Nat)) /\ Len(s) = b - a
  <2>1. b <= Len(Script)
    BY ScriptAssumption, LenProperties
  <2>. QED BY <1>1, <2>1, MessagesType
<1>3. t \in Seq(Seq(Nat)) /\ Len(t) = c - b
  BY <1>1, MessagesType
<1>4. r \in Seq(Seq(Nat)) /\ Len(r) = c - a
  <2>1. a <= c
    OBVIOUS
  <2>. QED BY <1>1, <2>1, MessagesType
<1>5. s \o t \in Seq(Seq(Nat)) /\ Len(s \o t) = c - a
  BY <1>2, <1>3, ConcatProperties
<1>6. ASSUME NEW i \in 1 .. c - a PROVE (s \o t)[i] = r[i]
  <2>1. r[i] = Encoded(Script[a + i])
    BY <1>1 DEF Messages
  <2>2. (s \o t)[i] = IF i <= b - a THEN s[i] ELSE t[i - (b - a)]
    <3>1. i \in 1 .. Len(s) + Len(t)
      BY <1>2, <1>3
    <3>2. (s \o t)[i] = IF i <= Len(s) THEN s[i] ELSE t[i - Len(s)]
      BY <1>2, <1>3, <3>1, ConcatProperties
    <3>. QED BY <1>2, <3>2
  <2>3. CASE i <= b - a
    <3>1. s[i] = Encoded(Script[a + i])
      BY <1>1, <2>3 DEF Messages
    <3>. QED BY <2>1, <2>2, <2>3, <3>1
  <2>4. CASE ~(i <= b - a)
    <3>1. PICK j \in 1 .. c - b : j = i - (b - a)
      BY <2>4
    <3>2. t[j] = Encoded(Script[b + j])
      BY <1>1 DEF Messages
    <3>3. b + j = a + i
      BY <3>1
    <3>. QED BY <2>1, <2>2, <2>4, <3>1, <3>2, <3>3
  <2>. QED BY <2>3, <2>4
<1>7. s \o t = r
  BY <1>4, <1>5, <1>6, SeqEqual
<1>. QED BY <1>1, <1>7

(* Joining cells is associative.                                           *)
LEMMA CellsAssociative ==
  ASSUME NEW a \in Seq(Nat), NEW b \in Seq(Nat), NEW c \in Seq(Nat)
  PROVE  (a \o b) \o c = a \o (b \o c)
<1>1. PICK S : S = Nat
  OBVIOUS
<1>2. a \in Seq(S) /\ b \in Seq(S) /\ c \in Seq(S)
  BY <1>1
<1>3. Regroups(a, b, c)
  BY ONLY <1>2, Associative
<1>. QED BY <1>3 DEF Regroups

(* A message, as the framing sees it; the cells of less than one.          *)
Wholes == {m \in Seq(Nat) : Len(m) >= 3 /\ m[1] = Len(m) - 3}
Torn(t) == t \in Seq(Nat) /\ ~HasMessage(t)

LEMMA WholesAreSeqs == Seq(Wholes) \subseteq Seq(Seq(Nat))
BY DEF Wholes

-----------------------------------------------------------------------------
(* The inductive invariant.                                                *)

PhoneTypes ==
    /\ written \in 0 .. Len(Script)
    /\ config_cached \in BOOLEAN /\ running_ \in BOOLEAN /\ config_sent \in BOOLEAN
    /\ sender \in {"off", "on", "done"}
    /\ damage \in 0 .. written /\ breaks \in 0 .. MaxBreaks
    /\ sent \in Nat

(* The counts the sink keeps of its spool.                                 *)
SpoolCounts ==
    /\ unread \in Seq(Nat) /\ at_eof \in BOOLEAN /\ overflowing_ \in BOOLEAN
    /\ spool_write_file_ \in BOOLEAN /\ spool_read_file_ \in BOOLEAN
    /\ spool_read_pos_ \in Nat /\ spool_write_pos_ \in Nat /\ refusals \in Nat
    /\ spool_read_file_ => spool_write_file_
    /\ spool_write_file_ => overflowing_
    /\ overflowing_ /\ ~(spool_write_file_ /\ spool_read_file_) => refusals > 0
    /\ spool_write_file_ => spool_read_pos_ < spool_write_pos_
    /\ ~spool_write_file_ => spool_read_pos_ = 0 /\ spool_write_pos_ = 0

MemoryCounts ==
    /\ memory_queue_ \in Seq(Seq(Nat))
    /\ memory_bytes_ = Len(FlattenSeq(memory_queue_))

(* Whatever memory holds has the length its header says.                   *)
MemoryWhole == memory_queue_ \in Seq(Wholes)

(* How many messages were queued whole: the disk has cut the next one, if  *)
(* any.                                                                    *)
Whole == IF damage = 0 THEN written ELSE damage - 1

(* In the file are the messages after the g-th, up to the damage; behind   *)
(* them what the disk took of later ones, and extra cells by the positions.*)
Spooled(g, rest, extra) ==
    /\ rest \in Seq(Nat) /\ extra \in Nat
    /\ unread = FlattenSeq(Messages(g, Whole)) \o rest
    /\ spool_write_pos_ - spool_read_pos_ = Len(FlattenSeq(Messages(g, Whole))) + extra
    /\ damage = 0 => rest = <<>> /\ extra = 0
    /\ damage # 0 => extra > 0
    /\ spool_write_file_ <=> g < Whole \/ damage # 0

(* The messages after the f-th are left: up to the g-th in memory, the     *)
(* rest in the file.                                                       *)
Holds(f, g) ==
    /\ f \in 0 .. g /\ g \in 0 .. Whole
    /\ memory_queue_ = Messages(f, g)
    /\ \E rest, extra : Spooled(g, rest, extra)

(* So it is until the damaged message comes to be read.                    *)
InOrder ==
    \/ ~at_eof /\ \E g \in 0 .. Whole : Holds(sent, g)
    \/ damage # 0 /\ sent >= damage - 1

QueueInv == PhoneTypes /\ SpoolCounts /\ MemoryCounts /\ MemoryWhole /\ InOrder

-----------------------------------------------------------------------------
(* The steps that move the queue.                                          *)

WriteToMemory ==
    /\ written < Len(Script) /\ written' = written + 1
    /\ EnqueueMemory(Encoded(Script[written + 1]))
WriteToSpool ==
    /\ written < Len(Script) /\ written' = written + 1
    /\ EnqueueSpool(Encoded(Script[written + 1]))
DropForTheDisk ==
    /\ overflowing_' = TRUE /\ SpoolRefused
    /\ UNCHANGED <<written, memoryVars, damage>>
TakeFromMemory ==
    /\ PopMemory /\ written' = written
    /\ memory_queue_' = Tail(memory_queue_)
    /\ memory_bytes_' = memory_bytes_ - Len(Head(memory_queue_))
TakeFromSpool ==
    /\ PopSpool /\ written' = written
    /\ UNCHANGED memoryVars
BackToMemory ==
    /\ PopMemory /\ written' = written
    /\ memory_queue_' = <<Head(memory_queue_)>> \o Tail(memory_queue_)
    /\ memory_bytes_' = memory_bytes_ + 0
SpoolToMemory ==
    /\ PopSpool /\ written' = written
    /\ memory_queue_' = <<SpoolMessage>> \o <<>>
    /\ memory_bytes_' = memory_bytes_ + Len(SpoolMessage)
ReadShort ==
    /\ memory_queue_ = <<>> /\ overflowing_ /\ SpoolPopShort
    /\ UNCHANGED <<written, memoryVars, overflowing_, damage>>

(* The steps that send nothing, by what they do to the queue.              *)
LEMMA KeepKinds ==
  ASSUME [Next]_vars, ~SendNext
  PROVE  /\ sent' = sent
         /\ \/ UNCHANGED <<written, queueVars>>
            \/ WriteToMemory \/ WriteToSpool \/ DropForTheDisk
            \/ BackToMemory \/ SpoolToMemory
            \/ ReadShort
<1>. USE DEF vars, phoneVars, queueVars, memoryVars, spoolFiles, spoolFileVars, historyVars
<1>1. CASE UNCHANGED vars
  BY <1>1
<1>2. CASE Write
  BY <1>2 DEF Write, WriteToMemory, WriteToSpool
<1>3. CASE WriteVideoConfig
  BY <1>3 DEF WriteVideoConfig
<1>7. CASE WriteDropped
  BY <1>7 DEF WriteDropped, DropForTheDisk
<1>4. CASE Close
  BY <1>4 DEF Close
<1>5. CASE Connect
  BY <1>5 DEF Connect
<1>6. CASE SendConfig
  BY <1>6 DEF SendConfig
<1>8. CASE SendFails
  <2>1. CASE config_cached /\ ~config_sent
    BY <1>8, <2>1 DEF SendFails
  <2>2. CASE ~(config_cached /\ ~config_sent)
    <3>1. Requeue /\ written' = written /\ sent' = sent
      BY <1>8, <2>2 DEF SendFails
    <3>2. CASE PopMemory
      BY <3>1, <3>2 DEF Requeue, SentAgain, NextToSend, PopMemory, BackToMemory
    <3>3. CASE PopSpool
      BY <3>1, <3>3 DEF Requeue, SentAgain, NextToSend, PopSpool, SpoolToMemory
    <3>. QED BY <3>1, <3>2, <3>3 DEF Requeue
  <2>. QED BY <2>1, <2>2
<1>9. CASE PopShort
  BY <1>9 DEF PopShort, ReadShort
<1>10. CASE Exit
  BY <1>10 DEF Exit
<1>11. CASE Break
  BY <1>11 DEF Break
<1>12. CASE Sessions
  BY <1>12 DEF Sessions, Session, Read, Handle, EndSession
<1>13. CASE Terminated
  BY <1>13 DEF Terminated
<1>. QED
  BY <1>1, <1>2, <1>3, <1>4, <1>5, <1>6, <1>7, <1>8, <1>9, <1>10, <1>11, <1>12, <1>13
  DEF Next, Capture, Sender

(* The steps that send a message take it from memory or from the file.     *)
LEMMA TakeKinds ==
  ASSUME SendNext
  PROVE  TakeFromMemory \/ TakeFromSpool
<1>. USE DEF phoneVars, queueVars, memoryVars, spoolFiles, spoolFileVars
<1>1. CASE PopMemory
  BY <1>1 DEF SendNext, PopMemory, TakeFromMemory, NextToSend
<1>2. CASE PopSpool
  BY <1>2 DEF SendNext, PopSpool, TakeFromSpool
<1>. QED BY <1>1, <1>2 DEF SendNext

(* Every step is of one of these kinds.                                    *)
LEMMA StepKinds ==
  ASSUME [Next]_vars
  PROVE  \/ UNCHANGED <<written, queueVars>>
         \/ WriteToMemory \/ WriteToSpool \/ DropForTheDisk
         \/ TakeFromMemory \/ TakeFromSpool
         \/ BackToMemory \/ SpoolToMemory
         \/ ReadShort
BY KeepKinds, TakeKinds

LEMMA ScriptLength == Len(Script) \in Nat
BY ScriptAssumption, LenProperties

(* Every step keeps the types of the phone.                                *)
LEMMA PhoneTypesStep ==
  PhoneTypes /\ [Next]_vars => PhoneTypes'
<1>. SUFFICES ASSUME PhoneTypes, [Next]_vars PROVE PhoneTypes'
  OBVIOUS
<1>. USE ScriptLength
     DEF PhoneTypes, vars, phoneVars, queueVars, memoryVars, spoolFiles, spoolFileVars, historyVars
<1>1. CASE UNCHANGED vars
  BY <1>1
<1>2. CASE Write
  <2>1. written' \in 0 .. Len(Script) /\ written' = written + 1
    BY <1>2 DEF Write
  <2>2. damage' \in 0 .. written'
    <3>1. CASE EnqueueMemory(Encoded(Script[written + 1]))
      BY <2>1, <3>1 DEF EnqueueMemory
    <3>2. CASE EnqueueSpool(Encoded(Script[written + 1]))
      <4>1. damage' \in {written + 1, damage}
        BY <3>2 DEF EnqueueSpool
      <4>. QED BY <2>1, <4>1
    <3>. QED BY <1>2, <3>1, <3>2 DEF Write
  <2>. QED BY <1>2, <2>1, <2>2 DEF Write
<1>3. CASE WriteVideoConfig
  BY <1>3 DEF WriteVideoConfig
<1>14. CASE WriteDropped
  BY <1>14 DEF WriteDropped
<1>4. CASE Close
  BY <1>4 DEF Close
<1>5. CASE Connect
  BY <1>5 DEF Connect
<1>6. CASE SendConfig
  BY <1>6 DEF SendConfig
<1>7. CASE SendNext
  BY <1>7 DEF SendNext, PopMemory, PopSpool
<1>8. CASE SendFails
  <2>1. damage' = damage
    BY <1>8 DEF SendFails, Requeue, PopMemory, PopSpool
  <2>2. breaks' \in 0 .. MaxBreaks
    BY <1>8, ConnectionBounds DEF SendFails, CutOff
  <2>. QED BY <1>8, <2>1, <2>2 DEF SendFails
<1>9. CASE PopShort
  BY <1>9 DEF PopShort
<1>10. CASE Exit
  BY <1>10 DEF Exit
<1>11. CASE Break
  BY <1>11, ConnectionBounds DEF Break, CutOff
<1>12. CASE Sessions
  BY <1>12 DEF Sessions, Session, Read, Handle, EndSession
<1>13. CASE Terminated
  BY <1>13 DEF Terminated
<1>. QED
  BY <1>1, <1>2, <1>3, <1>4, <1>5, <1>6, <1>7, <1>8, <1>9, <1>10, <1>11, <1>12, <1>13, <1>14
  DEF Next, Capture, Sender

LEMMA WrittenMessage ==
  ASSUME written \in 0 .. Len(Script), written < Len(Script)
  PROVE  LET m == Encoded(Script[written + 1])
         IN  m \in Seq(Nat) /\ Len(m) \in Nat /\ Len(m) >= 3 /\ m[1] = Len(m) - 3
<1>1. PICK i \in 1 .. Len(Script) : i = written + 1
  BY ScriptLength
<1>. QED BY <1>1, MessageShape

LEMMA SpoolMessageType ==
  ASSUME unread \in Seq(Nat), HasHeader(unread)
  PROVE  /\ Total(unread) \in Nat /\ Total(unread) >= 3
         /\ SpoolMessage \in Seq(Nat) /\ Len(SpoolMessage) = Total(unread)
<1>1. Len(unread) \in Nat /\ Len(unread) >= 3 /\ \A i \in 1 .. Len(unread) : unread[i] \in Nat
  BY LenIsNat, ElementOfSeq DEF HasHeader, HeaderSize
<1>2. Total(unread) \in Nat /\ Total(unread) >= 3
  <2>1. unread[1] \in Nat
    BY <1>1
  <2>. QED BY <2>1 DEF Total, HeaderSize
<1>3. PICK n \in Nat : n = Total(unread)
  BY <1>2
<1>4. SpoolMessage = [i \in 1 .. n |-> IF i <= Len(unread) THEN unread[i] ELSE 0]
  BY <1>3 DEF SpoolMessage
<1>5. \A i \in 1 .. n : (IF i <= Len(unread) THEN unread[i] ELSE 0) \in Nat
  BY <1>1
<1>. QED BY <1>2, <1>3, <1>4, <1>5

(* A message read from the spool leaves positions and file in agreement.   *)
LEMMA SpoolPopCounts ==
  ASSUME SpoolCounts, SpoolPop, overflowing_' = spool_write_file_'
  PROVE  SpoolCounts'
<1>. USE DEF SpoolCounts
<1>1. HasHeader(unread)
  BY DEF SpoolPop, SpoolReadable
<1>2. Total(unread) \in Nat
  BY <1>1, SpoolMessageType
<1>3. PICK r : r = spool_read_pos_ + Total(unread)
  OBVIOUS
<1>4. CASE Drained(r)
  <2>1. /\ spool_write_file_' = FALSE /\ spool_read_file_' = FALSE
        /\ unread' = <<>> /\ at_eof' = FALSE
        /\ spool_read_pos_' = 0 /\ spool_write_pos_' = 0 /\ refusals' = refusals
    BY <1>3, <1>4 DEF SpoolPop
  <2>2. <<>> \in Seq(Nat)
    BY EmptySeq
  <2>. QED BY <2>1, <2>2
<1>5. CASE ~Drained(r)
  <2>1. /\ unread' = Cut(unread, Total(unread) + 1)
        /\ at_eof' = (Len(unread) < Total(unread))
        /\ spool_read_pos_' = r
        /\ UNCHANGED <<spool_write_file_, spool_read_file_, spool_write_pos_, refusals>>
    BY <1>3, <1>5 DEF SpoolPop, spoolFiles
  <2>2. unread' \in Seq(Nat)
    <3>1. Len(unread) \in Nat /\ Total(unread) + 1 \in Nat /\ Total(unread) + 1 >= 1
      BY <1>2, LenIsNat
    <3>2. \A i \in Total(unread) + 1 .. Len(unread) : unread[i] \in Nat
      BY <1>2, <3>1, ElementOfSeq
    <3>3. PICK k \in Nat : k = Total(unread) + 1
      BY <3>1
    <3>4. SubSeq(unread, k, Len(unread)) \in Seq(Nat)
      BY <3>1, <3>2, <3>3, SubSeqProperties
    <3>. QED BY <2>1, <3>3, <3>4 DEF Cut
  <2>3. r \in Nat /\ r < spool_write_pos_
    BY <1>2, <1>3, <1>5 DEF Drained
  <2>. QED BY <2>1, <2>2, <2>3
<1>. QED BY <1>4, <1>5

(* A file that is opened for a message starts at position 0, and the       *)
(* positions were there already.                                           *)
LEMMA AppendMoves ==
  ASSUME SpoolCounts, NEW message, NEW n, SpoolAppend(message, n)
  PROVE  /\ spool_write_pos_' = spool_write_pos_ + Len(message)
         /\ spool_read_pos_' = spool_read_pos_
         /\ spool_write_file_'
BY DEF SpoolCounts, SpoolAppend, SpoolOpened, WritePosAfter, Kept, spoolFiles

(* Every step keeps positions and file in agreement.                       *)
LEMMA SpoolCountsStep ==
  PhoneTypes /\ SpoolCounts /\ [Next]_vars => SpoolCounts'
<1>. SUFFICES ASSUME PhoneTypes, SpoolCounts, [Next]_vars PROVE SpoolCounts'
  OBVIOUS
<1>. USE DEF SpoolCounts, queueVars, memoryVars, spoolFiles, spoolFileVars
<1>1. CASE UNCHANGED <<written, queueVars>>
  BY <1>1
<1>2. CASE WriteToMemory
  BY <1>2 DEF WriteToMemory, EnqueueMemory
<1>3. CASE WriteToSpool
  <2>1. PICK m : m = Encoded(Script[written + 1])
    OBVIOUS
  <2>2. m \in Seq(Nat) /\ Len(m) \in Nat /\ Len(m) >= 3
    BY <1>3, <2>1, WrittenMessage DEF WriteToSpool, PhoneTypes
  <2>3. PICK n \in 0 .. Len(m) : SpoolAppend(m, n)
    BY <1>3, <2>1 DEF WriteToSpool, EnqueueSpool
  <2>4. SubSeq(m, 1, n) \in Seq(Nat)
    <3>1. \A i \in 1 .. n : m[i] \in Nat
      BY <2>2, ElementOfSeq
    <3>2. n \in Nat
      BY <2>2
    <3>. QED BY <2>2, <3>1, <3>2, SubSeqProperties
  <2>5. unread' \in Seq(Nat)
    BY <2>3, <2>4, ConcatProperties DEF SpoolAppend
  <2>6. spool_write_pos_' = spool_write_pos_ + Len(m) /\ spool_read_pos_' = spool_read_pos_
    BY <2>3, AppendMoves
  <2>7. overflowing_' = TRUE /\ at_eof' = at_eof /\ SpoolOpened
    BY <1>3, <2>3 DEF WriteToSpool, EnqueueSpool, SpoolAppend
  <2>9. /\ spool_write_file_' = TRUE /\ spool_read_file_' \in BOOLEAN /\ refusals' \in Nat
        /\ refusals > 0 => refusals' > 0
        /\ ~spool_read_file_' => refusals' > 0
    <3>1. CASE spool_write_file_ /\ UNCHANGED <<spoolFiles, refusals>>
      BY <3>1
    <3>2. CASE /\ spool_write_file_' = TRUE
               /\ spool_read_file_' = TRUE /\ UNCHANGED refusals
      BY <3>2
    <3>3. CASE /\ spool_write_file_' = TRUE
               /\ spool_read_file_' = FALSE /\ refusals' = refusals + 1
      <4>1. refusals + 1 \in Nat /\ refusals + 1 > 0
        OBVIOUS
      <4>2. refusals' \in Nat /\ refusals' > 0
        BY <3>3, <4>1
      <4>3. spool_write_file_' = TRUE /\ spool_read_file_' \in BOOLEAN
        BY <3>3
      <4>. QED BY ONLY <4>2, <4>3
    <3>. QED BY <2>7, <3>1, <3>2, <3>3 DEF SpoolOpened, DiskRefuses
  <2>8. spool_write_pos_' \in Nat /\ spool_read_pos_' < spool_write_pos_'
    BY <2>2, <2>6
  <2>. QED BY <2>5, <2>6, <2>7, <2>8, <2>9
<1>7. CASE DropForTheDisk
  BY <1>7 DEF DropForTheDisk, SpoolRefused, DiskRefuses
<1>4. CASE TakeFromMemory \/ BackToMemory
  BY <1>4 DEF TakeFromMemory, BackToMemory, PopMemory
<1>5. CASE TakeFromSpool \/ SpoolToMemory
  <2>1. SpoolPop /\ overflowing_' = spool_write_file_'
    BY <1>5 DEF TakeFromSpool, SpoolToMemory, PopSpool
  <2>. QED BY <2>1, SpoolPopCounts
<1>6. CASE ReadShort
  BY <1>6, EmptySeq DEF ReadShort, SpoolPopShort
<1>. QED BY <1>1, <1>2, <1>3, <1>4, <1>5, <1>6, <1>7, StepKinds

(* Every step keeps memory_bytes_ the size of what memory holds.           *)
LEMMA MemoryCountsStep ==
  PhoneTypes /\ SpoolCounts /\ MemoryCounts /\ [Next]_vars => MemoryCounts'
<1>. SUFFICES ASSUME PhoneTypes, SpoolCounts, MemoryCounts, [Next]_vars PROVE MemoryCounts'
  OBVIOUS
<1>0. UNCHANGED memoryVars => MemoryCounts'
  BY DEF MemoryCounts, memoryVars
<1>1. CASE UNCHANGED <<written, queueVars>>
  BY <1>0, <1>1 DEF queueVars
<1>2. CASE WriteToMemory
  <2>1. PICK m : m = Encoded(Script[written + 1])
    OBVIOUS
  <2>2. m \in Seq(Nat) /\ Len(m) \in Nat
    BY <1>2, <2>1, WrittenMessage DEF WriteToMemory, PhoneTypes
  <2>3. memory_queue_' = Append(memory_queue_, m) /\ memory_bytes_' = memory_bytes_ + Len(m)
    BY <1>2, <2>1 DEF WriteToMemory, EnqueueMemory
  <2>4. /\ Append(memory_queue_, m) \in Seq(Seq(Nat)) /\ FlattenSeq(memory_queue_) \in Seq(Nat)
        /\ FlattenSeq(Append(memory_queue_, m)) = FlattenSeq(memory_queue_) \o m
    BY <2>2, FlattenAppend, FlattenType, AppendProperties DEF MemoryCounts
  <2>5. Len(FlattenSeq(memory_queue_) \o m) = Len(FlattenSeq(memory_queue_)) + Len(m)
    BY <2>2, <2>4, ConcatProperties
  <2>. QED BY <2>3, <2>4, <2>5 DEF MemoryCounts
<1>3. CASE WriteToSpool
  BY <1>0, <1>3 DEF WriteToSpool, EnqueueSpool
<1>4. ASSUME PopMemory
      PROVE  /\ Head(memory_queue_) \in Seq(Nat) /\ Tail(memory_queue_) \in Seq(Seq(Nat))
             /\ Len(Head(memory_queue_)) \in Nat
             /\ FlattenSeq(Tail(memory_queue_)) \in Seq(Nat)
             /\ memory_bytes_ = Len(Head(memory_queue_)) + Len(FlattenSeq(Tail(memory_queue_)))
             /\ Len(FlattenSeq(Tail(memory_queue_))) \in Nat
  <2>1. PICK q, h, t : q = memory_queue_ /\ h = Head(q) /\ t = Tail(q)
    OBVIOUS
  <2>2. q \in Seq(Seq(Nat)) /\ q # <<>> /\ memory_bytes_ = Len(FlattenSeq(q))
    BY <1>4, <2>1 DEF PopMemory, MemoryCounts
  <2>3. h \in Seq(Nat) /\ t \in Seq(Seq(Nat)) /\ FlattenSeq(q) = h \o FlattenSeq(t)
    BY <2>1, <2>2, FlattenCons
  <2>4. FlattenSeq(t) \in Seq(Nat)
    BY <2>3, FlattenType
  <2>5. Len(h \o FlattenSeq(t)) = Len(h) + Len(FlattenSeq(t))
    BY <2>3, <2>4, ConcatProperties
  <2>. QED BY <2>1, <2>2, <2>3, <2>4, <2>5, LenIsNat
<1>5. CASE TakeFromMemory
  <2>1. PopMemory /\ memory_queue_' = Tail(memory_queue_)
        /\ memory_bytes_' = memory_bytes_ - Len(Head(memory_queue_))
    BY <1>5 DEF TakeFromMemory
  <2>. QED BY <1>4, <2>1 DEF MemoryCounts
<1>6. CASE BackToMemory
  <2>1. PICK q, h, t : q = memory_queue_ /\ h = Head(q) /\ t = Tail(q)
    OBVIOUS
  <2>2. q \in Seq(Seq(Nat)) /\ q # <<>> /\ memory_bytes_ = Len(FlattenSeq(q))
    BY <1>6, <2>1 DEF BackToMemory, PopMemory, MemoryCounts
  <2>3. memory_queue_' = <<h>> \o t /\ memory_bytes_' = memory_bytes_ + 0
    BY <1>6, <2>1 DEF BackToMemory
  <2>4. <<h>> \o t = q
    BY <2>1, <2>2, HeadThenTail
  <2>5. memory_bytes_ \in Nat
    BY <2>2, FlattenType, LenIsNat
  <2>6. memory_queue_' = q /\ memory_bytes_' = memory_bytes_
    BY <2>3, <2>4, <2>5
  <2>. QED BY <2>2, <2>6 DEF MemoryCounts
<1>7. CASE TakeFromSpool
  BY <1>0, <1>7 DEF TakeFromSpool
<1>8. CASE SpoolToMemory
  <2>1. PICK m : m = SpoolMessage
    OBVIOUS
  <2>2. m \in Seq(Nat) /\ Len(m) \in Nat
    <3>1. unread \in Seq(Nat) /\ HasHeader(unread)
      BY <1>8 DEF SpoolToMemory, PopSpool, SpoolPop, SpoolReadable, SpoolCounts
    <3>. QED BY <2>1, <3>1, SpoolMessageType
  <2>3. memory_queue_' = <<m>> \o <<>> /\ memory_bytes_' = memory_bytes_ + Len(m)
    BY <1>8, <2>1 DEF SpoolToMemory
  <2>4. memory_bytes_ = 0
    <3>1. memory_queue_ = <<>>
      BY <1>8 DEF SpoolToMemory, PopSpool
    <3>. QED BY <3>1, FlattenEmpty, EmptySeq DEF MemoryCounts
  <2>5. <<m>> \o <<>> = <<m>> /\ <<m>> \in Seq(Seq(Nat))
    BY <2>2, ConcatEmptySeq
  <2>6. FlattenSeq(<<m>>) = m
    BY <2>2, FlattenOne
  <2>. QED BY <2>2, <2>3, <2>4, <2>5, <2>6 DEF MemoryCounts
<1>10. CASE DropForTheDisk
  BY <1>0, <1>10 DEF DropForTheDisk
<1>9. CASE ReadShort
  BY <1>0, <1>9 DEF ReadShort
<1>. QED BY <1>1, <1>2, <1>3, <1>5, <1>6, <1>7, <1>8, <1>9, <1>10, StepKinds

(* The message read from the spool has the length its header says: zeros   *)
(* stand for what the disk did not take.                                   *)
LEMMA SpoolMessageWhole ==
  ASSUME unread \in Seq(Nat), HasHeader(unread)
  PROVE  SpoolMessage \in Wholes
<1>1. /\ Total(unread) \in Nat /\ Total(unread) >= 3
      /\ SpoolMessage \in Seq(Nat) /\ Len(SpoolMessage) = Total(unread)
  BY SpoolMessageType
<1>2. Len(unread) \in Nat /\ Len(unread) >= 3
  BY LenIsNat DEF HasHeader, HeaderSize
<1>3. unread[1] \in Nat /\ Total(unread) = 3 + unread[1]
  BY <1>2, ElementOfSeq DEF Total, HeaderSize
<1>4. SpoolMessage[1] = unread[1]
  <2>1. 1 \in 1 .. Total(unread) /\ 1 <= Len(unread)
    BY <1>1, <1>2
  <2>. QED BY <2>1 DEF SpoolMessage
<1>. QED BY <1>1, <1>3, <1>4 DEF Wholes

LEMMA WrittenWhole ==
  ASSUME NEW i \in 1 .. Len(Script)
  PROVE  Encoded(Script[i]) \in Wholes
BY MessageShape DEF Wholes

(* Every step keeps the messages in memory whole.                          *)
LEMMA MemoryWholeStep ==
  PhoneTypes /\ SpoolCounts /\ MemoryWhole /\ [Next]_vars => MemoryWhole'
<1>. SUFFICES ASSUME PhoneTypes, SpoolCounts, MemoryWhole, [Next]_vars PROVE MemoryWhole'
  OBVIOUS
<1>0. UNCHANGED memoryVars => MemoryWhole'
  BY DEF MemoryWhole, memoryVars
<1>1. CASE UNCHANGED <<written, queueVars>>
  BY <1>0, <1>1 DEF queueVars
<1>2. CASE WriteToMemory
  <2>1. PICK i \in 1 .. Len(Script) : i = written + 1
    BY <1>2, ScriptLength DEF WriteToMemory, PhoneTypes
  <2>2. memory_queue_' = Append(memory_queue_, Encoded(Script[i]))
    BY <1>2, <2>1 DEF WriteToMemory, EnqueueMemory
  <2>. QED BY <2>2, WrittenWhole, AppendProperties DEF MemoryWhole
<1>3. CASE WriteToSpool
  BY <1>0, <1>3 DEF WriteToSpool, EnqueueSpool
<1>4. ASSUME PopMemory
      PROVE  /\ memory_queue_ = <<Head(memory_queue_)>> \o Tail(memory_queue_)
             /\ Tail(memory_queue_) \in Seq(Wholes)
  <2>1. PICK q, W : q = memory_queue_ /\ W = Wholes
    OBVIOUS
  <2>2. q \in Seq(W) /\ q # <<>>
    BY <1>4, <2>1 DEF PopMemory, MemoryWhole
  <2>3. q = <<Head(q)>> \o Tail(q) /\ Tail(q) \in Seq(W)
    BY <2>2, HeadThenTail
  <2>. QED BY <2>1, <2>3
<1>5. CASE TakeFromMemory
  BY <1>4, <1>5 DEF TakeFromMemory, MemoryWhole
<1>6. CASE BackToMemory
  BY <1>4, <1>6 DEF BackToMemory, MemoryWhole
<1>7. CASE TakeFromSpool
  BY <1>0, <1>7 DEF TakeFromSpool
<1>8. CASE SpoolToMemory
  <2>1. PICK m : m = SpoolMessage
    OBVIOUS
  <2>2. m \in Wholes
    <3>1. unread \in Seq(Nat) /\ HasHeader(unread)
      BY <1>8 DEF SpoolToMemory, PopSpool, SpoolPop, SpoolReadable, SpoolCounts
    <3>. QED BY <2>1, <3>1, SpoolMessageWhole
  <2>3. <<m>> \in Seq(Wholes) /\ <<m>> \o <<>> = <<m>>
    BY <2>2, ConcatEmptySeq
  <2>. QED BY <1>8, <2>1, <2>3 DEF SpoolToMemory, MemoryWhole
<1>10. CASE DropForTheDisk
  BY <1>0, <1>10 DEF DropForTheDisk
<1>9. CASE ReadShort
  BY <1>0, <1>9 DEF ReadShort
<1>. QED BY <1>1, <1>2, <1>3, <1>5, <1>6, <1>7, <1>8, <1>9, <1>10, StepKinds

LEMMA WholeType ==
  ASSUME PhoneTypes
  PROVE  /\ Whole \in Nat /\ Whole <= written /\ written \in Nat /\ written <= Len(Script)
         /\ Whole <= Len(Script)
         /\ damage = 0 => Whole = written
         /\ damage # 0 => Whole = damage - 1
BY ScriptLength DEF PhoneTypes, Whole

(* What is left of the capture, when the spool is read before the damage:  *)
(* its first message, whole.                                               *)
LEMMA SpooledMessage ==
  ASSUME PhoneTypes, NEW g \in Nat, NEW rest, NEW extra, Spooled(g, rest, extra), g < Whole,
         NEW h \in Nat, h = g + 1
  PROVE  /\ HasHeader(unread)
         /\ SpoolMessage = Encoded(Script[h])
         /\ Total(unread) \in Nat
         /\ FlattenSeq(Messages(h, Whole)) \in Seq(Nat)
         /\ Len(FlattenSeq(Messages(h, Whole))) \in Nat
         /\ Len(FlattenSeq(Messages(g, Whole))) =
               Total(unread) + Len(FlattenSeq(Messages(h, Whole)))
         /\ Len(unread) >= Total(unread)
         /\ Cut(unread, Total(unread) + 1) = FlattenSeq(Messages(h, Whole)) \o rest
<1>1. PICK w \in Nat : w = Whole /\ w <= Len(Script) /\ g < w
  BY WholeType
<1>2. PICK m, x : m = Encoded(Script[h]) /\ x = FlattenSeq(Messages(h, w))
  OBVIOUS
<1>3. /\ m \in Seq(Nat) /\ Len(m) >= 3 /\ m[1] = Len(m) - 3
      /\ x \in Seq(Nat) /\ FlattenSeq(Messages(g, w)) = m \o x
  <2>1. FirstApart(g, w)
    BY <1>1, CellsFirst
  <2>. QED BY <1>2, <2>1 DEF FirstApart
<1>4. rest \in Seq(Nat) /\ unread = (m \o x) \o rest
  BY <1>1, <1>3 DEF Spooled
<1>5. PICK z : z = x \o rest
  OBVIOUS
<1>6. z \in Seq(Nat) /\ Len(z) \in Nat /\ Len(z) = Len(x) + Len(rest) /\ unread = m \o z
  <2>1. z \in Seq(Nat) /\ Len(z) = Len(x) + Len(rest)
    BY <1>3, <1>4, <1>5, ConcatProperties
  <2>2. (m \o x) \o rest = m \o (x \o rest)
    BY <1>3, <1>4, CellsAssociative
  <2>. QED BY <1>4, <1>5, <2>1, <2>2, LenIsNat
<1>7. /\ Len(unread) = Len(m) + Len(z) /\ Len(m) \in Nat
      /\ HasHeader(unread) /\ Total(unread) = Len(m)
      /\ Cut(unread, Total(unread) + 1) = z
      /\ \A i \in 1 .. Len(m) : unread[i] = m[i]
      /\ unread \in Seq(Nat)
  BY <1>3, <1>6, MessageAtHead
<1>8. SpoolMessage = m
  <2>1. SpoolMessage \in Seq(Nat) /\ Len(SpoolMessage) = Len(m)
    BY <1>7, SpoolMessageType
  <2>2. ASSUME NEW i \in 1 .. Len(m) PROVE SpoolMessage[i] = m[i]
    <3>1. i \in 1 .. Total(unread) /\ i <= Len(unread)
      BY <1>6, <1>7
    <3>2. SpoolMessage[i] = unread[i]
      BY <3>1 DEF SpoolMessage
    <3>. QED BY <1>7, <3>2
  <2>. QED BY <1>3, <2>1, <2>2, SeqEqual
<1>9. Len(FlattenSeq(Messages(g, w))) = Len(m) + Len(x) /\ Len(x) \in Nat
  BY <1>3, ConcatProperties, LenIsNat
<1>10. Len(unread) >= Len(m)
  BY <1>6, <1>7
<1>. QED BY <1>1, <1>2, <1>3, <1>5, <1>7, <1>8, <1>9, <1>10

(* The same, after it was read.                                            *)
LEMMA SpooledMessageRead ==
  ASSUME PhoneTypes, SpoolCounts, NEW g \in Nat, NEW rest, NEW extra, Spooled(g, rest, extra),
         g < Whole, PopSpool, written' = written, NEW h \in Nat, h = g + 1
  PROVE  ~at_eof' /\ Whole' = Whole /\ Spooled(h, rest, extra)'
<1>0. spool_write_file_ /\ SpoolPop /\ damage' = damage
  BY DEF PopSpool, SpoolPop, SpoolReadable, SpoolUnread, SpoolCounts
<1>1. PICK w \in Nat : w = Whole /\ w <= Len(Script) /\ g < w /\ w = Whole'
  BY <1>0, WholeType DEF Whole
<1>2. PICK x, y, k : x = FlattenSeq(Messages(h, w)) /\ y = FlattenSeq(Messages(g, w))
                     /\ k = Total(unread)
  OBVIOUS
<1>3. /\ x \in Seq(Nat) /\ Len(x) \in Nat /\ k \in Nat /\ Len(y) = k + Len(x)
      /\ Len(unread) >= k /\ Cut(unread, k + 1) = x \o rest
  BY <1>1, <1>2, SpooledMessage
<1>4. /\ rest \in Seq(Nat) /\ extra \in Nat
      /\ spool_write_pos_ - spool_read_pos_ = Len(y) + extra
      /\ damage = 0 => rest = <<>> /\ extra = 0
      /\ damage # 0 => extra > 0
  BY <1>1, <1>2 DEF Spooled
<1>5. PICK r : r = spool_read_pos_ + k
  OBVIOUS
<1>6. r \in Nat /\ spool_write_pos_ \in Nat /\ spool_write_pos_ - r = Len(x) + extra
  BY <1>3, <1>4, <1>5 DEF SpoolCounts
<1>7. /\ h <= w
      /\ h < w <=> x # <<>>
      /\ h < w => Len(x) >= 3
      /\ h = w => Len(x) = 0
  <2>1. h <= w
    BY <1>1
  <2>. QED BY <1>1, <1>2, <2>1, CellsAreSome
<1>8. ASSUME unread' = x \o rest, spool_write_pos_' - spool_read_pos_' = Len(x) + extra,
             (spool_write_file_' <=> h < w \/ damage # 0)
      PROVE  Spooled(h, rest, extra)'
  BY <1>0, <1>1, <1>2, <1>4, <1>8 DEF Spooled
<1>9. CASE Drained(r)
  <2>1. /\ spool_write_file_' = FALSE /\ unread' = <<>> /\ at_eof' = FALSE
        /\ spool_read_pos_' = 0 /\ spool_write_pos_' = 0
    BY <1>0, <1>2, <1>5, <1>9 DEF SpoolPop
  <2>2. Len(x) = 0 /\ extra = 0
    BY <1>3, <1>4, <1>6, <1>9 DEF Drained
  <2>3. ~(h < w) /\ damage = 0
    BY <1>4, <1>7, <2>2
  <2>4. x = <<>> /\ rest = <<>>
    BY <1>4, <1>7, <2>3
  <2>5. x \o rest = <<>>
    BY <2>4, ConcatEmptySeq, EmptySeq
  <2>6. Spooled(h, rest, extra)'
    BY <1>0, <1>8, <2>1, <2>2, <2>3, <2>5
  <2>. QED BY <1>1, <2>1, <2>6
<1>10. CASE ~Drained(r)
  <2>1. /\ unread' = Cut(unread, k + 1)
        /\ at_eof' = (Len(unread) < k)
        /\ spool_read_pos_' = r
        /\ spool_write_file_' = spool_write_file_ /\ spool_write_pos_' = spool_write_pos_
    BY <1>0, <1>2, <1>5, <1>10 DEF SpoolPop, spoolFiles
  <2>2. Len(x) + extra # 0
    BY <1>6, <1>10 DEF Drained
  <2>3. h < w \/ damage # 0
    <3>1. CASE damage = 0
      <4>1. Len(x) # 0
        BY <1>3, <1>4, <2>2, <3>1
      <4>2. h # w
        BY <1>7, <4>1
      <4>. QED BY <1>1, <1>7, <4>2
    <3>. QED BY <3>1
  <2>4. ~at_eof'
    <3>1. Len(unread) \in Nat
      BY LenIsNat DEF SpoolCounts
    <3>2. ~(Len(unread) < k)
      BY <1>3, <3>1
    <3>. QED BY <2>1, <3>2
  <2>5. spool_write_file_'
    BY <1>0, <2>1
  <2>6. Spooled(h, rest, extra)'
    BY <1>3, <1>6, <1>8, <2>1, <2>3, <2>5
  <2>. QED BY <1>1, <2>4, <2>6
<1>. QED BY <1>9, <1>10

(* Damage, once done, is never undone.                                     *)
LEMMA DamageStays ==
  ASSUME PhoneTypes, [Next]_vars, damage' # damage
  PROVE  WriteToSpool /\ damage = 0 /\ damage' = written + 1
<1>. USE DEF queueVars
<1>1. CASE WriteToSpool
  BY <1>1 DEF WriteToSpool, EnqueueSpool
<1>. QED
  BY <1>1, StepKinds
  DEF DropForTheDisk, WriteToMemory, EnqueueMemory, TakeFromMemory, TakeFromSpool, BackToMemory,
      SpoolToMemory, ReadShort, PopMemory, PopSpool

(* A step that leaves memory and file what they are.                       *)
Leaves(f) == \/ ~at_eof' /\ (\E d \in 0 .. Whole : Holds(f, d))'
             \/ damage' # 0 /\ f >= damage' - 1

LEMMA HoldsIn ==
  ASSUME NEW a \in Nat, NEW b \in Nat, a <= b, b <= Whole', Whole' \in Nat, ~at_eof',
         memory_queue_' = Messages(a, b), NEW rest, NEW extra, Spooled(b, rest, extra)'
  PROVE  Leaves(a)
<1>1. a \in 0 .. b /\ b \in 0 .. Whole'
  OBVIOUS
<1>2. Holds(a, b)'
  BY <1>1 DEF Holds
<1>. QED BY <1>1, <1>2 DEF Leaves

LEMMA HoldsOut ==
  ASSUME PhoneTypes, NEW f, NEW g, Holds(f, g)
  PROVE  /\ f \in Nat /\ g \in Nat /\ f <= g /\ g <= Whole /\ g <= Len(Script) /\ f <= Whole
         /\ memory_queue_ = Messages(f, g)
         /\ \E rest, extra : Spooled(g, rest, extra)
BY WholeType, ScriptLength DEF Holds

(* Writing keeps it.                                                       *)
LEMMA HoldsWritten ==
  ASSUME QueueInv, NEW f, NEW g, Holds(f, g), ~at_eof, WriteToMemory \/ WriteToSpool
  PROVE  Leaves(f)
<1>0. PhoneTypes /\ SpoolCounts
  BY DEF QueueInv
<1>1. PICK w \in Nat : /\ w = Whole /\ w <= Len(Script) /\ w <= written /\ written \in Nat
                       /\ (damage = 0 => w = written) /\ (damage # 0 => w = damage - 1)
                       /\ written <= Len(Script)
  BY <1>0, WholeType
<1>2. /\ f \in Nat /\ g \in Nat /\ f <= g /\ g <= w /\ g <= Len(Script) /\ f <= w
      /\ memory_queue_ = Messages(f, g)
  BY <1>0, <1>1, HoldsOut
<1>3. PICK rest, extra : Spooled(g, rest, extra)
  BY <1>0, HoldsOut
<1>4. PICK x : x = FlattenSeq(Messages(g, w))
  OBVIOUS
<1>5. x \in Seq(Nat) /\ Len(x) \in Nat
  BY <1>1, <1>2, <1>4, CellsAreSome
<1>6. /\ rest \in Seq(Nat) /\ extra \in Nat
      /\ unread = x \o rest
      /\ spool_write_pos_ - spool_read_pos_ = Len(x) + extra
      /\ damage = 0 => rest = <<>> /\ extra = 0
      /\ damage # 0 => extra > 0
      /\ (spool_write_file_ <=> g < w \/ damage # 0)
  BY <1>1, <1>3, <1>4 DEF Spooled
<1>7. CASE WriteToMemory
  <2>1. PICK m : m = Encoded(Script[written + 1])
    OBVIOUS
  <2>2. /\ written < Len(Script) /\ written' = written + 1 /\ ~spool_write_file_
        /\ memory_queue_' = Append(memory_queue_, m)
        /\ UNCHANGED <<spool_write_file_, unread, at_eof, spool_read_pos_,
                       spool_write_pos_, damage>>
    BY <1>0, <1>7, <2>1
    DEF WriteToMemory, EnqueueMemory, FitsInMemory, SpoolCounts, spoolFiles, spoolFileVars
  <2>3. g = written /\ w = written /\ damage = 0
    BY <1>1, <1>2, <1>6, <2>2
  <2>4. PICK v \in Nat : v = written'
    BY <1>1, <2>2
  <2>5. Whole' = v
    BY <2>2, <2>3, <2>4 DEF Whole
  <2>6. memory_queue_' = Messages(f, v)
    BY <1>1, <1>2, <2>1, <2>2, <2>3, <2>4, MessagesGrow
  <2>7. FlattenSeq(Messages(v, v)) = <<>> /\ x = <<>>
    BY <1>1, <1>4, <2>3, NoMessages, FlattenEmpty
  <2>8. Spooled(v, rest, extra)'
    <3>1. ~(v < v) /\ ~spool_write_file_' /\ damage' = 0
      BY <2>2, <2>3
    <3>2. unread' = FlattenSeq(Messages(v, v)) \o rest
      BY <1>6, <2>2, <2>7
    <3>3. spool_write_pos_' - spool_read_pos_' = Len(FlattenSeq(Messages(v, v))) + extra
      BY <1>6, <2>2, <2>7
    <3>. QED BY <1>6, <2>3, <2>5, <3>1, <3>2, <3>3 DEF Spooled
  <2>9. f <= v /\ v <= Whole' /\ Whole' \in Nat /\ ~at_eof'
    BY <1>1, <1>2, <2>2, <2>4, <2>5
  <2>. QED BY <1>2, <2>6, <2>8, <2>9, HoldsIn
<1>8. CASE WriteToSpool
  <2>1. PICK m : m = Encoded(Script[written + 1])
    OBVIOUS
  <2>2. written < Len(Script) /\ written' = written + 1
    BY <1>8 DEF WriteToSpool
  <2>3. PICK n \in 0 .. Len(m) :
            /\ SpoolAppend(m, n)
            /\ damage' = IF n < Len(m) /\ damage = 0 THEN written + 1 ELSE damage
    BY <1>8, <2>1 DEF WriteToSpool, EnqueueSpool
  <2>4. m \in Seq(Nat) /\ Len(m) \in Nat /\ Len(m) >= 3
    BY <1>1, <2>1, <2>2, WrittenMessage
  <2>5. PICK part : part = SubSeq(m, 1, n)
    OBVIOUS
  <2>6. part \in Seq(Nat)
    <3>1. \A i \in 1 .. n : m[i] \in Nat
      BY <2>4, ElementOfSeq
    <3>2. n \in Nat
      BY <2>4
    <3>. QED BY <2>4, <2>5, <3>1, <3>2, SubSeqProperties
  <2>7. /\ unread' = unread \o part /\ at_eof' = at_eof
        /\ spool_write_pos_' = spool_write_pos_ + Len(m) /\ spool_read_pos_' = spool_read_pos_
    BY <1>0, <2>3, <2>5, AppendMoves DEF SpoolAppend
  <2>8. memory_queue_' = memory_queue_ /\ spool_write_file_'
    BY <1>0, <1>8, <2>3, AppendMoves DEF WriteToSpool, EnqueueSpool, memoryVars
  <2>9. spool_write_pos_' - spool_read_pos_' = Len(x) + extra + Len(m)
    BY <1>0, <1>5, <1>6, <2>4, <2>7 DEF SpoolCounts
  <2>10. memory_queue_' = Messages(f, g) /\ ~at_eof'
    BY <1>2, <2>7, <2>8
  <2>11. CASE damage = 0 /\ n = Len(m)
    <3>1. damage' = 0 /\ part = m
      BY <2>3, <2>4, <2>5, <2>11, SubSeqFull
    <3>2. PICK v \in Nat : v = written' /\ v = written + 1
      BY <1>1, <2>2
    <3>3. Whole' = v
      BY <3>1, <3>2 DEF Whole
    <3>4. FlattenSeq(Messages(g, v)) = x \o m
      BY <1>1, <1>2, <1>4, <2>1, <2>2, <2>11, <3>2, CellsLast
    <3>5. unread' = x \o m /\ rest = <<>> /\ extra = 0
      <4>1. x \o rest = x
        BY <1>5, <1>6, <2>11, ConcatEmptySeq
      <4>. QED BY <1>6, <2>7, <2>11, <3>1, <4>1
    <3>6. (x \o m) \o <<>> = x \o m /\ Len(x \o m) = Len(x) + Len(m) /\ <<>> \in Seq(Nat)
      <4>1. x \o m \in Seq(Nat) /\ Len(x \o m) = Len(x) + Len(m)
        BY <1>5, <2>4, ConcatProperties
      <4>. QED BY <4>1, ConcatEmptySeq, EmptySeq
    <3>7. g < v /\ g <= v /\ v <= v
      BY <1>1, <1>2, <3>2
    <3>8. Spooled(g, <<>>, 0)'
      <4>1. spool_write_pos_' - spool_read_pos_' = Len(x) + Len(m) + 0
        BY <1>5, <2>4, <2>9, <3>5
      <4>2. spool_write_pos_' - spool_read_pos_' = Len(FlattenSeq(Messages(g, v))) + 0
        BY <3>4, <3>6, <4>1
      <4>3. unread' = FlattenSeq(Messages(g, v)) \o <<>>
        BY <3>4, <3>5, <3>6
      <4>. QED BY <2>8, <3>1, <3>3, <3>6, <3>7, <4>2, <4>3 DEF Spooled
    <3>. QED BY <1>2, <2>10, <3>3, <3>7, <3>8, HoldsIn
  <2>12. CASE ~(damage = 0 /\ n = Len(m))
    <3>1. damage' # 0 /\ Whole' = w
      <4>1. CASE damage = 0
        <5>1. n < Len(m)
          BY <2>3, <2>4, <2>12, <4>1
        <5>2. damage' = written + 1
          BY <2>3, <4>1, <5>1
        <5>. QED BY <1>1, <4>1, <5>2 DEF Whole
      <4>2. CASE damage # 0
        <5>1. damage' = damage
          BY <2>3, <4>2
        <5>. QED BY <1>1, <4>2, <5>1 DEF Whole
      <4>. QED BY <4>1, <4>2
    <3>2. PICK more, after : more = extra + Len(m) /\ after = rest \o part
      OBVIOUS
    <3>3. more \in Nat /\ more > 0 /\ after \in Seq(Nat)
      BY <1>6, <2>4, <2>6, <3>2, ConcatProperties
    <3>4. unread' = x \o after
      <4>1. (x \o rest) \o part = x \o (rest \o part)
        BY <1>5, <1>6, <2>6, CellsAssociative
      <4>. QED BY <1>6, <2>7, <3>2, <4>1
    <3>5. spool_write_pos_' - spool_read_pos_' = Len(x) + more
      BY <1>5, <1>6, <2>4, <2>9, <3>2
    <3>6. Spooled(g, after, more)'
      BY <1>4, <2>8, <3>1, <3>3, <3>4, <3>5 DEF Spooled
    <3>. QED BY <1>1, <1>2, <2>10, <3>1, <3>6, HoldsIn
  <2>. QED BY <2>11, <2>12
<1>. QED BY <1>7, <1>8

(* The spool is read where memory is empty: the message it is at is whole, *)
(* or damage has come to be read.                                          *)
LEMMA HoldsRead ==
  ASSUME QueueInv, NEW f, NEW g, Holds(f, g), memory_queue_ = <<>>,
         spool_write_file_
  PROVE  f = g /\ (g < Whole \/ (damage # 0 /\ f = damage - 1))
<1>0. PhoneTypes
  BY DEF QueueInv
<1>1. PICK w \in Nat : w = Whole /\ w <= Len(Script) /\ (damage # 0 => w = damage - 1)
  BY <1>0, WholeType
<1>2. /\ f \in Nat /\ g \in Nat /\ f <= g /\ g <= w /\ g <= Len(Script)
      /\ Messages(f, g) = <<>>
  BY <1>0, <1>1, HoldsOut
<1>3. f = g
  <2>1. Len(Messages(f, g)) = g - f
    BY <1>2, MessagesType
  <2>2. Len(Messages(f, g)) = 0
    BY <1>2, EmptySeq
  <2>. QED BY <1>2, <2>1, <2>2
<1>4. g < w \/ damage # 0
  BY <1>1 DEF Holds, Spooled
<1>. QED BY <1>1, <1>2, <1>3, <1>4

(* A step that does not send leaves the same messages to be sent.          *)
LEMMA HoldsKept ==
  ASSUME QueueInv, NEW f, NEW g, Holds(f, g), ~at_eof,
         \/ UNCHANGED <<written, queueVars>>
         \/ WriteToMemory \/ WriteToSpool \/ DropForTheDisk
         \/ BackToMemory \/ SpoolToMemory
         \/ ReadShort
  PROVE  Leaves(f)
<1>0. PhoneTypes /\ SpoolCounts /\ MemoryCounts
  BY DEF QueueInv
<1>1. PICK w \in Nat : w = Whole /\ w <= Len(Script)
  BY <1>0, WholeType
<1>2. /\ f \in Nat /\ g \in Nat /\ f <= g /\ g <= w /\ g <= Len(Script)
      /\ memory_queue_ = Messages(f, g)
  BY <1>0, <1>1, HoldsOut
<1>3. PICK rest, extra : Spooled(g, rest, extra)
  BY <1>0, HoldsOut
<1>4. ASSUME UNCHANGED <<written, damage, spool_write_file_, unread, at_eof, spool_read_pos_,
                         spool_write_pos_>>,
             memory_queue_' = memory_queue_
      PROVE  Leaves(f)
  <2>1. Whole' = w
    BY <1>1, <1>4 DEF Whole
  <2>2. Spooled(g, rest, extra)'
    BY <1>1, <1>3, <1>4, <2>1 DEF Spooled
  <2>. QED BY <1>2, <1>4, <2>1, <2>2, HoldsIn
<1>5. CASE UNCHANGED <<written, queueVars>>
  BY <1>4, <1>5 DEF queueVars, memoryVars, spoolFiles, spoolFileVars
<1>6. CASE BackToMemory
  <2>1. /\ memory_queue_ # <<>> /\ written' = written
        /\ memory_queue_' = <<Head(memory_queue_)>> \o Tail(memory_queue_)
        /\ UNCHANGED <<spool_write_file_, unread, at_eof, spool_read_pos_, spool_write_pos_,
                       damage>>
    BY <1>6 DEF BackToMemory, PopMemory, spoolFiles, spoolFileVars
  <2>2. memory_queue_' = memory_queue_
    <3>1. PICK q, Q : q = memory_queue_ /\ Q = Seq(Nat)
      OBVIOUS
    <3>2. q \in Seq(Q) /\ q # <<>>
      BY <1>0, <2>1, <3>1 DEF MemoryCounts
    <3>3. q = <<Head(q)>> \o Tail(q)
      BY <3>2, HeadThenTail
    <3>. QED BY <2>1, <3>1, <3>3
  <2>. QED BY <1>4, <2>1, <2>2
<1>7. CASE SpoolToMemory
  <2>1. PopSpool /\ written' = written /\ memory_queue_ = <<>> /\ spool_write_file_
        /\ damage' = damage
    BY <1>0, <1>7
    DEF SpoolToMemory, PopSpool, SpoolPop, SpoolReadable, SpoolUnread, SpoolCounts
  <2>2. f = g /\ (g < w \/ (damage # 0 /\ f = damage - 1))
    BY <1>1, <2>1, HoldsRead
  <2>3. CASE damage # 0 /\ f = damage - 1
    BY <1>2, <2>1, <2>3 DEF Leaves
  <2>4. CASE g < w
    <3>1. PICK h \in Nat : h = g + 1 /\ h <= w
      BY <1>2, <2>4
    <3>2. ~at_eof' /\ Whole' = w /\ Spooled(h, rest, extra)'
      BY <1>0, <1>1, <1>2, <1>3, <2>1, <2>4, <3>1, SpooledMessageRead
    <3>3. PICK m : m = Encoded(Script[h])
      OBVIOUS
    <3>4. SpoolMessage = m
      BY <1>0, <1>1, <1>2, <1>3, <2>4, <3>1, <3>3, SpooledMessage
    <3>5. m \in Seq(Nat)
      <4>1. PICK i \in 1 .. Len(Script) : i = h
        BY <1>1, <1>2, <3>1, ScriptLength
      <4>. QED BY <3>3, <4>1, MessageShape
    <3>6. memory_queue_' = <<m>> \o <<>>
      BY <1>7, <3>4 DEF SpoolToMemory
    <3>7. <<m>> \o <<>> = Append(<<>>, m)
      BY <3>5, ConcatEmptySeq, EmptySeq
    <3>8. Append(Messages(g, g), Encoded(Script[g + 1])) = Messages(g, g + 1)
      <4>1. g <= g /\ g < Len(Script)
        BY <1>1, <1>2, <2>4, ScriptLength
      <4>. QED BY <1>2, <4>1, MessagesGrow
    <3>9. memory_queue_' = Messages(g, h)
      BY <1>2, <3>1, <3>3, <3>6, <3>7, <3>8, NoMessages
    <3>10. g <= h
      BY <1>2, <3>1
    <3>. QED BY <1>2, <2>2, <3>1, <3>2, <3>9, <3>10, HoldsIn
  <2>. QED BY <2>2, <2>3, <2>4
<1>8. CASE ReadShort
  <2>1. /\ memory_queue_ = <<>> /\ spool_write_file_ /\ ~HasHeader(unread)
        /\ damage' = damage
    BY <1>0, <1>8 DEF ReadShort, SpoolPopShort, SpoolUnread, SpoolCounts
  <2>2. f = g /\ (g < w \/ (damage # 0 /\ f = damage - 1))
    BY <1>1, <2>1, HoldsRead
  <2>3. ~(g < w)
    <3>. SUFFICES ASSUME g < w PROVE HasHeader(unread)
      BY <2>1
    <3>1. PICK h \in Nat : h = g + 1
      BY <1>2
    <3>. QED BY <1>0, <1>1, <1>2, <1>3, <3>1, SpooledMessage
  <2>. QED BY <1>2, <2>1, <2>2, <2>3 DEF Leaves
<1>9. CASE DropForTheDisk
  <2>1. UNCHANGED <<written, damage, spool_write_file_, unread, at_eof, memory_queue_>>
    BY <1>9 DEF DropForTheDisk, SpoolRefused, spoolFiles, memoryVars
  <2>2. UNCHANGED <<spool_read_pos_, spool_write_pos_>>
    BY <1>0, <1>9 DEF DropForTheDisk, SpoolRefused, SpoolCounts
  <2>. QED BY <1>4, <2>1, <2>2
<1>. QED BY <1>5, <1>6, <1>7, <1>8, <1>9, HoldsWritten

(* A step that sends takes the first of them.                              *)
LEMMA HoldsTaken ==
  ASSUME QueueInv, NEW f, NEW g, Holds(f, g), ~at_eof, TakeFromMemory \/ TakeFromSpool,
         NEW e \in Nat, e = f + 1
  PROVE  Leaves(e)
<1>0. PhoneTypes /\ SpoolCounts
  BY DEF QueueInv
<1>1. PICK w \in Nat : w = Whole /\ w <= Len(Script)
  BY <1>0, WholeType
<1>2. /\ f \in Nat /\ g \in Nat /\ f <= g /\ g <= w /\ g <= Len(Script)
      /\ memory_queue_ = Messages(f, g)
  BY <1>0, <1>1, HoldsOut
<1>3. PICK rest, extra : Spooled(g, rest, extra)
  BY <1>0, HoldsOut
<1>4. CASE TakeFromMemory
  <2>1. /\ memory_queue_ # <<>> /\ written' = written /\ memory_queue_' = Tail(memory_queue_)
        /\ UNCHANGED <<spool_write_file_, unread, at_eof, spool_read_pos_, spool_write_pos_,
                       damage>>
    BY <1>4 DEF TakeFromMemory, PopMemory, spoolFiles, spoolFileVars
  <2>2. f < g
    BY <1>2, <2>1, NoMessages
  <2>3. memory_queue_' = Messages(e, g)
    BY <1>2, <2>1, <2>2, MessagesFirst
  <2>4. Whole' = w
    BY <1>1, <2>1 DEF Whole
  <2>5. Spooled(g, rest, extra)'
    BY <1>1, <1>3, <2>1, <2>4 DEF Spooled
  <2>6. e <= g /\ ~at_eof'
    BY <1>2, <2>1, <2>2
  <2>. QED BY <1>2, <2>3, <2>4, <2>5, <2>6, HoldsIn
<1>5. CASE TakeFromSpool
  <2>1. /\ PopSpool /\ written' = written /\ memory_queue_ = <<>> /\ spool_write_file_
        /\ damage' = damage /\ memory_queue_' = memory_queue_
    BY <1>0, <1>5
    DEF TakeFromSpool, PopSpool, SpoolPop, SpoolReadable, SpoolUnread, SpoolCounts, memoryVars
  <2>2. f = g /\ (g < w \/ (damage # 0 /\ f = damage - 1))
    BY <1>1, <2>1, HoldsRead
  <2>3. CASE damage # 0 /\ f = damage - 1
    <3>1. e >= damage - 1
      BY <1>2, <2>3
    <3>. QED BY <2>1, <2>3, <3>1 DEF Leaves
  <2>4. CASE g < w
    <3>1. e = g + 1 /\ e <= w /\ e <= e
      BY <1>2, <2>2, <2>4
    <3>2. ~at_eof' /\ Whole' = w /\ Spooled(e, rest, extra)'
      BY <1>0, <1>1, <1>2, <1>3, <2>1, <2>4, <3>1, SpooledMessageRead
    <3>3. memory_queue_' = Messages(e, e)
      BY <2>1, NoMessages
    <3>. QED BY <3>1, <3>2, <3>3, HoldsIn
  <2>. QED BY <2>2, <2>3, <2>4
<1>. QED BY <1>4, <1>5

(* Every step keeps memory and file the rest of the capture.               *)
LEMMA InOrderStep ==
  QueueInv /\ [Next]_vars => InOrder'
<1>. SUFFICES ASSUME QueueInv, [Next]_vars PROVE InOrder'
  OBVIOUS
<1>0. PhoneTypes /\ InOrder /\ PhoneTypes'
  BY PhoneTypesStep DEF QueueInv
<1>1. sent \in Nat /\ damage \in Nat /\ damage' \in Nat
  BY <1>0, ScriptLength DEF PhoneTypes
<1>2. PICK e \in Nat : e = sent' /\ (e = sent \/ e = sent + 1)
  <2>1. SendNext => sent' = sent + 1
    BY DEF SendNext
  <2>2. ~SendNext => sent' = sent
    BY KeepKinds
  <2>. QED BY <1>1, <2>1, <2>2
<1>3. CASE ~at_eof /\ \E g \in 0 .. Whole : Holds(sent, g)
  <2>1. PICK f, g : f = sent /\ Holds(f, g) /\ ~at_eof
    BY <1>3
  <2>2. Leaves(e)
    <3>1. CASE SendNext
      <4>1. e = f + 1
        BY <1>2, <2>1, <3>1 DEF SendNext
      <4>2. TakeFromMemory \/ TakeFromSpool
        BY <3>1, TakeKinds
      <4>. QED BY <2>1, <4>1, <4>2, HoldsTaken
    <3>2. CASE ~SendNext
      <4>1. e = f
        BY <1>2, <2>1, <3>2, KeepKinds
      <4>2. \/ UNCHANGED <<written, queueVars>>
            \/ WriteToMemory \/ WriteToSpool \/ DropForTheDisk
            \/ BackToMemory \/ SpoolToMemory
            \/ ReadShort
        BY <3>2, KeepKinds
      <4>. QED BY <2>1, <4>1, <4>2, HoldsKept
    <3>. QED BY <3>1, <3>2
  <2>. QED BY <1>2, <2>2 DEF Leaves, InOrder
<1>4. CASE damage # 0 /\ sent >= damage - 1
  <2>1. damage' = damage
    BY <1>0, <1>4, DamageStays
  <2>2. sent' >= damage - 1
    BY <1>1, <1>2, <1>4
  <2>. QED BY <1>4, <2>1, <2>2 DEF InOrder
<1>. QED BY <1>0, <1>3, <1>4 DEF InOrder

-----------------------------------------------------------------------------
(* The connections and what their sessions have been given.                *)

BodyValues ==
    [json : Seq(Nat), sps_pps : Seq(Nat)]
    \cup [timestamp : Nat, is_keyframe : BOOLEAN, nal : Seq(Nat)]
    \cup [samples : Seq(Nat)]
    \cup [timestamp : Nat, tracking_state : Nat, pose : Seq(Nat)]
    \cup [timestamp : Nat, points : Seq(Nat)]
    \cup [intrinsics : Seq(Nat)]
Records == [type : Known, seq : Nat, body : BodyValues]
Connections ==
    [flight : Seq(Nat), cut : BOOLEAN, closed : BOOLEAN, live : BOOLEAN, buffer : Seq(Nat),
     recorded : Seq(Records)]
ConnectionTypes ==
    /\ connections \in Seq(Connections)
    /\ sender = "on" => connections # <<>>
    /\ first \in Seq(Nat) /\ Len(first) = Len(connections)

(* A step gives the connection c the value r and leaves the others alone.  *)
ChangedTo(c, r) ==
    /\ c \in 1 .. Len(connections) /\ r \in Connections
    /\ connections' = [connections EXCEPT ![c] = r]

LEMMA PartType ==
  ASSUME NEW s \in Seq(Nat), NEW a \in Nat \ {0}, NEW b \in Nat, b <= Len(s)
  PROVE  SubSeq(s, a, b) \in Seq(Nat)
<1>1. Len(s) \in Nat
  BY LenIsNat
<1>2. \A i \in a .. b : s[i] \in Nat
  BY <1>1, ElementOfSeq
<1>. QED BY <1>2, SubSeqProperties

LEMMA RestType ==
  ASSUME NEW s \in Seq(Nat), NEW a \in Nat \ {0}
  PROVE  Cut(s, a) \in Seq(Nat)
<1>1. Len(s) \in Nat /\ Len(s) <= Len(s)
  BY LenIsNat
<1>. QED BY <1>1, PartType DEF Cut

LEMMA DecodeType ==
  ASSUME NEW m, m.type \in Known, m.payload \in Seq(Nat)
  PROVE  Decode(m) \subseteq BodyValues
<1>1. PICK p : p = m.payload
  OBVIOUS
<1>2. p \in Seq(Nat) /\ Len(p) \in Nat /\ \A i \in 1 .. Len(p) : p[i] \in Nat
  BY <1>1, LenIsNat, ElementOfSeq
<1>. USE DEF Known, VideoConfig, VideoChunk, ImuBatch, PoseSample, PointCloud, CameraIntrinsics
<1>3. CASE m.type = VideoConfig
  <2>1. Decode(m) = DecodeVideoConfig(p)
    BY <1>1, <1>3 DEF Decode
  <2>2. CASE Len(p) < 1 \/ Len(p) < 1 + p[1]
    BY <2>1, <2>2 DEF DecodeVideoConfig, Unless
  <2>3. CASE ~(Len(p) < 1 \/ Len(p) < 1 + p[1])
    <3>1. PICK n \in Nat : n = p[1]
      BY <1>2, <2>3
    <3>2. SubSeq(p, 2, 1 + n) \in Seq(Nat) /\ Cut(p, 2 + n) \in Seq(Nat)
      <4>1. SubSeq(p, 2, 1 + n) \in Seq(Nat)
        BY <1>2, <2>3, <3>1, PartType
      <4>2. PICK a \in Nat \ {0} : a = 2 + n
        OBVIOUS
      <4>3. Cut(p, a) \in Seq(Nat)
        BY <1>2, RestType
      <4>. QED BY <4>1, <4>2, <4>3
    <3>3. Decode(m) = {[json |-> SubSeq(p, 2, 1 + n), sps_pps |-> Cut(p, 2 + n)]}
      BY <2>1, <2>3, <3>1 DEF DecodeVideoConfig, Unless
    <3>. QED BY <3>2, <3>3 DEF BodyValues
  <2>. QED BY <2>2, <2>3
<1>4. CASE m.type = VideoChunk
  <2>1. Decode(m) = DecodeVideoChunk(p)
    BY <1>1, <1>4 DEF Decode
  <2>2. CASE Len(p) < 2
    BY <2>1, <2>2 DEF DecodeVideoChunk, Unless
  <2>3. CASE ~(Len(p) < 2)
    <3>1. Cut(p, 3) \in Seq(Nat) /\ p[1] \in Nat
      <4>1. p[1] \in Nat
        BY <1>2, <2>3
      <4>2. PICK a \in Nat \ {0} : a = 3
        OBVIOUS
      <4>3. Cut(p, a) \in Seq(Nat)
        BY <1>2, RestType
      <4>. QED BY <4>1, <4>2, <4>3
    <3>2. PICK k \in BOOLEAN : k = (p[2] % 2 = 1)
      OBVIOUS
    <3>3. Decode(m) = {[timestamp |-> p[1], is_keyframe |-> k, nal |-> Cut(p, 3)]}
      BY <2>1, <2>3, <3>2 DEF DecodeVideoChunk, Unless
    <3>. QED BY <3>1, <3>3 DEF BodyValues
  <2>. QED BY <2>2, <2>3
<1>5. CASE m.type = ImuBatch
  <2>1. Decode(m) = DecodeImuBatch(p)
    BY <1>1, <1>5 DEF Decode
  <2>2. CASE Len(p) < 1 \/ Len(p) < 1 + p[1]
    BY <2>1, <2>2 DEF DecodeImuBatch, Unless
  <2>3. CASE ~(Len(p) < 1 \/ Len(p) < 1 + p[1])
    <3>1. PICK n \in Nat : n = p[1]
      BY <1>2, <2>3
    <3>2. SubSeq(p, 2, 1 + n) \in Seq(Nat)
      BY <1>2, <2>3, <3>1, PartType
    <3>3. Decode(m) = {[samples |-> SubSeq(p, 2, 1 + n)]}
      BY <2>1, <2>3, <3>1 DEF DecodeImuBatch, Unless
    <3>. QED BY <3>2, <3>3 DEF BodyValues
  <2>. QED BY <2>2, <2>3
<1>6. CASE m.type = PoseSample
  <2>1. Decode(m) = DecodePoseSample(p)
    BY <1>1, <1>6 DEF Decode
  <2>2. CASE Len(p) < 2 + PoseSize
    BY <2>1, <2>2 DEF DecodePoseSample, Unless
  <2>3. CASE ~(Len(p) < 2 + PoseSize)
    <3>1. SubSeq(p, 3, 2 + PoseSize) \in Seq(Nat) /\ p[1] \in Nat /\ p[2] \in Nat
      <4>1. Len(p) >= 9 /\ 2 + PoseSize = 9
        BY <1>2, <2>3 DEF PoseSize
      <4>2. p[1] \in Nat /\ p[2] \in Nat
        BY <1>2, <4>1
      <4>3. SubSeq(p, 3, 9) \in Seq(Nat)
        <5>1. PICK a \in Nat \ {0}, e \in Nat : a = 3 /\ e = 9 /\ e <= Len(p)
          BY <4>1
        <5>2. SubSeq(p, a, e) \in Seq(Nat)
          BY <1>2, <5>1, PartType
        <5>. QED BY <5>1, <5>2
      <4>. QED BY <4>1, <4>2, <4>3
    <3>2. Decode(m) = {[timestamp |-> p[1], tracking_state |-> p[2],
                        pose |-> SubSeq(p, 3, 2 + PoseSize)]}
      BY <2>1, <2>3 DEF DecodePoseSample, Unless
    <3>. QED BY <3>1, <3>2 DEF BodyValues
  <2>. QED BY <2>2, <2>3
<1>7. CASE m.type = PointCloud
  <2>1. Decode(m) = DecodePointCloud(p)
    BY <1>1, <1>7 DEF Decode
  <2>2. CASE Len(p) < 2 \/ Len(p) < 2 + p[2]
    BY <2>1, <2>2 DEF DecodePointCloud, Unless
  <2>3. CASE ~(Len(p) < 2 \/ Len(p) < 2 + p[2])
    <3>1. PICK n \in Nat : n = p[2]
      BY <1>2, <2>3
    <3>2. SubSeq(p, 3, 2 + n) \in Seq(Nat) /\ p[1] \in Nat
      BY <1>2, <2>3, <3>1, PartType
    <3>3. Decode(m) = {[timestamp |-> p[1], points |-> SubSeq(p, 3, 2 + n)]}
      BY <2>1, <2>3, <3>1 DEF DecodePointCloud, Unless
    <3>. QED BY <3>2, <3>3 DEF BodyValues
  <2>. QED BY <2>2, <2>3
<1>8. CASE m.type = CameraIntrinsics
  <2>1. Decode(m) = DecodeCameraIntrinsics(p)
    BY <1>1, <1>8 DEF Decode
  <2>2. CASE Len(p) < IntrinsicsSize
    BY <2>1, <2>2 DEF DecodeCameraIntrinsics, Unless
  <2>3. CASE ~(Len(p) < IntrinsicsSize)
    <3>1. SubSeq(p, 1, IntrinsicsSize) \in Seq(Nat)
      BY <1>2, <2>3, PartType DEF IntrinsicsSize
    <3>2. Decode(m) = {[intrinsics |-> SubSeq(p, 1, IntrinsicsSize)]}
      BY <2>1, <2>3 DEF DecodeCameraIntrinsics, Unless
    <3>. QED BY <3>1, <3>2 DEF BodyValues
  <2>. QED BY <2>2, <2>3
<1>. QED BY <1>3, <1>4, <1>5, <1>6, <1>7, <1>8

LEMMA FramedType ==
  ASSUME NEW b \in Seq(Nat), HasMessage(b)
  PROVE  /\ NextMessage(b).type \in Nat /\ NextMessage(b).seq \in Nat
         /\ NextMessage(b).payload \in Seq(Nat)
         /\ AfterMessage(b) \in Seq(Nat) /\ Total(b) \in Nat /\ Total(b) <= Len(b)
         /\ Total(b) >= 3 /\ Len(b) \in Nat
<1>1. Len(b) \in Nat /\ Len(b) >= 3 /\ \A i \in 1 .. Len(b) : b[i] \in Nat
  BY LenIsNat, ElementOfSeq DEF HasMessage, HasHeader, HeaderSize
<1>2. Total(b) \in Nat /\ Total(b) >= 3
  BY <1>1 DEF Total, HeaderSize
<1>3. Total(b) <= Len(b)
  BY <1>1, <1>2 DEF HasMessage
<1>4. PICK n \in Nat : n = Total(b)
  BY <1>2
<1>5. SubSeq(b, 4, n) \in Seq(Nat) /\ Cut(b, n + 1) \in Seq(Nat)
  <2>1. SubSeq(b, 4, n) \in Seq(Nat)
    BY <1>3, <1>4, PartType
  <2>2. PICK a \in Nat \ {0} : a = n + 1
    OBVIOUS
  <2>3. Cut(b, a) \in Seq(Nat)
    BY RestType
  <2>. QED BY <2>1, <2>2, <2>3
<1>6. NextMessage(b) = [type |-> b[2], seq |-> b[3], payload |-> SubSeq(b, 4, n)]
  BY <1>4 DEF NextMessage, HeaderSize
<1>7. b[2] \in Nat /\ b[3] \in Nat
  BY <1>1
<1>. QED BY <1>1, <1>2, <1>3, <1>4, <1>5, <1>6, <1>7 DEF AfterMessage

LEMMA ConfigType == EncodedConfig \in Seq(Nat)
<1>1. PICK j, s : j = Config.json /\ s = Config.sps_pps
  OBVIOUS
<1>2. j \in Seq(Nat) /\ s \in Seq(Nat)
  BY <1>1, ConfigAssumption
<1>3. Put16(Len(j)) \in Seq(Nat)
  BY <1>2, PutTypes, LenIsNat
<1>4. PICK p : p = Put16(Len(j)) \o j \o s
  OBVIOUS
<1>5. p \in Seq(Nat)
  <2>1. Put16(Len(j)) \o j \in Seq(Nat)
    BY <1>2, <1>3, ConcatProperties
  <2>. QED BY <1>2, <1>4, <2>1, ConcatProperties
<1>6. EncodedConfig = Wrap(5, 1, p)
  BY <1>1, <1>4 DEF EncodedConfig, EncodeVideoConfig, VideoConfig
<1>. QED BY <1>5, <1>6, WrapShape

(* One field of a connection is set.                                       *)
LEMMA SetFlight ==
  ASSUME NEW d \in Connections, NEW v \in Seq(Nat), NEW q, q = [d EXCEPT !.flight = v]
  PROVE  /\ q \in Connections /\ q.flight = v
         /\ q.cut = d.cut /\ q.closed = d.closed /\ q.live = d.live
         /\ q.buffer = d.buffer /\ q.recorded = d.recorded
BY DEF Connections

LEMMA SetBuffer ==
  ASSUME NEW d \in Connections, NEW v \in Seq(Nat), NEW q, q = [d EXCEPT !.buffer = v]
  PROVE  /\ q \in Connections /\ q.buffer = v
         /\ q.flight = d.flight /\ q.cut = d.cut /\ q.closed = d.closed
         /\ q.live = d.live /\ q.recorded = d.recorded
BY DEF Connections

LEMMA SetRecorded ==
  ASSUME NEW d \in Connections, NEW v \in Seq(Records), NEW q, q = [d EXCEPT !.recorded = v]
  PROVE  /\ q \in Connections /\ q.recorded = v
         /\ q.flight = d.flight /\ q.cut = d.cut /\ q.closed = d.closed
         /\ q.live = d.live /\ q.buffer = d.buffer
BY DEF Connections

LEMMA SetCut ==
  ASSUME NEW d \in Connections, NEW q, q = [d EXCEPT !.cut = TRUE]
  PROVE  /\ q \in Connections /\ q.cut
         /\ q.flight = d.flight /\ q.closed = d.closed /\ q.live = d.live
         /\ q.buffer = d.buffer /\ q.recorded = d.recorded
BY DEF Connections

LEMMA SetClosed ==
  ASSUME NEW d \in Connections, NEW q, q = [d EXCEPT !.closed = TRUE]
  PROVE  /\ q \in Connections /\ q.closed = TRUE
         /\ q.flight = d.flight /\ q.cut = d.cut /\ q.live = d.live
         /\ q.buffer = d.buffer /\ q.recorded = d.recorded
BY DEF Connections

LEMMA SetLive ==
  ASSUME NEW d \in Connections, NEW q, q = [d EXCEPT !.live = FALSE]
  PROVE  /\ q \in Connections /\ q.live = FALSE
         /\ q.flight = d.flight /\ q.cut = d.cut /\ q.closed = d.closed
         /\ q.buffer = d.buffer /\ q.recorded = d.recorded
BY DEF Connections

LEMMA SetOnce ==
  ASSUME NEW s \in Seq(Connections), NEW c \in 1 .. Len(s), NEW q \in Connections
  PROVE  /\ [s EXCEPT ![c] = q] \in Seq(Connections) /\ Len([s EXCEPT ![c] = q]) = Len(s)
         /\ [s EXCEPT ![c] = q][c] = q
         /\ \A d \in 1 .. Len(s) : d # c => [s EXCEPT ![c] = q][d] = s[d]
<1>1. /\ [s EXCEPT ![c] = q] \in Seq(Connections) /\ Len([s EXCEPT ![c] = q]) = Len(s)
      /\ \A d \in 1 .. Len(s) : [s EXCEPT ![c] = q][d] = IF d = c THEN q ELSE s[d]
  BY ExceptSeq
<1>. QED BY <1>1

(* Two changes of one connection are one.                                  *)
LEMMA SetTwice ==
  ASSUME NEW s, NEW c, NEW q, NEW r
  PROVE  [[s EXCEPT ![c] = q] EXCEPT ![c] = r] = [s EXCEPT ![c] = r]
OBVIOUS

-----------------------------------------------------------------------------
(* What the actions make of the connections.                               *)

(* What a break makes of a connection.                                     *)
LEMMA CutEffect ==
  ASSUME connections \in Seq(Connections), connections # <<>>,
         NEW flight \in Seq(Nat), CutOff(flight)
  PROVE  /\ ~connections[Current].cut /\ breaks' = breaks + 1
         /\ \E n \in 0 .. Len(flight), r \in Connections :
               /\ ChangedTo(Current, r)
               /\ r.cut /\ r.flight = SubSeq(flight, 1, n)
               /\ r.buffer = connections[Current].buffer
               /\ r.recorded = connections[Current].recorded
<1>1. Current \in 1 .. Len(connections)
  BY EmptySeq, LenProperties DEF Current
<1>2. PICK n \in 0 .. Len(flight) :
          connections' = [connections EXCEPT ![Current].cut = TRUE,
                                             ![Current].flight = SubSeq(flight, 1, n)]
  BY DEF CutOff
<1>3. PICK c \in 1 .. Len(connections) : c = Current
  BY <1>1
<1>4. PICK v : v = SubSeq(flight, 1, n)
  OBVIOUS
<1>5. v \in Seq(Nat)
  <2>1. n \in Nat /\ n <= Len(flight)
    BY LenIsNat
  <2>. QED BY <1>4, <2>1, PartType
<1>6. PICK q : q = [connections[c] EXCEPT !.cut = TRUE]
  OBVIOUS
<1>6A. [connections EXCEPT ![c].cut = TRUE] = [connections EXCEPT ![c] = q]
  BY <1>6
<1>6B. /\ q \in Connections
      /\ q.cut
      /\ q.buffer = connections[c].buffer
      /\ q.recorded = connections[c].recorded
  <2>1. connections[c] \in Connections
    BY ElementOfSeq
  <2>. QED BY <1>6, <2>1, SetCut
<1>7. PICK t : t = [connections EXCEPT ![c] = q]
  OBVIOUS
<1>8. t \in Seq(Connections) /\ Len(t) = Len(connections) /\ t[c] = q
  BY <1>6B, <1>7, SetOnce
<1>9. PICK r : r = [t[c] EXCEPT !.flight = v]
  OBVIOUS
<1>9A. [t EXCEPT ![c].flight = v] = [t EXCEPT ![c] = r]
  BY <1>9
<1>9B. /\ r \in Connections
      /\ r.flight = v
      /\ r.cut = q.cut
      /\ r.buffer = q.buffer
      /\ r.recorded = q.recorded
  <2>1. t[c] \in Connections
    BY <1>5, <1>8, ElementOfSeq
  <2>. QED BY <1>5, <1>8, <1>9, <2>1, SetFlight
<1>10. connections' = [t EXCEPT ![c].flight = v]
  <2>1. connections' = [connections EXCEPT ![c].cut = TRUE, ![c].flight = v]
    BY <1>2, <1>3, <1>4
  <2>2. connections' = [[connections EXCEPT ![c].cut = TRUE] EXCEPT ![c].flight = v]
    BY <2>1, Zenon
  <2>. QED BY <1>6, <1>6A, <1>6B, <1>7, <2>2
<1>11. connections' = [connections EXCEPT ![c] = r]
  <2>1. [t EXCEPT ![c] = r] = [connections EXCEPT ![c] = r]
    BY <1>7, SetTwice
  <2>. QED BY <1>9, <1>9A, <1>9B, <1>10, <2>1
<1>12. ChangedTo(c, r)
  BY <1>9B, <1>11 DEF ChangedTo
<1>13. ~connections[Current].cut /\ breaks' = breaks + 1
  BY DEF CutOff
<1>14. /\ ChangedTo(Current, r)
       /\ r.cut /\ r.flight = SubSeq(flight, 1, n)
       /\ r.buffer = connections[Current].buffer
       /\ r.recorded = connections[Current].recorded
  BY <1>3, <1>4, <1>6, <1>6A, <1>6B, <1>9, <1>9A, <1>9B, <1>12
<1>. QED BY <1>9B, <1>13, <1>14

(* What a send makes of the current connection.                            *)
LEMMA SendEffect ==
  ASSUME connections \in Seq(Connections), connections # <<>>,
         NEW cells \in Seq(Nat), SendAll(cells)
  PROVE  \/ connections[Current].cut /\ UNCHANGED connections
         \/ \E r \in Connections :
               /\ ~connections[Current].cut
               /\ ChangedTo(Current, r)
               /\ ~r.cut /\ r.flight = connections[Current].flight \o cells
               /\ r.buffer = connections[Current].buffer
               /\ r.recorded = connections[Current].recorded
<1>1. Current \in 1 .. Len(connections)
  BY EmptySeq, LenProperties DEF Current
<1>2. CASE connections[Current].cut
  BY <1>2 DEF SendAll
<1>3. CASE ~connections[Current].cut
  <2>0. PICK c, v : c = Current /\ v = connections[c].flight \o cells
    OBVIOUS
  <2>1. c \in 1 .. Len(connections) /\ c = Current /\ v = connections[c].flight \o cells
    BY <1>1, <2>0
  <2>2. connections[c] \in Connections
    BY <2>1, ElementOfSeq
  <2>3. v \in Seq(Nat)
    BY <2>1, <2>2, ConcatProperties DEF Connections
  <2>4. connections' = [connections EXCEPT ![c].flight = v]
    BY <1>3, <2>1 DEF SendAll
  <2>5. PICK r : r = [connections[c] EXCEPT !.flight = v]
    OBVIOUS
  <2>5A. [connections EXCEPT ![c].flight = v] = [connections EXCEPT ![c] = r]
    BY <2>5
  <2>5B. /\ r \in Connections
        /\ r.flight = v
        /\ r.cut = connections[c].cut
        /\ r.buffer = connections[c].buffer
        /\ r.recorded = connections[c].recorded
    <3>1. connections[c] \in Connections
      BY <2>1, ElementOfSeq
    <3>. QED BY <2>3, <2>5, <3>1, SetFlight
  <2>. QED BY <1>3, <2>1, <2>4, <2>5, <2>5A, <2>5B DEF ChangedTo
<1>. QED BY <1>2, <1>3

(* What the end of the sender makes of the current connection.             *)
LEMMA ExitEffect ==
  ASSUME ConnectionTypes, Exit
  PROVE  \/ UNCHANGED connections
         \/ \E r \in Connections :
               /\ ChangedTo(Current, r)
               /\ r.cut = connections[Current].cut /\ r.flight = connections[Current].flight
               /\ r.buffer = connections[Current].buffer
               /\ r.recorded = connections[Current].recorded
<1>1. CASE sender = "on"
  <2>1. connections \in Seq(Connections) /\ connections # <<>>
    BY <1>1 DEF ConnectionTypes
  <2>2. PICK c \in 1 .. Len(connections) : c = Current
    BY <2>1, EmptySeq, LenProperties DEF Current
  <2>3. connections' = [connections EXCEPT ![c].closed = TRUE]
    BY <1>1, <2>2 DEF Exit
  <2>4. PICK r : r = [connections[c] EXCEPT !.closed = TRUE]
    OBVIOUS
  <2>4A. [connections EXCEPT ![c].closed = TRUE] = [connections EXCEPT ![c] = r]
    BY <2>4
  <2>4B. /\ r \in Connections
        /\ r.flight = connections[c].flight
        /\ r.cut = connections[c].cut
        /\ r.buffer = connections[c].buffer
        /\ r.recorded = connections[c].recorded
    <3>1. connections[c] \in Connections
      BY <2>1, ElementOfSeq
    <3>. QED BY <2>1, <2>4, <3>1, SetClosed
  <2>. QED BY <2>2, <2>3, <2>4, <2>4A, <2>4B DEF ChangedTo
<1>2. CASE sender # "on"
  BY <1>2 DEF Exit
<1>. QED BY <1>1, <1>2

(* What a read of the server makes of a connection.                        *)
LEMMA ReadEffect ==
  ASSUME connections \in Seq(Connections), NEW c \in DOMAIN connections, Read(c)
  PROVE  \E r \in Connections :
               /\ ChangedTo(c, r)
               /\ r.cut = connections[c].cut /\ r.flight = <<>>
               /\ r.buffer = connections[c].buffer \o connections[c].flight
               /\ r.recorded = connections[c].recorded
<1>1. c \in 1 .. Len(connections)
  BY LenProperties
<1>2. PICK v : v = connections[c].buffer \o connections[c].flight
  OBVIOUS
<1>3. v \in Seq(Nat)
  <2>1. connections[c] \in Connections
    BY <1>1, ElementOfSeq
  <2>. QED BY <1>2, <2>1, ConcatProperties DEF Connections
<1>4. <<>> \in Seq(Nat)
  BY EmptySeq
<1>5. PICK q : q = [connections[c] EXCEPT !.buffer = v]
  OBVIOUS
<1>5A. [connections EXCEPT ![c].buffer = v] = [connections EXCEPT ![c] = q]
  BY <1>5
<1>5B. /\ q \in Connections
      /\ q.buffer = v
      /\ q.cut = connections[c].cut
      /\ q.recorded = connections[c].recorded
  <2>1. connections[c] \in Connections
    BY <1>1, <1>3, ElementOfSeq
  <2>. QED BY <1>1, <1>3, <1>5, <2>1, SetBuffer
<1>6. PICK t : t = [connections EXCEPT ![c] = q]
  OBVIOUS
<1>7. t \in Seq(Connections) /\ Len(t) = Len(connections) /\ t[c] = q
  BY <1>1, <1>5B, <1>6, SetOnce
<1>8. PICK r : r = [t[c] EXCEPT !.flight = <<>>]
  OBVIOUS
<1>8A. [t EXCEPT ![c].flight = <<>>] = [t EXCEPT ![c] = r]
  BY <1>8
<1>8B. /\ r \in Connections
      /\ r.flight = <<>>
      /\ r.cut = q.cut
      /\ r.buffer = q.buffer
      /\ r.recorded = q.recorded
  <2>1. t[c] \in Connections
    BY <1>5B, <1>7
  <2>2. r \in Connections /\ r.flight = <<>> /\ r.cut = t[c].cut /\ r.buffer = t[c].buffer
        /\ r.recorded = t[c].recorded
    <3>1. PICK e \in Seq(Nat), d \in Connections : e = <<>> /\ d = t[c]
      BY <1>4, <2>1
    <3>2. r = [d EXCEPT !.flight = e]
      BY <1>8, <3>1
    <3>3. r \in Connections /\ r.flight = e /\ r.cut = d.cut /\ r.buffer = d.buffer
          /\ r.recorded = d.recorded
      BY <3>2, SetFlight
    <3>. QED BY <3>1, <3>3
  <2>. QED BY <1>7, <2>2
<1>9. connections' = [t EXCEPT ![c].flight = <<>>]
  <2>1. connections' = [connections EXCEPT
                            ![c].buffer = connections[c].buffer \o connections[c].flight,
                            ![c].flight = <<>>]
    BY Zenon DEF Read
  <2>2. connections' = [connections EXCEPT ![c].buffer = v, ![c].flight = <<>>]
    BY <1>2, <2>1, Zenon
  <2>3. connections' = [[connections EXCEPT ![c].buffer = v] EXCEPT ![c].flight = <<>>]
    BY <2>2, Zenon
  <2>. QED BY <1>5, <1>5A, <1>5B, <1>6, <2>3
<1>10. connections' = [connections EXCEPT ![c] = r]
  <2>1. [t EXCEPT ![c] = r] = [connections EXCEPT ![c] = r]
    BY <1>1, <1>6, SetTwice
  <2>. QED BY <1>8, <1>8A, <1>8B, <1>9, <2>1
<1>11. ChangedTo(c, r)
  BY <1>1, <1>8B, <1>10 DEF ChangedTo
<1>. QED BY <1>2, <1>5, <1>5A, <1>5B, <1>7, <1>8, <1>8A, <1>8B, <1>11, Zenon

(* What the end of a session makes of a connection.                        *)
LEMMA EndEffect ==
  ASSUME connections \in Seq(Connections), NEW c \in DOMAIN connections, EndSession(c)
  PROVE  \E r \in Connections :
               /\ ChangedTo(c, r)
               /\ r.cut = connections[c].cut /\ r.flight = connections[c].flight
               /\ r.buffer = connections[c].buffer /\ r.recorded = connections[c].recorded
<1>1. c \in 1 .. Len(connections)
  BY LenProperties
<1>2. PICK r : r = [connections[c] EXCEPT !.live = FALSE]
  OBVIOUS
<1>2A. [connections EXCEPT ![c].live = FALSE] = [connections EXCEPT ![c] = r]
  BY <1>2
<1>2B. /\ r \in Connections
      /\ r.flight = connections[c].flight
      /\ r.cut = connections[c].cut
      /\ r.buffer = connections[c].buffer
      /\ r.recorded = connections[c].recorded
  <2>1. connections[c] \in Connections
    BY <1>1, ElementOfSeq
  <2>. QED BY <1>1, <1>2, <2>1, SetLive
<1>3. connections' = [connections EXCEPT ![c].live = FALSE]
  BY DEF EndSession
<1>. QED BY <1>1, <1>2, <1>2A, <1>2B, <1>3 DEF ChangedTo

(* A whole message is decoded, skipped, or ends the session.               *)
Accepted(c, m) ==
    /\ m.type \in Known
    /\ \E body \in Decoded(m), r \in Connections :
          /\ ChangedTo(c, r)
          /\ r.cut = connections[c].cut /\ r.flight = connections[c].flight
          /\ r.buffer = AfterMessage(connections[c].buffer)
          /\ r.recorded = Append(connections[c].recorded,
                                 [type |-> m.type, seq |-> m.seq, body |-> body])
Skipped(c, m) ==
    /\ m.type \notin Known
    /\ \E r \in Connections :
          /\ ChangedTo(c, r)
          /\ r.cut = connections[c].cut /\ r.recorded = connections[c].recorded
Refused(c, m) ==
    /\ m.type \in Known /\ Decoded(m) = {}
    /\ \E r \in Connections :
          ChangedTo(c, r) /\ r.cut /\ r.recorded = connections[c].recorded

(* What a handled message makes of a connection.                           *)
LEMMA HandleEffect ==
  ASSUME connections \in Seq(Connections), NEW c \in DOMAIN connections, Handle(c),
         NEW m, m = NextMessage(connections[c].buffer)
  PROVE  HasMessage(connections[c].buffer) /\ (Accepted(c, m) \/ Skipped(c, m) \/ Refused(c, m))
<1>1. c \in 1 .. Len(connections) /\ connections[c] \in Connections
  BY LenProperties, ElementOfSeq
<1>2. PICK b : b = connections[c].buffer /\ m = NextMessage(b)
  OBVIOUS
<1>3. b \in Seq(Nat) /\ HasMessage(b)
  BY <1>1, <1>2 DEF Handle, Connections
<1>4. m.type \in Nat /\ m.seq \in Nat /\ m.payload \in Seq(Nat) /\ AfterMessage(b) \in Seq(Nat)
  BY <1>2, <1>3, FramedType
<1>5. PICK v : v = AfterMessage(b)
  OBVIOUS
<1>6. PICK q : q = [connections[c] EXCEPT !.buffer = v]
  OBVIOUS
<1>6A. [connections EXCEPT ![c].buffer = v] = [connections EXCEPT ![c] = q]
  BY <1>6
<1>6B. /\ q \in Connections
      /\ q.buffer = v
      /\ q.cut = connections[c].cut
      /\ q.flight = connections[c].flight
      /\ q.recorded = connections[c].recorded
  <2>1. connections[c] \in Connections
    BY <1>1, <1>4, <1>5, ElementOfSeq
  <2>. QED BY <1>1, <1>4, <1>5, <1>6, <2>1, SetBuffer
<1>7. PICK t : t = [connections EXCEPT ![c] = q]
  OBVIOUS
<1>8. t \in Seq(Connections) /\ Len(t) = Len(connections) /\ t[c] = q
  BY <1>1, <1>6B, <1>7, SetOnce
<1>9. CASE /\ m.type \in Known
           /\ \E body \in Decoded(m) :
                connections' = [connections EXCEPT
                    ![c].buffer = AfterMessage(@),
                    ![c].recorded = Append(@, [type |-> m.type, seq |-> m.seq, body |-> body])]
  <2>1. PICK body \in Decoded(m) :
            connections' = [connections EXCEPT
                    ![c].buffer = AfterMessage(@),
                    ![c].recorded = Append(@, [type |-> m.type, seq |-> m.seq, body |-> body])]
    BY <1>9
  <2>2. PICK x : x = [type |-> m.type, seq |-> m.seq, body |-> body]
    OBVIOUS
  <2>3. body \in BodyValues
    BY <1>4, <1>9, DecodeType DEF Decoded
  <2>4. x \in Records
    BY <1>4, <1>9, <2>2, <2>3 DEF Records
  <2>5. PICK w : w = Append(connections[c].recorded, x)
    OBVIOUS
  <2>6. connections[c].recorded \in Seq(Records) /\ w \in Seq(Records)
    BY <1>1, <2>4, <2>5, AppendProperties DEF Connections
  <2>7. PICK r : r = [t[c] EXCEPT !.recorded = w]
    OBVIOUS
  <2>7A. [t EXCEPT ![c].recorded = w] = [t EXCEPT ![c] = r]
    BY <2>7
  <2>7B. /\ r \in Connections
        /\ r.flight = q.flight
        /\ r.cut = q.cut
        /\ r.buffer = q.buffer
        /\ r.recorded = w
    <3>1. t[c] \in Connections
      BY <1>1, <1>8, <2>6, ElementOfSeq
    <3>. QED BY <1>1, <1>8, <2>6, <2>7, <3>1, SetRecorded
  <2>8. connections' = [t EXCEPT ![c].recorded = w]
    <3>1. connections' = [connections EXCEPT
                    ![c].buffer = AfterMessage(connections[c].buffer),
                    ![c].recorded = Append(connections[c].recorded, x)]
      BY <2>1, <2>2, Zenon
    <3>2. connections' = [connections EXCEPT ![c].buffer = v, ![c].recorded = w]
      BY <1>2, <1>5, <2>5, <3>1, Zenon
    <3>3. connections' = [[connections EXCEPT ![c].buffer = v] EXCEPT ![c].recorded = w]
      BY <3>2, Zenon
    <3>. QED BY <1>6, <1>6A, <1>6B, <1>7, <3>3
  <2>9. connections' = [connections EXCEPT ![c] = r]
    <3>1. [t EXCEPT ![c] = r] = [connections EXCEPT ![c] = r]
      BY <1>1, <1>7, SetTwice
    <3>. QED BY <2>7, <2>7A, <2>7B, <2>8, <3>1
  <2>10. ChangedTo(c, r)
    BY <1>1, <2>7B, <2>9 DEF ChangedTo
  <2>11. /\ r.cut = connections[c].cut /\ r.flight = connections[c].flight
         /\ r.buffer = AfterMessage(connections[c].buffer)
         /\ r.recorded = Append(connections[c].recorded, x)
    BY <1>2, <1>5, <1>6B, <2>5, <2>7B
  <2>12. Accepted(c, m)
    BY <1>9, <2>2, <2>7B, <2>10, <2>11 DEF Accepted
  <2>. QED BY <1>2, <1>3, <2>12
<1>10. CASE /\ m.type \notin Known
            /\ connections' = [connections EXCEPT ![c].buffer = AfterMessage(@)]
  <2>1. connections' = [connections EXCEPT ![c].buffer = v]
    BY <1>2, <1>5, <1>10
  <2>2. ChangedTo(c, q)
    BY <1>1, <1>6, <1>6A, <1>6B, <2>1 DEF ChangedTo
  <2>. QED BY <1>2, <1>3, <1>6B, <1>10, <2>2 DEF Skipped
<1>11. CASE /\ m.type \in Known /\ Decoded(m) = {}
            /\ connections' = [connections EXCEPT ![c].live = FALSE, ![c].cut = TRUE,
                                                  ![c].flight = <<>>]
  <2>1. PICK r1 : r1 = [connections[c] EXCEPT !.live = FALSE]
    OBVIOUS
  <2>1A. [connections EXCEPT ![c].live = FALSE] = [connections EXCEPT ![c] = r1]
    BY <2>1
  <2>1B. r1 \in Connections /\ r1.recorded = connections[c].recorded
    BY <1>1, <2>1, SetLive
  <2>2. PICK t1 : t1 = [connections EXCEPT ![c] = r1]
    OBVIOUS
  <2>3. t1 \in Seq(Connections) /\ Len(t1) = Len(connections) /\ t1[c] = r1
    BY <1>1, <2>1B, <2>2, SetOnce
  <2>4. PICK r2 : r2 = [t1[c] EXCEPT !.cut = TRUE]
    OBVIOUS
  <2>4A. [t1 EXCEPT ![c].cut = TRUE] = [t1 EXCEPT ![c] = r2]
    BY <2>4
  <2>4B. r2 \in Connections /\ r2.cut /\ r2.recorded = r1.recorded
    <3>1. r2 = [r1 EXCEPT !.cut = TRUE]
      BY <2>3, <2>4
    <3>. QED BY <2>1B, <3>1, SetCut
  <2>5. PICK t2 : t2 = [t1 EXCEPT ![c] = r2]
    OBVIOUS
  <2>6. t2 \in Seq(Connections) /\ Len(t2) = Len(connections) /\ t2[c] = r2
    BY <1>1, <2>3, <2>4B, <2>5, SetOnce
  <2>7. PICK r3 : r3 = [t2[c] EXCEPT !.flight = <<>>]
    OBVIOUS
  <2>7A. [t2 EXCEPT ![c].flight = <<>>] = [t2 EXCEPT ![c] = r3]
    BY <2>7
  <2>7B. r3 \in Connections /\ r3.cut = r2.cut /\ r3.recorded = r2.recorded
    <3>1. PICK e \in Seq(Nat) : e = <<>>
      BY EmptySeq
    <3>2. r3 = [r2 EXCEPT !.flight = e]
      BY <2>6, <2>7, <3>1
    <3>. QED BY <2>4B, <3>2, SetFlight
  <2>8. connections' = [[[connections EXCEPT ![c].live = FALSE] EXCEPT ![c].cut = TRUE]
                            EXCEPT ![c].flight = <<>>]
    BY <1>11, Zenon
  <2>9. connections' = [t2 EXCEPT ![c] = r3]
    BY <2>1, <2>1A, <2>1B, <2>2, <2>4, <2>4A, <2>4B, <2>5, <2>7, <2>7A, <2>7B, <2>8
  <2>10. [t2 EXCEPT ![c] = r3] = [t1 EXCEPT ![c] = r3]
    BY <1>1, <2>3, <2>5, SetTwice
  <2>11. [t1 EXCEPT ![c] = r3] = [connections EXCEPT ![c] = r3]
    BY <1>1, <2>2, SetTwice
  <2>12. ChangedTo(c, r3)
    BY <1>1, <2>7B, <2>9, <2>10, <2>11 DEF ChangedTo
  <2>13. r3.cut /\ r3.recorded = connections[c].recorded
    BY <2>1B, <2>4B, <2>7B
  <2>14. Refused(c, m)
    BY <1>11, <2>7B, <2>12, <2>13 DEF Refused
  <2>. QED BY <1>2, <1>3, <2>14
<1>. QED BY <1>2, <1>9, <1>10, <1>11 DEF Handle

LEMMA ChangeTypes ==
  ASSUME connections \in Seq(Connections), NEW c, NEW r, ChangedTo(c, r)
  PROVE  connections' \in Seq(Connections) /\ Len(connections') = Len(connections)
         /\ connections' # <<>>
<1>1. /\ connections' \in Seq(Connections) /\ Len(connections') = Len(connections)
      /\ c \in 1 .. Len(connections)
  BY SetOnce DEF ChangedTo
<1>. QED BY <1>1, EmptySeq, LenProperties

LEMMA NewConnectionType == NewConnection \in Connections
BY EmptySeq DEF NewConnection, Connections

(* What the sender sends is made of cells.                                 *)
LEMMA NextToSendType ==
  ASSUME SpoolCounts, MemoryCounts, HasNext
  PROVE  NextToSend \in Seq(Nat)
<1>1. CASE memory_queue_ # <<>>
  <2>1. PICK q, Q : q = memory_queue_ /\ Q = Seq(Nat)
    OBVIOUS
  <2>2. q \in Seq(Q) /\ q # <<>>
    BY <1>1, <2>1 DEF MemoryCounts
  <2>3. Head(q) \in Q
    BY <2>2, HeadThenTail
  <2>. QED BY <1>1, <2>1, <2>3 DEF NextToSend
<1>2. CASE memory_queue_ = <<>>
  <2>1. unread \in Seq(Nat) /\ HasHeader(unread)
    BY <1>2 DEF HasNext, SpoolReadable, SpoolCounts
  <2>. QED BY <1>2, <2>1, SpoolMessageType DEF NextToSend
<1>. QED BY <1>1, <1>2

LEMMA FlightType ==
  ASSUME connections \in Seq(Connections), connections # <<>>
  PROVE  /\ Current \in 1 .. Len(connections) /\ connections[Current] \in Connections
         /\ connections[Current].flight \in Seq(Nat)
<1>1. PICK c : c = Current
  OBVIOUS
<1>2. c \in 1 .. Len(connections)
  BY <1>1, EmptySeq, LenProperties DEF Current
<1>3. connections[c] \in Connections
  BY <1>2, ElementOfSeq
<1>. QED BY <1>1, <1>2, <1>3 DEF Connections

LEMMA CutTypes ==
  ASSUME connections \in Seq(Connections), connections # <<>>,
         NEW flight \in Seq(Nat), CutOff(flight)
  PROVE  /\ connections' \in Seq(Connections) /\ connections' # <<>>
         /\ Len(connections') = Len(connections)
<1>1. PICK r \in Connections : ChangedTo(Current, r)
  BY CutEffect
<1>. QED BY <1>1, ChangeTypes

(* Every step keeps the types of the connections.                          *)
LEMMA ConnectionTypesStep ==
  PhoneTypes /\ SpoolCounts /\ MemoryCounts /\ ConnectionTypes /\ [Next]_vars
      => ConnectionTypes'
<1>. SUFFICES ASSUME PhoneTypes, SpoolCounts, MemoryCounts, ConnectionTypes, [Next]_vars
              PROVE  ConnectionTypes'
  OBVIOUS
<1>. USE DEF vars, phoneVars, queueVars, historyVars
<1>0. connections \in Seq(Connections) /\ (sender = "on" => connections # <<>>)
  BY DEF ConnectionTypes
<1>s. ASSUME connections' \in Seq(Connections), Len(connections') = Len(connections),
             sender' = "on" => connections' # <<>>, first' = first
      PROVE  ConnectionTypes'
  BY <1>s DEF ConnectionTypes
<1>1. CASE UNCHANGED vars
  BY <1>1 DEF ConnectionTypes
<1>2. CASE Capture
  BY <1>2 DEF Capture, Write, WriteDropped, WriteVideoConfig, Close, ConnectionTypes
<1>3. CASE Connect
  <2>1. connections' = Append(connections, NewConnection)
    BY <1>3 DEF Connect
  <2>2. connections' \in Seq(Connections) /\ Len(connections') = Len(connections) + 1
    BY <1>0, <2>1, NewConnectionType, AppendProperties
  <2>3. connections' # <<>>
    BY <1>0, <2>2, EmptySeq, LenProperties
  <2>4. first' \in Seq(Nat) /\ Len(first') = Len(first) + 1
    <3>1. first' = Append(first, sent) /\ sent \in Nat /\ first \in Seq(Nat)
      BY <1>3 DEF Connect, PhoneTypes, ConnectionTypes
    <3>. QED BY <3>1, AppendProperties
  <2>5. Len(first) = Len(connections)
    BY DEF ConnectionTypes
  <2>. QED BY <2>2, <2>3, <2>4, <2>5 DEF ConnectionTypes
<1>4. ASSUME sender = "on", NEW cells \in Seq(Nat), SendAll(cells)
      PROVE  /\ connections' \in Seq(Connections) /\ connections' # <<>>
             /\ Len(connections') = Len(connections)
  <2>1. \/ UNCHANGED connections
        \/ \E r \in Connections : ChangedTo(Current, r)
    BY <1>0, <1>4, SendEffect
  <2>. QED BY <1>0, <1>4, <2>1, ChangeTypes
<1>5. CASE SendConfig
  <2>1. sender = "on" /\ SendAll(EncodedConfig) /\ first' = first
    BY <1>5 DEF SendConfig
  <2>. QED BY <1>4, <1>s, <2>1, ConfigType
<1>6. CASE SendNext
  <2>1. sender = "on" /\ HasNext /\ SendAll(NextToSend) /\ first' = first
    BY <1>6 DEF SendNext
  <2>. QED BY <1>4, <1>s, <2>1, NextToSendType
<1>7. CASE SendFails
  <2>1. sender = "on" /\ sender' = "off" /\ first' = first
    BY <1>7 DEF SendFails
  <2>2. PICK cells : /\ cells \in Seq(Nat)
                     /\ \/ UNCHANGED connections
                        \/ \E k \in 0 .. Len(cells) - 1 :
                              CutOff(connections[Current].flight \o SubSeq(cells, 1, k))
    <3>1. CASE config_cached /\ ~config_sent
      BY <1>7, <3>1, ConfigType DEF SendFails
    <3>2. CASE ~(config_cached /\ ~config_sent)
      <4>1. HasNext
        BY <1>7, <3>2 DEF SendFails
      <4>2. NextToSend \in Seq(Nat)
        BY <4>1, NextToSendType
      <4>. QED BY <1>7, <3>2, <4>2 DEF SendFails
    <3>. QED BY <3>1, <3>2
  <2>3. connections' \in Seq(Connections) /\ Len(connections') = Len(connections)
    <3>1. CASE UNCHANGED connections
      BY <1>0, <3>1
    <3>2. ASSUME NEW k \in 0 .. Len(cells) - 1,
                 CutOff(connections[Current].flight \o SubSeq(cells, 1, k))
          PROVE  connections' \in Seq(Connections) /\ Len(connections') = Len(connections)
      <4>1. connections[Current].flight \in Seq(Nat)
        BY <1>0, <2>1, FlightType
      <4>2. SubSeq(cells, 1, k) \in Seq(Nat)
        <5>1. k \in Nat /\ k <= Len(cells)
          BY <2>2, LenIsNat
        <5>. QED BY <2>2, <5>1, PartType
      <4>3. PICK fl : fl = connections[Current].flight \o SubSeq(cells, 1, k)
        OBVIOUS
      <4>4. fl \in Seq(Nat)
        BY <4>1, <4>2, <4>3, ConcatProperties
      <4>. QED BY <1>0, <2>1, <3>2, <4>3, <4>4, CutTypes
    <3>. QED BY <2>2, <3>1, <3>2
  <2>. QED BY <1>s, <2>1, <2>3
<1>8. CASE PopShort
  BY <1>8 DEF PopShort, ConnectionTypes
<1>9. CASE Exit
  <2>1. connections' \in Seq(Connections) /\ Len(connections') = Len(connections)
    BY <1>0, <1>9, ExitEffect, ChangeTypes
  <2>2. sender' = "done" /\ first' = first
    BY <1>9 DEF Exit
  <2>. QED BY <1>s, <2>1, <2>2
<1>10. CASE Break
  <2>1. connections # <<>> /\ CutOff(connections[Current].flight) /\ first' = first
    BY <1>10 DEF Break
  <2>2. connections[Current].flight \in Seq(Nat)
    BY <1>0, <2>1, FlightType
  <2>. QED BY <1>0, <1>s, <2>1, <2>2, CutTypes
<1>11. CASE Sessions
  <2>1. PICK c \in DOMAIN connections : Read(c) \/ Handle(c) \/ EndSession(c)
    BY <1>11 DEF Sessions, Session
  <2>2. \E r \in Connections : ChangedTo(c, r)
    <3>1. CASE Read(c)
      BY <1>0, <3>1, ReadEffect
    <3>2. CASE EndSession(c)
      BY <1>0, <3>2, EndEffect
    <3>3. CASE Handle(c)
      BY <1>0, <3>3, HandleEffect DEF Accepted, Skipped, Refused
    <3>. QED BY <2>1, <3>1, <3>2, <3>3
  <2>3. first' = first
    BY <2>1 DEF Read, Handle, EndSession
  <2>. QED BY <1>0, <1>s, <2>2, <2>3, ChangeTypes
<1>12. CASE Terminated
  BY <1>12 DEF Terminated, ConnectionTypes
<1>. QED
  BY <1>1, <1>2, <1>3, <1>5, <1>6, <1>7, <1>8, <1>9, <1>10, <1>11, <1>12 DEF Next, Sender

(* Two parts of a sequence of cells.                                       *)
Joins(a, b, w) == a \in Seq(Nat) /\ b \in Seq(Nat) /\ w = a \o b

(* What the phone has pending are the messages after the f-th, and behind  *)
(* the damage what there is of later ones.                                 *)
LEMMA PendingIs ==
  ASSUME PhoneTypes, NEW f, NEW g, Holds(f, g), NEW rest, NEW extra, Spooled(g, rest, extra)
  PROVE  Joins(FlattenSeq(Messages(f, Whole)), rest, Pending)
<1>1. PICK w \in Nat : w = Whole /\ w <= Len(Script)
  BY WholeType
<1>2. /\ f \in Nat /\ g \in Nat /\ f <= g /\ g <= w /\ g <= Len(Script)
      /\ memory_queue_ = Messages(f, g)
  BY <1>1, HoldsOut
<1>3. PICK s, t : s = Messages(f, g) /\ t = Messages(g, w)
  OBVIOUS
<1>4. s \in Seq(Seq(Nat))
  BY <1>2, <1>3, MessagesType
<1>5. t \in Seq(Seq(Nat))
  BY <1>1, <1>2, <1>3, MessagesType
<1>6. PICK x, y : x = FlattenSeq(s) /\ y = FlattenSeq(t)
  OBVIOUS
<1>7. x \in Seq(Nat) /\ y \in Seq(Nat)
  BY <1>4, <1>5, <1>6, FlattenType
<1>8. rest \in Seq(Nat) /\ Pending = x \o (y \o rest)
  BY <1>1, <1>2, <1>3, <1>6 DEF Pending, Spooled
<1>9. (x \o y) \o rest = x \o (y \o rest)
  BY <1>7, <1>8, CellsAssociative
<1>10. FlattenSeq(Messages(f, w)) = x \o y
  <2>1. FlattenSeq(s \o t) = x \o y
    BY <1>4, <1>5, <1>6, FlattenConcat
  <2>2. s \o t = Messages(f, w)
    BY <1>1, <1>2, <1>3, MessagesMeet
  <2>. QED BY <2>1, <2>2
<1>11. x \o y \in Seq(Nat)
  BY <1>7, ConcatProperties
<1>. QED BY <1>1, <1>8, <1>9, <1>10, <1>11 DEF Joins

-----------------------------------------------------------------------------
IInv == QueueInv /\ ConnectionTypes

(* The invariant holds at the start ...                                    *)
LEMMA InitIInv == Init => IInv
<1>. SUFFICES ASSUME Init PROVE IInv
  OBVIOUS
<1>. USE DEF Init, SpoolFileInit
<1>1. PhoneTypes
  <2>1. 0 \in 0 .. Len(Script) /\ 0 \in 0 .. MaxBreaks /\ 0 \in 0 .. 0
    BY ScriptLength, ConnectionBounds
  <2>2. written = 0 /\ damage = 0 /\ breaks = 0 /\ sent = 0
    OBVIOUS
  <2>3. /\ config_cached \in BOOLEAN /\ running_ \in BOOLEAN /\ config_sent \in BOOLEAN
        /\ sender \in {"off", "on", "done"}
    OBVIOUS
  <2>. QED BY ONLY <2>1, <2>2, <2>3 DEF PhoneTypes
<1>2. SpoolCounts
  BY EmptySeq DEF SpoolCounts
<1>3. MemoryCounts
  BY EmptySeq, FlattenEmpty DEF MemoryCounts
<1>4. Holds(0, 0) /\ Whole = 0
  <2>1. Messages(0, 0) = <<>>
    BY NoMessages
  <2>2. FlattenSeq(Messages(0, 0)) = <<>> /\ Len(<<>>) = 0 /\ <<>> \o <<>> = <<>>
    BY <2>1, FlattenEmpty, EmptySeq, ConcatEmptySeq
  <2>3. Whole = 0
    BY DEF Whole
  <2>4. Spooled(0, <<>>, 0)
    <3>1. /\ damage = 0 /\ unread = <<>> /\ spool_write_pos_ - spool_read_pos_ = 0 + 0
          /\ ~spool_write_file_ /\ ~(0 < 0)
      OBVIOUS
    <3>. QED BY ONLY <2>1, <2>2, <2>3, <3>1, EmptySeq DEF Spooled
  <2>5. memory_queue_ = <<>> /\ 0 \in 0 .. 0
    OBVIOUS
  <2>. QED BY ONLY <2>1, <2>3, <2>4, <2>5 DEF Holds
<1>5. InOrder
  <2>1. 0 \in 0 .. Whole /\ sent = 0 /\ ~at_eof
    BY <1>4
  <2>. QED BY ONLY <1>4, <2>1 DEF InOrder
<1>7. MemoryWhole
  BY EmptySeq DEF MemoryWhole
<1>6. ConnectionTypes
  BY EmptySeq DEF ConnectionTypes
<1>. QED BY <1>1, <1>2, <1>3, <1>5, <1>6, <1>7 DEF IInv, QueueInv

(* ... and every step keeps it.                                            *)
LEMMA IInvStep == IInv /\ [Next]_vars => IInv'
BY PhoneTypesStep, SpoolCountsStep, MemoryCountsStep, MemoryWholeStep, InOrderStep,
   ConnectionTypesStep
DEF IInv, QueueInv

LEMMA IInvAlways == Spec => []IInv
BY InitIInv, IInvStep, PTL DEF Spec

(* Phone and sessions keep their types: in particular the spool has a file *)
(* exactly while its positions differ, and overflow mode has both files    *)
(* unless the disk refused one, through every failed send, short write,    *)
(* refused and reopened file.                                              *)
THEOREM EndToEndTypeCorrect == Spec => []TypeOK
<1>1. IInv => TypeOK
  <2>. SUFFICES ASSUME IInv PROVE TypeOK
    OBVIOUS
  <2>1. PhoneTypes /\ SpoolCounts /\ MemoryCounts /\ InOrder /\ ConnectionTypes
    BY DEF IInv, QueueInv
  <2>2. memory_queue_ \in Seq(Seq(Nat)) /\ memory_bytes_ \in Nat
    BY <2>1, FlattenType, LenIsNat DEF MemoryCounts
  <2>3. at_eof => damage # 0
    BY <2>1 DEF InOrder
  <2>4. spool_write_file_ = (spool_read_pos_ < spool_write_pos_)
    <3>1. CASE spool_write_file_
      BY <2>1, <3>1 DEF SpoolCounts
    <3>2. CASE ~spool_write_file_
      <4>1. ~(spool_read_pos_ < spool_write_pos_)
        BY <2>1, <3>2 DEF SpoolCounts
      <4>. QED BY <2>1, <3>2, <4>1 DEF SpoolCounts
    <3>. QED BY <3>1, <3>2
  <2>5. ASSUME NEW c \in DOMAIN connections
        PROVE  /\ connections[c].flight \in Seq(Nat) /\ connections[c].buffer \in Seq(Nat)
               /\ \A k \in DOMAIN connections[c].recorded :
                     connections[c].recorded[k].type \in Known
    <3>1. connections \in Seq(Connections) /\ c \in 1 .. Len(connections)
      BY <2>1, LenProperties DEF ConnectionTypes
    <3>2. connections[c] \in Connections
      BY <3>1, ElementOfSeq
    <3>3. PICK t : t = connections[c].recorded
      OBVIOUS
    <3>4. t \in Seq(Records)
      BY <3>2, <3>3 DEF Connections
    <3>5. ASSUME NEW k \in DOMAIN t PROVE t[k].type \in Known
      <4>1. t[k] \in Records
        BY <3>4, LenProperties, ElementOfSeq
      <4>. QED BY <4>1 DEF Records
    <3>. QED BY <3>2, <3>3, <3>5 DEF Connections
  <2>6. first \in Seq(Nat) /\ Len(first) = Len(connections)
    BY <2>1 DEF ConnectionTypes
  <2>. QED BY <2>1, <2>2, <2>3, <2>4, <2>5, <2>6 DEF TypeOK, PhoneTypes, SpoolCounts
<1>. QED BY <1>1, IInvAlways, PTL

(* Memory and spool hold the rest of what the sink has kept, message by    *)
(* message and cell by cell, and the byte counter and the file positions   *)
(* agree with it, whatever is sent, put back, spilled, dropped or read     *)
(* back.                                                                   *)
THEOREM QueueStaysInOrder == Spec => []QueueIsTheRest
<1>1. IInv => QueueIsTheRest
  <2>. SUFFICES ASSUME IInv PROVE QueueIsTheRest
    OBVIOUS
  <2>1. PhoneTypes /\ SpoolCounts /\ MemoryCounts /\ InOrder
    BY DEF IInv, QueueInv
  <2>2. PICK w \in Nat : /\ w = Whole /\ w <= Len(Script)
                         /\ (damage = 0 => w = written) /\ (damage # 0 => w = damage - 1)
    BY <2>1, WholeType
  <2>3. ASSUME NEW f, NEW g, Holds(f, g), NEW rest, NEW extra, Spooled(g, rest, extra)
        PROVE  /\ f \in Nat /\ g \in Nat /\ f <= w /\ g <= w
               /\ Cells(f, w) \in Seq(Nat) /\ rest \in Seq(Nat)
               /\ Pending = Cells(f, w) \o rest
    <3>1. Cells(f, w) = FlattenSeq(Messages(f, w))
      BY DEF Cells, Messages
    <3>2. Joins(Cells(f, w), rest, Pending)
      BY <2>1, <2>2, <2>3, <3>1, PendingIs
    <3>3. f \in Nat /\ g \in Nat /\ f <= w /\ g <= w
      BY <2>1, <2>2, <2>3, HoldsOut
    <3>. QED BY <3>2, <3>3 DEF Joins
  <2>4. ASSUME damage = 0
        PROVE  /\ sent <= written /\ Pending = Cells(sent, written)
               /\ spool_write_pos_ - spool_read_pos_ = Len(unread)
               /\ spool_write_file_ = (unread # <<>>)
    <3>1. PICK f, g : f = sent /\ Holds(f, g)
      BY <2>1, <2>4 DEF InOrder
    <3>2. PICK rest, extra : Spooled(g, rest, extra)
      BY <3>1 DEF Holds
    <3>3. /\ f \in Nat /\ g \in Nat /\ f <= w /\ g <= w /\ w = written
          /\ Cells(f, w) \in Seq(Nat) /\ Pending = Cells(f, w) \o rest
      BY <2>2, <2>3, <2>4, <3>1, <3>2
    <3>4. rest = <<>> /\ extra = 0
      BY <2>4, <3>2 DEF Spooled
    <3>5. Pending = Cells(f, w)
      BY <3>3, <3>4, ConcatEmptySeq
    <3>6. PICK x : x = FlattenSeq(Messages(g, w))
      OBVIOUS
    <3>7. x \in Seq(Nat) /\ Len(x) \in Nat /\ (g < w <=> x # <<>>)
      BY <2>2, <3>3, <3>6, CellsAreSome
    <3>8. unread = x
      <4>1. unread = x \o <<>>
        BY <2>2, <3>2, <3>4, <3>6 DEF Spooled
      <4>. QED BY <3>7, <4>1, ConcatEmptySeq
    <3>9. spool_write_pos_ - spool_read_pos_ = Len(unread)
      <4>1. spool_write_pos_ - spool_read_pos_ = Len(x) + 0
        BY <2>2, <3>2, <3>4, <3>6 DEF Spooled
      <4>. QED BY <3>7, <3>8, <4>1
    <3>10. spool_write_file_ <=> unread # <<>>
      BY <2>2, <2>4, <3>2, <3>7, <3>8 DEF Spooled
    <3>11. spool_write_file_ = (unread # <<>>)
      <4>1. CASE spool_write_file_
        BY <2>1, <3>10, <4>1 DEF SpoolCounts
      <4>2. CASE ~spool_write_file_
        BY <2>1, <3>10, <4>2 DEF SpoolCounts
      <4>. QED BY <4>1, <4>2
    <3>. QED BY <3>1, <3>3, <3>5, <3>9, <3>11
  <2>5. ASSUME damage # 0, sent < damage - 1
        PROVE  IsPrefix(Cells(sent, damage - 1), Pending)
    <3>1. sent \in Nat /\ damage \in Nat
      BY <2>1, ScriptLength DEF PhoneTypes
    <3>2. PICK f, g : f = sent /\ Holds(f, g)
      BY <2>1, <2>5, <3>1 DEF InOrder
    <3>3. PICK rest, extra : Spooled(g, rest, extra)
      BY <3>2 DEF Holds
    <3>4. PICK c : c = Cells(f, w)
      OBVIOUS
    <3>5. c \in Seq(Nat) /\ rest \in Seq(Nat) /\ Pending = c \o rest
      BY <2>3, <3>2, <3>3, <3>4
    <3>6. Len(c) <= Len(Pending) /\ SubSeq(Pending, 1, Len(c)) = c
      <4>1. Len(c \o rest) = Len(c) + Len(rest) /\ Len(c) \in Nat /\ Len(rest) \in Nat
        BY <3>5, ConcatProperties, LenIsNat
      <4>. QED BY <3>5, <4>1, CutAtSeam
    <3>7. SubSeq(c, 1, Len(c)) = c
      BY <3>5, SubSeqFull
    <3>. QED BY <2>2, <2>5, <3>2, <3>4, <3>6, <3>7 DEF IsPrefix
  <2>. QED BY <2>1, <2>4, <2>5 DEF QueueIsTheRest, MemoryCounts
<1>. QED BY <1>1, IInvAlways, PTL

-----------------------------------------------------------------------------
(* What is under way on a connection.                                      *)

(* Two ways to part the same cells.                                        *)
LEMMA SameCells ==
  ASSUME NEW p, NEW r, NEW u, NEW v, NEW w, Joins(p, r, w), Joins(u, v, w), Len(u) <= Len(p)
  PROVE  \E z : Joins(u, z, p) /\ Joins(z, r, v)
<1>0. /\ p \in Seq(Nat) /\ r \in Seq(Nat) /\ u \in Seq(Nat) /\ v \in Seq(Nat)
      /\ w = p \o r /\ w = u \o v
  BY DEF Joins
<1>1. PICK i, j : i = Len(u) /\ j = Len(p)
  OBVIOUS
<1>2. i \in Nat /\ j \in Nat /\ i <= j /\ Len(r) \in Nat /\ Len(v) \in Nat
  BY <1>0, <1>1, LenIsNat
<1>3. PICK z : z = SubSeq(p, i + 1, j)
  OBVIOUS
<1>4. z \in Seq(Nat) /\ Len(z) = j - i /\ \A k \in 1 .. j - i : z[k] = p[i + k]
  <2>1. \A k \in i + 1 .. j : p[k] \in Nat
    BY <1>0, <1>1, <1>2, ElementOfSeq
  <2>2. i + 1 \in Nat /\ (i + 1 <= j + 1)
    BY <1>2
  <2>3. PICK h \in Nat : h = i + 1
    BY <1>2
  <2>4. z = SubSeq(p, h, j) /\ \A k \in h .. j : p[k] \in Nat
    BY <1>3, <2>1, <2>3
  <2>5. z \in Seq(Nat)
    BY <1>0, <1>2, <2>3, <2>4, SubSeqProperties
  <2>6. Len(z) = IF h <= j THEN j - h + 1 ELSE 0
    BY <1>0, <1>2, <2>3, <2>4, SubSeqProperties
  <2>7. \A k \in 1 .. j - h + 1 : z[k] = p[h + k - 1]
    BY <1>0, <1>2, <2>3, <2>4, SubSeqProperties
  <2>8. Len(z) = j - i
    BY <1>2, <2>3, <2>6
  <2>9. ASSUME NEW k \in 1 .. j - i PROVE z[k] = p[i + k]
    <3>1. k \in 1 .. j - h + 1 /\ h + k - 1 = i + k
      BY <1>2, <2>3
    <3>. QED BY <2>7, <3>1
  <2>. QED BY <2>5, <2>8, <2>9
<1>6. /\ w \in Seq(Nat) /\ Len(w) = j + Len(r) /\ Len(w) = i + Len(v)
      /\ \A k \in 1 .. j + Len(r) : w[k] = IF k <= j THEN p[k] ELSE r[k - j]
      /\ \A k \in 1 .. i + Len(v) : w[k] = IF k <= i THEN u[k] ELSE v[k - i]
  <2>1. /\ w \in Seq(Nat) /\ Len(w) = j + Len(r)
        /\ \A k \in 1 .. j + Len(r) : w[k] = IF k <= j THEN p[k] ELSE r[k - j]
    <3>1. /\ p \o r \in Seq(Nat) /\ Len(p \o r) = Len(p) + Len(r)
          /\ \A k \in 1 .. Len(p) + Len(r) :
                (p \o r)[k] = IF k <= Len(p) THEN p[k] ELSE r[k - Len(p)]
      BY <1>0, ConcatProperties
    <3>. QED BY <1>0, <1>1, <3>1
  <2>2. /\ Len(w) = i + Len(v)
        /\ \A k \in 1 .. i + Len(v) : w[k] = IF k <= i THEN u[k] ELSE v[k - i]
    BY <1>0, <1>1, ConcatProperties
  <2>. QED BY <2>1, <2>2
<1>7. p = u \o z
  <2>1. /\ u \o z \in Seq(Nat) /\ Len(u \o z) = j
        /\ \A k \in 1 .. j : (u \o z)[k] = IF k <= i THEN u[k] ELSE z[k - i]
    <3>1. /\ u \o z \in Seq(Nat) /\ Len(u \o z) = Len(u) + Len(z)
          /\ \A k \in 1 .. Len(u) + Len(z) :
                (u \o z)[k] = IF k <= Len(u) THEN u[k] ELSE z[k - Len(u)]
      BY <1>0, <1>4, ConcatProperties
    <3>2. Len(u) + Len(z) = j
      BY <1>1, <1>2, <1>4
    <3>. QED BY <1>1, <3>1, <3>2
  <2>2. ASSUME NEW k \in 1 .. j PROVE p[k] = (u \o z)[k]
    <3>1. CASE k <= i
      <4>1. k \in 1 .. j + Len(r) /\ k \in 1 .. i + Len(v) /\ k <= j
        BY <1>2, <3>1
      <4>2. w[k] = p[k]
        BY <1>6, <4>1
      <4>3. w[k] = u[k]
        BY <1>6, <3>1, <4>1
      <4>. QED BY <2>1, <3>1, <4>2, <4>3
    <3>2. CASE ~(k <= i)
      <4>1. PICK h \in 1 .. j - i : h = k - i
        BY <1>2, <3>2
      <4>2. i + h = k
        BY <1>2, <4>1
      <4>3. z[h] = p[i + h]
        BY <1>4, <4>1
      <4>. QED BY <2>1, <3>2, <4>1, <4>2, <4>3
    <3>. QED BY <3>1, <3>2
  <2>. QED BY <1>0, <1>1, <2>1, <2>2, SeqEqual
<1>8. v = z \o r
  <2>1. /\ z \o r \in Seq(Nat) /\ Len(z \o r) = Len(v)
        /\ \A k \in 1 .. Len(v) : (z \o r)[k] = IF k <= j - i THEN z[k] ELSE r[k - (j - i)]
    <3>1. /\ z \o r \in Seq(Nat) /\ Len(z \o r) = Len(z) + Len(r)
          /\ \A k \in 1 .. Len(z) + Len(r) :
                (z \o r)[k] = IF k <= Len(z) THEN z[k] ELSE r[k - Len(z)]
      BY <1>0, <1>4, ConcatProperties
    <3>2. Len(z) + Len(r) = Len(v)
      <4>1. j + Len(r) = i + Len(v)
        BY <1>6
      <4>2. Len(z) = j - i
        BY <1>4
      <4>. QED BY ONLY <1>2, <4>1, <4>2
    <3>. QED BY <1>4, <3>1, <3>2
  <2>2. ASSUME NEW k \in 1 .. Len(v) PROVE v[k] = (z \o r)[k]
    <3>1. PICK h \in 1 .. i + Len(v) : h = i + k
      BY <1>2
    <3>2. ~(h <= i) /\ h - i = k /\ h \in 1 .. j + Len(r)
      BY <1>2, <1>6, <3>1
    <3>3. w[h] = v[k]
      BY <1>6, <3>2
    <3>4. CASE k <= j - i
      <4>1. h <= j /\ k \in 1 .. j - i
        BY <1>2, <3>1, <3>4
      <4>2. w[h] = p[h]
        BY <1>6, <3>2, <4>1
      <4>3. z[k] = p[h]
        BY <1>4, <3>1, <4>1
      <4>. QED BY <2>1, <3>3, <3>4, <4>2, <4>3
    <3>5. CASE ~(k <= j - i)
      <4>1. ~(h <= j) /\ h - j = k - (j - i)
        BY <1>2, <3>1, <3>5
      <4>2. w[h] = r[k - (j - i)]
        BY <1>6, <3>2, <4>1
      <4>. QED BY <2>1, <3>3, <3>5, <4>2
    <3>. QED BY <3>4, <3>5
  <2>. QED BY <1>0, <2>1, <2>2, SeqEqual
<1>. QED BY <1>0, <1>4, <1>7, <1>8 DEF Joins

(* Whole messages flatten to cells.                                        *)
LEMMA WholesFlatten ==
  ASSUME NEW s \in Seq(Wholes)
  PROVE  FlattenSeq(s) \in Seq(Nat)
<1>1. PICK Q : Q = Seq(Nat)
  OBVIOUS
<1>2. s \in Seq(Q)
  BY <1>1, WholesAreSeqs
<1>. QED BY <1>1, <1>2, FlattenType

LEMMA WholeHas ==
  ASSUME NEW b \in Seq(Nat)
  PROVE  HasMessage(b) <=> Len(b) >= 3 /\ Len(b) >= 3 + b[1]
BY DEF HasMessage, HasHeader, HeaderSize, Total

LEMMA NothingTorn == Torn(<<>>)
<1>1. PICK z : z = <<>>
  OBVIOUS
<1>2. z \in Seq(Nat) /\ Len(z) = 0
  BY <1>1, EmptySeq
<1>3. ~HasMessage(z)
  BY <1>2 DEF HasMessage, HasHeader, HeaderSize
<1>. QED BY <1>1, <1>2, <1>3 DEF Torn

(* Two parts joined: the length is the sum, the first cell is the first    *)
(* part's.                                                                 *)
LEMMA StartsAlike ==
  ASSUME NEW z \in Seq(Nat), NEW r \in Seq(Nat), NEW w, w = z \o r
  PROVE  /\ w \in Seq(Nat) /\ Len(w) = Len(z) + Len(r) /\ Len(z) \in Nat /\ Len(r) \in Nat
         /\ Len(z) >= 3 => z[1] = w[1] /\ z[1] \in Nat
<1>1. w \in Seq(Nat) /\ Len(w) = Len(z) + Len(r) /\ Len(z) \in Nat /\ Len(r) \in Nat
  BY ConcatProperties, LenIsNat
<1>2. \A i \in 1 .. Len(z) : (z \o r)[i] = z[i]
  BY ConcatPrefix
<1>3. ASSUME Len(z) >= 3 PROVE z[1] = w[1] /\ z[1] \in Nat
  <2>1. 1 \in 1 .. Len(z)
    BY <1>1, <1>3
  <2>2. z[1] \in Nat
    BY <2>1, ElementOfSeq
  <2>. QED BY <1>2, <2>1, <2>2
<1>. QED BY <1>1, <1>3

(* A part of a message is less than a message, and so is a part of less.   *)
LEMMA PartIsTorn ==
  ASSUME NEW m \in Wholes, NEW z \in Seq(Nat), NEW r \in Seq(Nat), m = z \o r, r # <<>>
  PROVE  Torn(z)
<1>1. /\ m \in Seq(Nat) /\ Len(m) = Len(z) + Len(r) /\ Len(z) \in Nat /\ Len(r) \in Nat
      /\ Len(z) >= 3 => z[1] = m[1] /\ z[1] \in Nat
  BY StartsAlike DEF Wholes
<1>2. Len(r) > 0
  BY <1>1, EmptySeq, LenProperties
<1>3. m[1] = Len(m) - 3
  BY DEF Wholes
<1>4. ASSUME Len(z) >= 3, Len(z) >= 3 + z[1] PROVE FALSE
  BY <1>1, <1>2, <1>3, <1>4
<1>. QED BY <1>4, WholeHas DEF Torn

(* A proper part of a whole message is torn.                               *)
LEMMA TornPart ==
  ASSUME NEW t, Torn(t), NEW z \in Seq(Nat), NEW r \in Seq(Nat), t = z \o r
  PROVE  Torn(z)
<1>1. /\ t \in Seq(Nat) /\ Len(t) = Len(z) + Len(r) /\ Len(z) \in Nat /\ Len(r) \in Nat
      /\ Len(z) >= 3 => z[1] = t[1] /\ z[1] \in Nat
  BY StartsAlike DEF Torn
<1>2. ~(Len(t) >= 3 /\ Len(t) >= 3 + t[1])
  BY <1>1, WholeHas DEF Torn
<1>3. ASSUME Len(z) >= 3, Len(z) >= 3 + z[1] PROVE FALSE
  BY <1>1, <1>2, <1>3
<1>. QED BY <1>3, WholeHas DEF Torn

(* The first k messages of some.                                           *)
Some(s, k) == SubSeq(s, 1, k)

LEMMA SomeType ==
  ASSUME NEW S, NEW s \in Seq(S), NEW k \in 0 .. Len(s)
  PROVE  /\ Some(s, k) \in Seq(S) /\ Len(Some(s, k)) = k
         /\ \A i \in 1 .. k : Some(s, k)[i] = s[i]
<1>1. Len(s) \in Nat
  BY LenProperties
<1>2. k \in Nat /\ \A i \in 1 .. k : s[i] \in S
  BY <1>1, ElementOfSeq
<1>. QED BY <1>2, SubSeqProperties DEF Some

(* Cells cut off from those of some messages are the cells of the first of *)
(* them and less than a message.                                           *)
CutIn(s) ==
    \A p, r \in Seq(Nat) :
        p \o r = FlattenSeq(s) =>
            \E k \in 0 .. Len(s), e \in Seq(Nat) : Torn(e) /\ p = FlattenSeq(Some(s, k)) \o e

(* A cut of no messages leaves none ...                                    *)
LEMMA CutInNone == CutIn(<<>>)
<1>. SUFFICES ASSUME NEW p \in Seq(Nat), NEW r \in Seq(Nat), p \o r = FlattenSeq(<<>>)
              PROVE  \E k \in 0 .. Len(<<>>), e \in Seq(Nat) :
                        Torn(e) /\ p = FlattenSeq(Some(<<>>, k)) \o e
  BY DEF CutIn
<1>1. p \o r = <<>>
  BY FlattenEmpty
<1>2. p = <<>>
  <2>1. Len(p \o r) = Len(p) + Len(r) /\ Len(p) \in Nat /\ Len(r) \in Nat
    BY ConcatProperties, LenIsNat
  <2>2. Len(p \o r) = 0
    BY <1>1, EmptySeq
  <2>3. Len(p) = 0
    BY <2>1, <2>2
  <2>. QED BY <2>3, EmptySeq
<1>3. Some(<<>>, 0) = <<>>
  <2>1. <<>> \in Seq(Nat) /\ Len(<<>>) = 0 /\ 0 \in 0 .. 0
    BY EmptySeq
  <2>2. Some(<<>>, 0) \in Seq(Nat) /\ Len(Some(<<>>, 0)) = 0
    BY <2>1, SomeType
  <2>. QED BY <2>2, EmptySeq
<1>4. FlattenSeq(Some(<<>>, 0)) \o p = p
  <2>1. FlattenSeq(Some(<<>>, 0)) = <<>>
    BY <1>3, FlattenEmpty
  <2>. QED BY <2>1, ConcatEmptySeq
<1>5. Torn(p)
  BY <1>2, NothingTorn
<1>6. 0 \in 0 .. Len(<<>>)
  BY EmptySeq
<1>. QED BY <1>4, <1>5, <1>6

(* ... if a cut of some leaves whole ones and a torn one, so with one more,*)
LEMMA CutInMore ==
  ASSUME NEW s \in Seq(Wholes), NEW m \in Wholes, CutIn(s)
  PROVE  CutIn(Append(s, m))
<1>. SUFFICES ASSUME NEW p \in Seq(Nat), NEW r \in Seq(Nat), p \o r = FlattenSeq(Append(s, m))
              PROVE  \E k \in 0 .. Len(Append(s, m)), e \in Seq(Nat) :
                        Torn(e) /\ p = FlattenSeq(Some(Append(s, m), k)) \o e
  BY DEF CutIn
<1>1. PICK w, x, n : w = Append(s, m) /\ x = FlattenSeq(s) /\ n = Len(s)
  OBVIOUS
<1>2. /\ m \in Seq(Nat) /\ x \in Seq(Nat) /\ n \in Nat
      /\ w \in Seq(Wholes) /\ Len(w) = n + 1
  BY <1>1, WholesFlatten, AppendProperties, LenProperties DEF Wholes
<1>3. p \o r = x \o m
  <2>1. PICK Q : Q = Seq(Nat)
    OBVIOUS
  <2>2. s \in Seq(Q) /\ m \in Q
    BY <1>2, <2>1, WholesAreSeqs
  <2>3. FlattenSeq(Append(s, m)) = FlattenSeq(s) \o m
    BY <2>1, <2>2, FlattenAppend
  <2>. QED BY <1>1, <2>3
<1>3A. PICK y : Joins(p, r, y) /\ Joins(x, m, y)
  BY <1>2, <1>3 DEF Joins
<1>4. \A k \in 0 .. n : k \in 0 .. n + 1 /\ Some(w, k) = Some(s, k)
  <2>1. ASSUME NEW k \in 0 .. n PROVE Some(w, k) = Some(s, k)
    <3>1. k \in 0 .. Len(s) /\ k \in 0 .. Len(w) /\ k \in Nat
      BY <1>1, <1>2
    <3>2. Some(w, k) \in Seq(Wholes) /\ Len(Some(w, k)) = k /\ \A i \in 1 .. k : Some(w, k)[i] = w[i]
      BY <1>2, <3>1, SomeType
    <3>3. Some(s, k) \in Seq(Wholes) /\ Len(Some(s, k)) = k /\ \A i \in 1 .. k : Some(s, k)[i] = s[i]
      BY <3>1, SomeType
    <3>4. \A i \in 1 .. Len(s) : w[i] = s[i]
      BY <1>1, AppendProperties
    <3>5. \A i \in 1 .. k : w[i] = s[i]
      BY <1>1, <1>2, <3>1, <3>4
    <3>. QED BY <3>2, <3>3, <3>5, SeqEqual
  <2>. QED BY <1>2, <2>1
<1>5. CASE Len(p) <= Len(x)
  <2>1. PICK z : Joins(p, z, x) /\ Joins(z, m, r)
    BY <1>3A, <1>5, SameCells
  <2>2. z \in Seq(Nat) /\ x = p \o z
    BY <2>1 DEF Joins
  <2>3. PICK k \in 0 .. n, e \in Seq(Nat) : Torn(e) /\ p = FlattenSeq(Some(s, k)) \o e
    BY <1>1, <2>2 DEF CutIn
  <2>. QED BY <1>1, <1>2, <1>4, <2>3
<1>6. CASE ~(Len(p) <= Len(x))
  <2>1. Len(x) <= Len(p)
    BY <1>2, <1>6, LenIsNat
  <2>1A. PICK z : Joins(x, z, p) /\ Joins(z, r, m)
    BY <1>3A, <2>1, SameCells
  <2>2. z \in Seq(Nat) /\ p = x \o z /\ m = z \o r
    BY <2>1A DEF Joins
  <2>3. Some(s, n) = s
    <3>1. n \in 0 .. Len(s)
      BY <1>1, <1>2
    <3>2. Some(s, n) \in Seq(Wholes) /\ Len(Some(s, n)) = n /\ \A i \in 1 .. n : Some(s, n)[i] = s[i]
      BY <3>1, SomeType
    <3>. QED BY <1>1, <3>2, SeqEqual
  <2>4. Some(w, n) = s /\ n \in 0 .. n + 1
    BY <1>2, <1>4, <2>3
  <2>5. Some(w, n + 1) = w
    <3>1. PICK k \in Nat : k = n + 1
      BY <1>2
    <3>2. k \in 0 .. Len(w)
      BY <1>2, <3>1
    <3>3. Some(w, k) \in Seq(Wholes) /\ Len(Some(w, k)) = k /\ \A i \in 1 .. k : Some(w, k)[i] = w[i]
      BY <1>2, <3>2, SomeType
    <3>. QED BY <1>2, <3>1, <3>3, SeqEqual
  <2>6. CASE r # <<>>
    <3>1. Torn(z)
      BY <2>2, <2>6, PartIsTorn
    <3>. QED BY <1>1, <1>2, <2>2, <2>4, <3>1
  <2>7. CASE r = <<>>
    <3>1. p = FlattenSeq(w)
      <4>1. p \o r = p
        BY <2>7, ConcatEmptySeq
      <4>. QED BY <1>1, <4>1
    <3>2. FlattenSeq(w) \o <<>> = FlattenSeq(w)
      BY <1>2, WholesFlatten, ConcatEmptySeq
    <3>3. n + 1 \in 0 .. n + 1 /\ <<>> \in Seq(Nat)
      BY <1>2, EmptySeq
    <3>. QED BY <1>1, <1>2, <2>5, <3>1, <3>2, <3>3, NothingTorn
  <2>. QED BY <2>6, <2>7
<1>. QED BY <1>5, <1>6

(* and so with any number.                                                 *)
LEMMA CutInAny ==
  ASSUME NEW s \in Seq(Wholes)
  PROVE  CutIn(s)
<1>. DEFINE T == {w \in Seq(Wholes) : CutIn(w)}
<1>1. <<>> \in T
  BY CutInNone, EmptySeq
<1>2. ASSUME NEW w \in T, NEW m \in Wholes PROVE Append(w, m) \in T
  BY CutInMore, AppendProperties
<1>3. Seq(Wholes) \subseteq T
  <2>. HIDE DEF T
  <2>. QED BY <1>1, <1>2, SeqSetInduction
<1>. QED BY <1>3

(* The same with less than a message at the end.                           *)
StartsWith(p, s, k, e) ==
    e \in Seq(Nat) /\ Torn(e) /\ p = FlattenSeq(Some(s, k)) \o e

(* What a cut leaves of what is under way: some whole messages, and less   *)
(* than one.                                                               *)
LEMMA FirstPart ==
  ASSUME NEW s \in Seq(Wholes), NEW t, Torn(t), NEW p, NEW r, NEW y,
         Joins(p, r, y), Joins(FlattenSeq(s), t, y)
  PROVE  \E k \in 0 .. Len(s) : \E e : StartsWith(p, s, k, e)
<1>1. PICK x : x = FlattenSeq(s)
  OBVIOUS
<1>2. /\ x \in Seq(Nat) /\ t \in Seq(Nat) /\ p \in Seq(Nat) /\ r \in Seq(Nat)
      /\ y = p \o r /\ y = x \o t
  BY <1>1 DEF Joins
<1>2A. Joins(p, r, y) /\ Joins(x, t, y)
  BY <1>1
<1>3. CASE Len(p) <= Len(x)
  <2>1. PICK z : Joins(p, z, x) /\ Joins(z, t, r)
    BY <1>2A, <1>3, SameCells
  <2>2. z \in Seq(Nat) /\ x = p \o z
    BY <2>1 DEF Joins
  <2>3. PICK k \in 0 .. Len(s), e \in Seq(Nat) : Torn(e) /\ p = FlattenSeq(Some(s, k)) \o e
    BY <1>1, <1>2, <2>2, CutInAny DEF CutIn
  <2>. QED BY <2>3 DEF StartsWith
<1>4. CASE ~(Len(p) <= Len(x))
  <2>1. Len(x) <= Len(p)
    BY <1>2, <1>4, LenIsNat
  <2>1A. PICK z : Joins(x, z, p) /\ Joins(z, r, t)
    BY <1>2A, <2>1, SameCells
  <2>2. z \in Seq(Nat) /\ p = x \o z /\ t = z \o r
    BY <2>1A DEF Joins
  <2>3. Torn(z)
    BY <1>2, <2>2, TornPart
  <2>4. PICK n : n = Len(s)
    OBVIOUS
  <2>5. n \in 0 .. n /\ Some(s, n) = s
    <3>1. n \in 0 .. Len(s)
      BY <2>4, LenProperties
    <3>2. Some(s, n) \in Seq(Wholes) /\ Len(Some(s, n)) = n /\ \A i \in 1 .. n : Some(s, n)[i] = s[i]
      BY <3>1, SomeType
    <3>. QED BY <2>4, <3>1, <3>2, SeqEqual
  <2>6. StartsWith(p, s, n, z)
    BY <1>1, <2>2, <2>3, <2>5 DEF StartsWith
  <2>. QED BY <2>4, <2>5, <2>6
<1>. QED BY <1>3, <1>4

(* Some messages, the first taken apart.                                   *)
LEMMA WholesCons ==
  ASSUME NEW s \in Seq(Wholes), s # <<>>
  PROVE  /\ Head(s) \in Wholes /\ Tail(s) \in Seq(Wholes)
         /\ FlattenSeq(s) = Head(s) \o FlattenSeq(Tail(s))
<1>1. Head(s) \in Wholes /\ Tail(s) \in Seq(Wholes)
  BY HeadTailProperties
<1>2. PICK Q : Q = Seq(Nat)
  OBVIOUS
<1>3. s \in Seq(Q)
  BY <1>2, WholesAreSeqs
<1>4. FlattenSeq(s) = Head(s) \o FlattenSeq(Tail(s))
  BY <1>2, <1>3, FlattenCons
<1>. QED BY <1>1, <1>4

(* A message that the buffer has is the first of those that are to come,   *)
(* whatever comes behind them.                                             *)
LEMMA HeadThere ==
  ASSUME NEW s \in Seq(Wholes), s # <<>>, NEW t \in Seq(Nat), NEW b, NEW a,
         Joins(b, a, FlattenSeq(s) \o t), HasMessage(b)
  PROVE  \E y : Joins(Head(s), y, b) /\ Joins(y, a, FlattenSeq(Tail(s)) \o t)
<1>1. PICK w : w = FlattenSeq(s) \o t
  OBVIOUS
<1>2. b \in Seq(Nat) /\ a \in Seq(Nat) /\ w = b \o a
  BY <1>1 DEF Joins
<1>4. PICK m, x, z : m = Head(s) /\ x = FlattenSeq(Tail(s)) /\ z = x \o t
  OBVIOUS
<1>5. m \in Wholes /\ x \in Seq(Nat) /\ FlattenSeq(s) = m \o x
  BY <1>4, WholesCons, WholesFlatten
<1>6. m \in Seq(Nat) /\ Len(m) >= 3 /\ m[1] = Len(m) - 3
  BY <1>5 DEF Wholes
<1>7. z \in Seq(Nat) /\ w = m \o z
  <2>1. z \in Seq(Nat)
    BY <1>2, <1>4, <1>5, ConcatProperties
  <2>2. (m \o x) \o t = m \o (x \o t)
    BY <1>2, <1>5, <1>6, CellsAssociative
  <2>. QED BY <1>1, <1>4, <1>5, <2>1, <2>2
<1>8. Len(m) <= Len(b)
  <2>1. /\ Len(b) \in Nat /\ Len(b) >= 3 => b[1] = w[1] /\ b[1] \in Nat
    BY <1>2, StartsAlike
  <2>2. /\ Len(m) \in Nat /\ m[1] = w[1]
    BY <1>6, <1>7, StartsAlike
  <2>3. Len(b) >= 3 /\ Len(b) >= 3 + b[1]
    BY <1>2, WholeHas
  <2>. QED BY <1>6, <2>1, <2>2, <2>3
<1>9. Joins(b, a, w) /\ Joins(m, z, w)
  BY <1>2, <1>6, <1>7 DEF Joins
<1>10. PICK y : Joins(m, y, b) /\ Joins(y, a, z)
  BY <1>8, <1>9, SameCells
<1>. QED BY <1>4, <1>10

(* A message that the buffer has is the first one under way.               *)
LEMMA HeadArrived ==
  ASSUME NEW s \in Seq(Wholes), NEW t, Torn(t), NEW b, NEW a,
         Joins(b, a, FlattenSeq(s) \o t), HasMessage(b)
  PROVE  s # <<>> /\ \E y : Joins(Head(s), y, b) /\ Joins(y, a, FlattenSeq(Tail(s)) \o t)
<1>1. t \in Seq(Nat)
  BY DEF Torn
<1>2. s # <<>>
  <2>. SUFFICES ASSUME s = <<>> PROVE FALSE
    OBVIOUS
  <2>1. FlattenSeq(s) \o t = t
    BY <1>1, FlattenEmpty, ConcatEmptySeq
  <2>2. b \in Seq(Nat) /\ a \in Seq(Nat) /\ t = b \o a
    BY <2>1 DEF Joins
  <2>3. Torn(b)
    BY <2>2, TornPart
  <2>. QED BY <2>3 DEF Torn
<1>. QED BY <1>1, <1>2, HeadThere

(* What has arrived and is no message is nothing.                          *)
LEMMA NothingWaits ==
  ASSUME NEW s \in Seq(Wholes), NEW b, b = FlattenSeq(s), ~HasMessage(b)
  PROVE  s = <<>>
<1>. SUFFICES ASSUME s # <<>> PROVE FALSE
  OBVIOUS
<1>1. PICK m, x : m = Head(s) /\ x = FlattenSeq(Tail(s))
  OBVIOUS
<1>2. m \in Wholes /\ x \in Seq(Nat) /\ b = m \o x
  BY <1>1, WholesCons, WholesFlatten
<1>3. m \in Seq(Nat) /\ Len(m) >= 3 /\ m[1] = Len(m) - 3
  BY <1>2 DEF Wholes
<1>4. /\ b \in Seq(Nat) /\ Len(b) = Len(m) + Len(x) /\ Len(m) \in Nat /\ Len(x) \in Nat
      /\ m[1] = b[1]
  BY <1>2, <1>3, StartsAlike
<1>5. Len(b) >= 3 /\ Len(b) >= 3 + b[1]
  BY <1>3, <1>4
<1>. QED BY <1>4, <1>5, WholeHas

-----------------------------------------------------------------------------
(* What the server reads is what the phone wrote.                          *)

LEMMA OneCell ==
  ASSUME NEW a \in Nat, NEW q \in Seq(Nat), NEW p, p = <<a>> \o q
  PROVE  /\ p \in Seq(Nat) /\ Len(q) \in Nat /\ Len(p) = 1 + Len(q) /\ p[1] = a
         /\ SubSeq(p, 2, 1 + Len(q)) = q
<1>1. PICK h : h = <<a>>
  OBVIOUS
<1>2. h \in Seq(Nat) /\ Len(h) = 1 /\ h[1] = a
  BY <1>1
<1>3. p = h \o q /\ Len(q) \in Nat
  BY <1>1, LenIsNat
<1>4. p \in Seq(Nat) /\ Len(p) = 1 + Len(q)
  BY <1>2, <1>3, ConcatProperties
<1>5. p[1] = a
  BY <1>2, <1>3, ConcatPrefix
<1>6. SubSeq(p, Len(h) + 1, Len(p)) = q
  BY <1>2, <1>3, CutAtSeam
<1>. QED BY <1>2, <1>3, <1>4, <1>5, <1>6

LEMMA TwoCellsJoined ==
  ASSUME NEW a \in Nat, NEW b \in Nat
  PROVE  <<a>> \o <<b>> = <<a, b>>
<1>1. PICK h, q, p, z : h = <<a>> /\ q = <<b>> /\ p = h \o q /\ z = <<a, b>>
  OBVIOUS
<1>2. /\ h \in Seq(Nat) /\ Len(h) = 1 /\ h[1] = a
      /\ q \in Seq(Nat) /\ Len(q) = 1 /\ q[1] = b
      /\ z \in Seq(Nat) /\ Len(z) = 2 /\ z[1] = a /\ z[2] = b
  BY <1>1
<1>3. p \in Seq(Nat) /\ Len(p) = 2 /\ \A i \in 1 .. 2 : p[i] = IF i <= 1 THEN h[i] ELSE q[i - 1]
  <2>1. /\ h \o q \in Seq(Nat) /\ Len(h \o q) = Len(h) + Len(q)
        /\ \A i \in 1 .. Len(h) + Len(q) :
              (h \o q)[i] = IF i <= Len(h) THEN h[i] ELSE q[i - Len(h)]
    BY <1>2, ConcatProperties
  <2>. QED BY <1>1, <1>2, <2>1
<1>4. ASSUME NEW i \in 1 .. 2 PROVE p[i] = z[i]
  <2>1. CASE i = 1
    BY <1>2, <1>3, <2>1
  <2>2. CASE i = 2
    BY <1>2, <1>3, <2>2
  <2>. QED BY <2>1, <2>2
<1>5. p = z
  BY <1>2, <1>3, <1>4, SeqEqual
<1>. QED BY <1>1, <1>5

LEMMA TwoCells ==
  ASSUME NEW a \in Nat, NEW b \in Nat, NEW q \in Seq(Nat), NEW p, p = <<a, b>> \o q
  PROVE  /\ p \in Seq(Nat) /\ Len(q) \in Nat /\ Len(p) = 2 + Len(q) /\ p[1] = a /\ p[2] = b
         /\ SubSeq(p, 3, 2 + Len(q)) = q
<1>1. PICK h : h = <<a, b>>
  OBVIOUS
<1>2. h \in Seq(Nat) /\ Len(h) = 2 /\ h[1] = a /\ h[2] = b
  BY <1>1
<1>3. p = h \o q /\ Len(q) \in Nat
  BY <1>1, LenIsNat
<1>4. p \in Seq(Nat) /\ Len(p) = 2 + Len(q)
  BY <1>2, <1>3, ConcatProperties
<1>5. p[1] = a /\ p[2] = b
  BY <1>2, <1>3, ConcatPrefix
<1>6. SubSeq(p, Len(h) + 1, Len(p)) = q
  BY <1>2, <1>3, CutAtSeam
<1>. QED BY <1>2, <1>3, <1>4, <1>5, <1>6

(* A chunk is decoded to what was written,                                 *)
LEMMA VideoChunkReads ==
  ASSUME NEW a \in Nat, NEW k \in BOOLEAN, NEW q \in Seq(Nat),
         NEW p, p = <<a, IF k THEN 1 ELSE 0>> \o q
  PROVE  DecodeVideoChunk(p) = {[timestamp |-> a, is_keyframe |-> k, nal |-> q]}
<1>1. PICK b \in Nat : b = IF k THEN 1 ELSE 0
  OBVIOUS
<1>2. p = <<a, b>> \o q
  BY <1>1
<1>3. /\ p \in Seq(Nat) /\ Len(q) \in Nat /\ Len(p) = 2 + Len(q) /\ p[1] = a /\ p[2] = b
      /\ SubSeq(p, 3, 2 + Len(q)) = q
  BY <1>2, TwoCells
<1>4. Cut(p, 3) = q
  BY <1>3 DEF Cut
<1>5. (p[2] % 2 = 1) = k
  <2>1. CASE k
    <3>1. p[2] = 1 /\ 1 % 2 = 1
      BY <1>1, <1>3, <2>1
    <3>. QED BY <2>1, <3>1
  <2>2. CASE ~k
    <3>1. p[2] = 0 /\ 0 % 2 = 0
      BY <1>1, <1>3, <2>2
    <3>2. ~(p[2] % 2 = 1)
      BY <3>1
    <3>. QED BY <2>2, <3>2
  <2>. QED BY <2>1, <2>2
<1>6. ~(Len(p) < 2)
  BY <1>3
<1>. QED BY <1>3, <1>4, <1>5, <1>6, Zenon DEF DecodeVideoChunk, Unless

(* so is a batch,                                                          *)
LEMMA ImuBatchReads ==
  ASSUME NEW q \in Seq(Nat), Len(q) < U16Values, NEW p, p = Put16(Len(q)) \o q
  PROVE  DecodeImuBatch(p) = {[samples |-> q]}
<1>1. PICK n : n = Len(q)
  OBVIOUS
<1>2. n \in Nat /\ n % U16Values = n
  BY <1>1, LenIsNat, FieldKeeps, WidthAssumption
<1>3. p = <<n>> \o q
  BY <1>1, <1>2 DEF Put16
<1>4. Len(p) = 1 + n /\ p[1] = n /\ SubSeq(p, 2, 1 + n) = q
  BY <1>1, <1>2, <1>3, OneCell
<1>5. ~(Len(p) < 1 \/ Len(p) < 1 + p[1])
  BY <1>2, <1>4
<1>. QED BY <1>4, <1>5 DEF DecodeImuBatch, Unless

(* so is a point cloud,                                                    *)
LEMMA PointCloudReads ==
  ASSUME NEW a \in Nat, NEW q \in Seq(Nat), Len(q) < U32Values,
         NEW p, p = <<a>> \o Put32(Len(q)) \o q
  PROVE  DecodePointCloud(p) = {[timestamp |-> a, points |-> q]}
<1>1. PICK n : n = Len(q)
  OBVIOUS
<1>2. n \in Nat /\ n % U32Values = n
  BY <1>1, LenIsNat, FieldKeeps, WidthAssumption
<1>3. <<a>> \o <<n>> = <<a, n>>
  BY <1>2, TwoCellsJoined
<1>4. p = <<a, n>> \o q
  BY <1>1, <1>2, <1>3 DEF Put32
<1>5. Len(p) = 2 + n /\ p[1] = a /\ p[2] = n /\ SubSeq(p, 3, 2 + n) = q
  BY <1>1, <1>2, <1>4, TwoCells
<1>6. ~(Len(p) < 2 \/ Len(p) < 2 + p[2])
  BY <1>2, <1>5
<1>. QED BY <1>5, <1>6 DEF DecodePointCloud, Unless

(* so are intrinsics,                                                      *)
LEMMA IntrinsicsRead ==
  ASSUME NEW q \in Seq(Nat), Len(q) = IntrinsicsSize
  PROVE  DecodeCameraIntrinsics(q) = {[intrinsics |-> q]}
<1>1. SubSeq(q, 1, Len(q)) = q
  <2>1. <<>> \in Seq(Nat)
    BY EmptySeq
  <2>2. PICK z : z = <<>>
    OBVIOUS
  <2>3. z \in Seq(Nat) /\ q \o z = q
    BY <2>1, <2>2, ConcatEmptySeq
  <2>4. SubSeq(q \o z, 1, Len(q)) = q
    BY <2>3, CutAtSeam
  <2>. QED BY <2>3, <2>4
<1>2. ~(Len(q) < IntrinsicsSize)
  BY DEF IntrinsicsSize
<1>. QED BY <1>1, <1>2 DEF DecodeCameraIntrinsics, Unless

(* and so is the config.                                                   *)
LEMMA VideoConfigReads ==
  ASSUME NEW j \in Seq(Nat), NEW q \in Seq(Nat), Len(j) < U16Values,
         NEW p, p = Put16(Len(j)) \o j \o q
  PROVE  DecodeVideoConfig(p) = {[json |-> j, sps_pps |-> q]}
<1>1. PICK n, h : n = Len(j) /\ h = <<n>>
  OBVIOUS
<1>2. n \in Nat /\ n % U16Values = n
  BY <1>1, LenIsNat, FieldKeeps, WidthAssumption
<1>3. p = (h \o j) \o q /\ h \in Seq(Nat) /\ Len(h) = 1 /\ h[1] = n
  BY <1>1, <1>2 DEF Put16
<1>4. PICK g : g = h \o j
  OBVIOUS
<1>5. g \in Seq(Nat) /\ Len(g) = 1 + n /\ g[1] = n
  BY <1>1, <1>4, <1>2, OneCell
<1>6. p = g \o q /\ Len(p) = (1 + n) + Len(q) /\ Len(q) \in Nat
  BY <1>3, <1>4, <1>5, ConcatProperties, LenIsNat
<1>7. p[1] = n
  BY <1>2, <1>5, <1>6, ConcatPrefix
<1>8. SubSeq(p, 2, 1 + n) = j
  <2>1. SubSeq((h \o j) \o q, Len(h) + 1, Len(h) + Len(j)) = j
    BY <1>3, CutMiddle
  <2>. QED BY <1>1, <1>3, <2>1
<1>9. Cut(p, 2 + n) = q
  <2>0. p = g \o q /\ g \in Seq(Nat) /\ q \in Seq(Nat)
    BY <1>5, <1>6
  <2>1. SubSeq(p, Len(g) + 1, Len(p)) = q
    BY ONLY <2>0, CutAtSeam
  <2>2. Len(g) + 1 = 2 + n
    BY <1>2, <1>5
  <2>. QED BY <2>1, <2>2 DEF Cut
<1>10. ~(Len(p) < 1 \/ Len(p) < 1 + p[1])
  BY <1>2, <1>6, <1>7
<1>. QED BY <1>7, <1>8, <1>9, <1>10 DEF DecodeVideoConfig, Unless

(* At the head of a buffer, w is read as one message of type t and number s*)
(* that decodes to body, and what follows is left.                         *)
ReadsAs(w, t, s, body) ==
    \A y \in Seq(Nat) :
        LET m == NextMessage(w \o y) IN
        m.type = t /\ m.seq = s /\ Decode(m) = {body} /\ AfterMessage(w \o y) = y

(* A message at the head of a stream is read with its type, number and     *)
(* payload.                                                                *)
LEMMA WrapReads ==
  ASSUME NEW t \in Nat, NEW s \in Nat, s < U32Values, NEW p \in Seq(Nat),
         NEW w, w = Wrap(t, s, p), Len(w) < HeaderSize + U32Values,
         NEW body, NEW r, r = [type |-> t, seq |-> s, payload |-> p], Decode(r) = {body}
  PROVE  ReadsAs(w, t, s, body)
<1>1. Len(p) < U32Values
  <2>1. PICK h \in Seq(Nat) : Len(w) = 3 + Len(p)
    BY WrapShape
  <2>2. Len(p) \in Nat /\ U32Values \in Nat
    BY LenIsNat, WidthAssumption
  <2>. QED BY <2>1, <2>2 DEF HeaderSize
<1>2. s % U32Values = s
  BY FieldKeeps, WidthAssumption
<1>3. ASSUME NEW y \in Seq(Nat)
      PROVE  NextMessage(w \o y) = r /\ AfterMessage(w \o y) = y
  <2>1. /\ NextMessage(Wrap(t, s, p) \o y) = [type |-> t, seq |-> s % U32Values, payload |-> p]
        /\ AfterMessage(Wrap(t, s, p) \o y) = y
    BY <1>1, FramingRoundTrip
  <2>. QED BY <1>2, <2>1
<1>4. r.type = t /\ r.seq = s
  OBVIOUS
<1>5. ASSUME NEW y \in Seq(Nat), NEW m, m = NextMessage(w \o y)
      PROVE  m.type = t /\ m.seq = s /\ Decode(m) = {body} /\ AfterMessage(w \o y) = y
  <2>1. m = r /\ AfterMessage(w \o y) = y
    BY <1>3, <1>5
  <2>. QED BY <1>4, <2>1
<1>. QED BY <1>5 DEF ReadsAs

(* The payload is decoded as its type says.                                *)
LEMMA DecodeKinds ==
  ASSUME NEW m
  PROVE  /\ m.type = VideoConfig => Decode(m) = DecodeVideoConfig(m.payload)
         /\ m.type = VideoChunk => Decode(m) = DecodeVideoChunk(m.payload)
         /\ m.type = ImuBatch => Decode(m) = DecodeImuBatch(m.payload)
         /\ m.type = PoseSample => Decode(m) = DecodePoseSample(m.payload)
         /\ m.type = PointCloud => Decode(m) = DecodePointCloud(m.payload)
         /\ m.type = CameraIntrinsics => Decode(m) = DecodeCameraIntrinsics(m.payload)
BY DEF Decode, VideoConfig, VideoChunk, ImuBatch, PoseSample, PointCloud, CameraIntrinsics

(* What a message of the capture decodes to is what was written, field by  *)
(* field.                                                                  *)
LEMMA MessageReads ==
  ASSUME NEW b \in Bodies, Fits(b)
  PROVE  \E body : /\ ReadsAs(Encoded(b), b.type, b.seq, body)
                   /\ \A field \in DOMAIN body : body[field] = b[field]
<1>. USE DEF VideoConfig, VideoChunk, ImuBatch, PoseSample, PointCloud, CameraIntrinsics
<1>0. PICK w : w = Encoded(b) /\ b.seq < U32Values /\ Len(w) < HeaderSize + U32Values
  BY DEF Fits
<1>1. CASE b.type = VideoChunk
  <2>1. /\ b.seq \in Nat /\ b.timestamp \in Nat /\ b.is_keyframe \in BOOLEAN
        /\ b.nal \in Seq(Nat)
    BY <1>1, SomeBody
  <2>2. PICK s, a, k, q : s = b.seq /\ a = b.timestamp /\ k = b.is_keyframe /\ q = b.nal
    OBVIOUS
  <2>3. PICK p : p = <<a, IF k THEN 1 ELSE 0>> \o q
    OBVIOUS
  <2>4. p \in Seq(Nat)
    <3>1. PICK c \in Nat : c = IF k THEN 1 ELSE 0
      OBVIOUS
    <3>. QED BY <2>1, <2>2, <2>3, <3>1, TwoCells
  <2>5. w = Wrap(16, s, p)
    BY <1>0, <1>1, <2>2, <2>3 DEF Encoded, EncodeVideoChunk
  <2>6. PICK body : body = [timestamp |-> a, is_keyframe |-> k, nal |-> q]
    OBVIOUS
  <2>7. PICK r : r = [type |-> 16, seq |-> s, payload |-> p]
    OBVIOUS
  <2>8. Decode(r) = {body}
    <3>1. r.type = VideoChunk /\ r.payload = p
      BY <2>7
    <3>2. Decode(r) = DecodeVideoChunk(p)
      BY <3>1, DecodeKinds
    <3>3. a \in Nat /\ k \in BOOLEAN /\ q \in Seq(Nat)
      BY <2>1, <2>2
    <3>4. DecodeVideoChunk(p) = {[timestamp |-> a, is_keyframe |-> k, nal |-> q]}
      BY ONLY <2>3, <3>3, VideoChunkReads
    <3>5. DecodeVideoChunk(p) = {body}
      BY <2>6, <3>4
    <3>. QED BY <3>2, <3>5
  <2>9. ReadsAs(w, 16, s, body)
    BY <1>0, <2>1, <2>2, <2>4, <2>5, <2>7, <2>8, WrapReads
  <2>10. \A field \in DOMAIN body : body[field] = b[field]
    BY <2>2, <2>6
  <2>. QED BY <1>0, <1>1, <2>2, <2>9, <2>10
<1>2. CASE b.type = ImuBatch
  <2>1. b.seq \in Nat /\ b.samples \in Seq(Nat) /\ Len(b.samples) < U16Values
    BY <1>2, SomeBody DEF Fits
  <2>2. PICK s, q : s = b.seq /\ q = b.samples
    OBVIOUS
  <2>3. PICK p : p = Put16(Len(q)) \o q
    OBVIOUS
  <2>4. p \in Seq(Nat)
    BY <2>1, <2>2, <2>3, PutTypes, LenIsNat, ConcatProperties
  <2>5. w = Wrap(32, s, p)
    BY <1>0, <1>2, <2>2, <2>3 DEF Encoded, EncodeImuBatch
  <2>6. PICK body : body = [samples |-> q]
    OBVIOUS
  <2>7. PICK r : r = [type |-> 32, seq |-> s, payload |-> p]
    OBVIOUS
  <2>8. Decode(r) = {body}
    <3>1. r.type = ImuBatch /\ r.payload = p
      BY <2>7
    <3>2. Decode(r) = DecodeImuBatch(p)
      BY <3>1, DecodeKinds
    <3>3. DecodeImuBatch(p) = {body}
      BY <2>1, <2>2, <2>3, <2>6, ImuBatchReads
    <3>. QED BY <3>2, <3>3
  <2>9. ReadsAs(w, 32, s, body)
    BY <1>0, <2>1, <2>2, <2>4, <2>5, <2>7, <2>8, WrapReads
  <2>10. \A field \in DOMAIN body : body[field] = b[field]
    BY <2>2, <2>6
  <2>. QED BY <1>0, <1>2, <2>2, <2>9, <2>10
<1>3. CASE b.type = PoseSample
  <2>1. /\ b.seq \in Nat /\ b.timestamp \in Nat /\ b.tracking_state \in Nat
        /\ b.pose \in Seq(Nat) /\ Len(b.pose) = PoseSize
    BY <1>3, SomeBody DEF Fits
  <2>2. PICK s, a, k, q : s = b.seq /\ a = b.timestamp /\ k = b.tracking_state /\ q = b.pose
    OBVIOUS
  <2>3. PICK p : p = <<a, k>> \o q
    OBVIOUS
  <2>4. p \in Seq(Nat)
    BY <2>1, <2>2, <2>3, TwoCells
  <2>5. w = Wrap(48, s, p)
    BY <1>0, <1>3, <2>2, <2>3 DEF Encoded, EncodePoseSample
  <2>6. PICK body : body = [timestamp |-> a, tracking_state |-> k, pose |-> q]
    OBVIOUS
  <2>7. PICK r : r = [type |-> 48, seq |-> s, payload |-> p]
    OBVIOUS
  <2>8. Decode(r) = {body}
    <3>1. r.type = PoseSample /\ r.payload = p
      BY <2>7
    <3>2. Decode(r) = DecodePoseSample(p)
      BY <3>1, DecodeKinds
    <3>3. a \in Nat /\ k \in Nat /\ q \in Seq(Nat) /\ Len(q) = PoseSize
      BY <2>1, <2>2
    <3>4. Len(p) = 2 + Len(q) /\ p[1] = a /\ p[2] = k /\ SubSeq(p, 3, 2 + Len(q)) = q
      BY ONLY <2>3, <3>3, TwoCells
    <3>5. DecodePoseSample(p) = {body}
      <4>1. ~(Len(p) < 2 + PoseSize)
        BY <3>3, <3>4 DEF PoseSize
      <4>2. SubSeq(p, 3, 2 + PoseSize) = q
        BY <3>3, <3>4
      <4>. QED BY <2>6, <3>4, <4>1, <4>2 DEF DecodePoseSample, Unless
    <3>. QED BY <3>2, <3>5
  <2>9. ReadsAs(w, 48, s, body)
    BY <1>0, <2>1, <2>2, <2>4, <2>5, <2>7, <2>8, WrapReads
  <2>10. \A field \in DOMAIN body : body[field] = b[field]
    BY <2>2, <2>6
  <2>. QED BY <1>0, <1>3, <2>2, <2>9, <2>10
<1>4. CASE b.type = PointCloud
  <2>1. /\ b.seq \in Nat /\ b.timestamp \in Nat /\ b.points \in Seq(Nat)
        /\ Len(b.points) < U32Values
    BY <1>4, SomeBody DEF Fits
  <2>2. PICK s, a, q : s = b.seq /\ a = b.timestamp /\ q = b.points
    OBVIOUS
  <2>3. PICK p : p = <<a>> \o Put32(Len(q)) \o q
    OBVIOUS
  <2>4. p \in Seq(Nat)
    <3>1. PICK h : h = Put32(Len(q))
      OBVIOUS
    <3>2. h \in Seq(Nat)
      BY <2>1, <2>2, <3>1, PutTypes, LenIsNat
    <3>3. <<a>> \o h \in Seq(Nat)
      BY <2>1, <2>2, <3>2, OneCell
    <3>. QED BY <2>1, <2>2, <2>3, <3>1, <3>3, ConcatProperties
  <2>5. w = Wrap(49, s, p)
    BY <1>0, <1>4, <2>2, <2>3 DEF Encoded, EncodePointCloud
  <2>6. PICK body : body = [timestamp |-> a, points |-> q]
    OBVIOUS
  <2>7. PICK r : r = [type |-> 49, seq |-> s, payload |-> p]
    OBVIOUS
  <2>8. Decode(r) = {body}
    <3>1. r.type = PointCloud /\ r.payload = p
      BY <2>7
    <3>2. Decode(r) = DecodePointCloud(p)
      BY <3>1, DecodeKinds
    <3>3. DecodePointCloud(p) = {body}
      BY <2>1, <2>2, <2>3, <2>6, PointCloudReads
    <3>. QED BY <3>2, <3>3
  <2>9. ReadsAs(w, 49, s, body)
    BY <1>0, <2>1, <2>2, <2>4, <2>5, <2>7, <2>8, WrapReads
  <2>10. \A field \in DOMAIN body : body[field] = b[field]
    BY <2>2, <2>6
  <2>. QED BY <1>0, <1>4, <2>2, <2>9, <2>10
<1>5. CASE b.type = CameraIntrinsics
  <2>1. b.seq \in Nat /\ b.intrinsics \in Seq(Nat) /\ Len(b.intrinsics) = IntrinsicsSize
    BY <1>5, SomeBody DEF Fits
  <2>2. PICK s, p : s = b.seq /\ p = b.intrinsics
    OBVIOUS
  <2>5. w = Wrap(50, s, p)
    BY <1>0, <1>5, <2>2 DEF Encoded, EncodeCameraIntrinsics
  <2>6. PICK body : body = [intrinsics |-> p]
    OBVIOUS
  <2>7. PICK r : r = [type |-> 50, seq |-> s, payload |-> p]
    OBVIOUS
  <2>8. Decode(r) = {body}
    <3>1. r.type = CameraIntrinsics /\ r.payload = p
      BY <2>7
    <3>2. Decode(r) = DecodeCameraIntrinsics(p)
      BY <3>1, DecodeKinds
    <3>3. DecodeCameraIntrinsics(p) = {body}
      BY <2>1, <2>2, <2>6, IntrinsicsRead
    <3>. QED BY <3>2, <3>3
  <2>9. ReadsAs(w, 50, s, body)
    BY <1>0, <2>1, <2>2, <2>5, <2>7, <2>8, WrapReads
  <2>10. \A field \in DOMAIN body : body[field] = b[field]
    BY <2>2, <2>6
  <2>. QED BY <1>0, <1>5, <2>2, <2>9, <2>10
<1>6. \/ b.type = VideoChunk \/ b.type = ImuBatch \/ b.type = PoseSample \/ b.type = PointCloud
      \/ b.type = CameraIntrinsics
  BY SomeBody
<1>. QED BY <1>1, <1>2, <1>3, <1>4, <1>5, <1>6

-----------------------------------------------------------------------------
(* The items a connection carries: the config, item 0, and the messages of *)
(* the capture by their indices.                                           *)

Coded(i) == IF i = 0 THEN EncodedConfig ELSE Encoded(Script[i])
Is(m, i) == IF i = 0 THEN m.type = VideoConfig ELSE m.type # VideoConfig /\ IndexOf(m) = i

(* A recorded message tells which message of the capture it is.            *)
LEMMA IndexIs ==
  ASSUME NEW i \in 1 .. Len(Script), NEW m, Same(m, Script[i])
  PROVE  IndexOf(m) = i
<1>1. i \in DOMAIN Script
  BY ScriptAssumption, LenProperties
<1>2. PICK j : j = CHOOSE k \in DOMAIN Script : Same(m, Script[k])
  OBVIOUS
<1>3. j \in DOMAIN Script /\ Same(m, Script[j])
  BY <1>1, <1>2
<1>4. Script[i].type = Script[j].type /\ Script[i].seq = Script[j].seq
  BY <1>3 DEF Same
<1>5. i = j
  BY <1>1, <1>3, <1>4, NumberingAssumption
<1>. QED BY <1>1, <1>2, <1>5 DEF IndexOf

(* How the config is laid out.                                             *)
LEMMA ConfigShape ==
  \E p \in Seq(Nat) :
     /\ p = Put16(Len(Config.json)) \o Config.json \o Config.sps_pps
     /\ EncodedConfig = Wrap(VideoConfig, 1, p)
<1>1. Config.json \in Seq(Nat) /\ Config.sps_pps \in Seq(Nat)
  BY ConfigAssumption
<1>2. PICK h, j, q : h = Put16(Len(Config.json)) /\ j = Config.json /\ q = Config.sps_pps
  OBVIOUS
<1>3. h \in Seq(Nat) /\ j \in Seq(Nat) /\ q \in Seq(Nat)
  BY <1>1, <1>2, PutTypes, LenIsNat
<1>4. PICK p : p = h \o j \o q
  OBVIOUS
<1>5. p \in Seq(Nat)
  BY <1>3, <1>4, ConcatProperties
<1>6. EncodedConfig = Wrap(VideoConfig, 1, p)
  BY <1>2, <1>4 DEF EncodedConfig, EncodeVideoConfig
<1>. QED BY <1>2, <1>4, <1>5, <1>6

(* A wrapped message within its length field is whole.                     *)
LEMMA WrapWhole ==
  ASSUME NEW t \in Nat, NEW s \in Nat, NEW p \in Seq(Nat), NEW m, m = Wrap(t, s, p),
         Len(m) < HeaderSize + U32Values
  PROVE  m \in Wholes
<1>1. PICK h \in Seq(Nat) :
          /\ Len(h) = 3 /\ h[1] = Len(p) % U32Values
          /\ m = h \o p /\ m \in Seq(Nat) /\ Len(m) = 3 + Len(p)
  <2>1. t \in Nat /\ s \in Nat /\ p \in Seq(Nat) /\ m = Wrap(t, s, p)
    OBVIOUS
  <2>2. Headed(m, t, s, p)
    BY <2>1, WrapIsHeaded
  <2>. QED BY <2>2 DEF Headed
<1>2. Len(p) \in Nat
  BY LenIsNat
<1>3. Len(p) % U32Values = Len(p)
  <2>1. U32Values \in Nat \ {0} /\ Len(p) < U32Values
    BY <1>1, <1>2, WidthAssumption DEF HeaderSize
  <2>. QED BY <1>2, <2>1, FieldKeeps
<1>4. m[1] = h[1]
  BY <1>1, ConcatPrefix
<1>5. m[1] = Len(p) /\ Len(p) = Len(m) - 3 /\ Len(m) >= 3
  BY <1>1, <1>2, <1>3, <1>4
<1>. QED BY <1>1, <1>5 DEF Wholes

(* Every item is whole.                                                    *)
LEMMA CodedWhole ==
  ASSUME NEW i \in 0 .. Len(Script)
  PROVE  Coded(i) \in Wholes
<1>1. CASE i = 0
  <2>1. PICK p \in Seq(Nat) : EncodedConfig = Wrap(VideoConfig, 1, p)
    BY ConfigShape
  <2>2. PICK t \in Nat, s \in Nat : t = VideoConfig /\ s = 1
    BY DEF VideoConfig
  <2>3. Len(EncodedConfig) < HeaderSize + U32Values
    BY ConfigFits
  <2>4. EncodedConfig \in Wholes
    BY <2>1, <2>2, <2>3, WrapWhole
  <2>. QED BY <1>1, <2>4 DEF Coded
<1>2. CASE i # 0
  <2>1. i \in 1 .. Len(Script)
    BY <1>2, ScriptLength
  <2>2. Encoded(Script[i]) \in Wholes
    BY <2>1, MessageShape DEF Wholes
  <2>. QED BY <1>2, <2>2 DEF Coded
<1>. QED BY <1>1, <1>2

(* What the decoder is to give for the item i.                             *)
Reading(i, t, s, body) ==
    /\ ReadsAs(Coded(i), t, s, body)
    /\ t \in Known
    /\ t = VideoConfig => body.json = Config.json
    /\ Is([type |-> t, seq |-> s, body |-> body], i)

(* The config is read as what was written ...                              *)
LEMMA ConfigReading == \E t, s, body : Reading(0, t, s, body)
<1>1. PICK p \in Seq(Nat) : /\ p = Put16(Len(Config.json)) \o Config.json \o Config.sps_pps
                            /\ EncodedConfig = Wrap(VideoConfig, 1, p)
  BY ConfigShape
<1>2. PICK j, q, w : j = Config.json /\ q = Config.sps_pps /\ w = EncodedConfig
  OBVIOUS
<1>3. /\ j \in Seq(Nat) /\ q \in Seq(Nat) /\ Len(j) < U16Values
      /\ Len(w) < HeaderSize + U32Values
  BY <1>2, ConfigAssumption, ConfigFits
<1>3A. U32Values \in Nat /\ U32Values > 1
  <2>1. PICK h \in Seq(Nat) : Len(w) = 3 + Len(p)
    <3>1. PICK t \in Nat, s \in Nat : t = VideoConfig /\ s = 1
      BY DEF VideoConfig
    <3>2. w = Wrap(t, s, p)
      BY <1>1, <1>2, <3>1
    <3>. QED BY <3>2, WrapShape
  <2>2. PICK z : z = Put16(Len(j)) \o j
    OBVIOUS
  <2>3. PICK y : y = Put16(Len(j))
    OBVIOUS
  <2>4. y \in Seq(Nat) /\ Len(y) = 1
    BY <1>3, <2>3, FieldType, LenIsNat DEF Put16
  <2>5. z \in Seq(Nat) /\ Len(z) = 1 + Len(j) /\ Len(j) \in Nat
    <3>1. j \in Seq(Nat) /\ z = y \o j
      BY <1>3, <2>2, <2>3
    <3>2. z \in Seq(Nat) /\ Len(z) = Len(y) + Len(j)
      BY ONLY <2>4, <3>1, ConcatProperties
    <3>. QED BY <2>4, <3>1, <3>2, LenIsNat
  <2>6. p = z \o q
    BY <1>1, <1>2, <2>2
  <2>7. Len(p) = (1 + Len(j)) + Len(q) /\ Len(q) \in Nat
    BY <1>3, <2>5, <2>6, ConcatProperties, LenIsNat
  <2>. QED BY <1>3, <2>1, <2>5, <2>7, WidthAssumption DEF HeaderSize
<1>4. PICK body : body = [json |-> j, sps_pps |-> q]
  OBVIOUS
<1>5. PICK t \in Nat, s \in Nat : t = VideoConfig /\ s = 1
  BY DEF VideoConfig
<1>6. PICK r : r = [type |-> t, seq |-> s, payload |-> p]
  OBVIOUS
<1>7. Decode(r) = {body}
  <2>1. r.type = VideoConfig /\ r.payload = p
    BY <1>5, <1>6
  <2>2. Decode(r) = DecodeVideoConfig(p)
    BY <2>1, DecodeKinds
  <2>3. p = Put16(Len(j)) \o j \o q
    BY <1>1, <1>2
  <2>4. DecodeVideoConfig(p) = {[json |-> j, sps_pps |-> q]}
    BY ONLY <1>3, <2>3, VideoConfigReads
  <2>. QED BY <1>4, <2>2, <2>4
<1>8. ReadsAs(w, t, s, body)
  BY <1>1, <1>2, <1>3, <1>3A, <1>5, <1>6, <1>7, WrapReads
<1>9. t \in Known
  BY <1>5 DEF Known
<1>10. body.json = Config.json
  BY <1>2, <1>4
<1>11. PICK m : m = [type |-> t, seq |-> s, body |-> body]
  OBVIOUS
<1>12. m.type = VideoConfig
  BY <1>5, <1>11
<1>13. Is(m, 0)
  BY <1>12 DEF Is
<1>14. Coded(0) = w
  BY <1>2 DEF Coded
<1>. QED BY <1>8, <1>9, <1>10, <1>11, <1>13, <1>14 DEF Reading

(* ... and so is every item.                                               *)
LEMMA ItemReads ==
  ASSUME NEW i \in 0 .. Len(Script)
  PROVE  \E t, s, body : Reading(i, t, s, body)
<1>1. CASE i = 0
  BY <1>1, ConfigReading
<1>2. CASE i # 0
  <2>1. i \in 1 .. Len(Script) /\ i \in DOMAIN Script
    BY <1>2, ScriptLength, ScriptAssumption, LenProperties
  <2>2. PICK b : b = Script[i]
    OBVIOUS
  <2>3. b \in Bodies /\ Fits(b)
    BY <2>1, <2>2, ScriptElements, ScriptFits
  <2>4. PICK body : /\ ReadsAs(Encoded(b), b.type, b.seq, body)
                    /\ \A field \in DOMAIN body : body[field] = b[field]
    BY <2>3, MessageReads
  <2>5. b.type \in Known /\ b.type # VideoConfig
    BY <2>3, EncodedIsWrapped
  <2>6. PICK t, s : t = b.type /\ s = b.seq
    OBVIOUS
  <2>7. PICK m : m = [type |-> t, seq |-> s, body |-> body]
    OBVIOUS
  <2>8. m.type = t /\ m.seq = s /\ m.body = body
    BY <2>7
  <2>9. Same(m, b)
    BY <2>4, <2>6, <2>8 DEF Same
  <2>10. IndexOf(m) = i
    BY <2>1, <2>2, <2>9, IndexIs
  <2>11. Is(m, i)
    BY <1>2, <2>5, <2>6, <2>8, <2>10 DEF Is
  <2>12. ReadsAs(Coded(i), t, s, body)
    BY <1>2, <2>2, <2>4, <2>6 DEF Coded
  <2>13. Reading(i, t, s, body)
    BY <2>5, <2>6, <2>7, <2>11, <2>12 DEF Reading
  <2>. QED BY <2>13
<1>. QED BY <1>1, <1>2

-----------------------------------------------------------------------------
(* What a connection carries: the messages after the lo-th, with the config*)
(* in the place of that number if it has been sent.                        *)

Stories == [lo : Nat, config : Nat, sent : Nat]

(* The last message among the first k items, and the k-th item.            *)
After(s, k) == s.lo + k - (IF s.config \in 1 .. k THEN 1 ELSE 0)
Item(s, k) == IF k = s.config THEN 0 ELSE After(s, k)
Upto(s) == After(s, s.sent)

(* What has been sent after the first h items.                             *)
UnderWay(s, h) == [k \in 1 .. s.sent - h |-> Coded(Item(s, h + k))]

(* Items are in the order of the capture.                                  *)
LEMMA AfterGrows ==
  ASSUME NEW s \in Stories, NEW j \in Nat, NEW k \in Nat, j <= k
  PROVE  /\ After(s, j) \in Nat /\ s.lo <= After(s, j) /\ After(s, j) <= After(s, k)
         /\ After(s, 0) = s.lo
         /\ j < k /\ s.config \notin j + 1 .. k => After(s, k) = After(s, j) + (k - j)
<1>1. PICK a \in Nat, b \in Nat : a = s.lo /\ b = s.config
  BY DEF Stories
<1>2. After(s, j) = a + j - (IF 1 <= b /\ b <= j THEN 1 ELSE 0)
  BY <1>1 DEF After
<1>3. After(s, k) = a + k - (IF 1 <= b /\ b <= k THEN 1 ELSE 0)
  BY <1>1 DEF After
<1>4. After(s, 0) = a
  BY <1>1 DEF After
<1>. QED BY <1>1, <1>2, <1>3, <1>4

(* What a story says is about messages of the capture.                     *)
LEMMA UptoType ==
  ASSUME NEW s \in Stories
  PROVE  Upto(s) \in Nat /\ s.lo <= Upto(s) /\ s.lo \in Nat /\ s.sent \in Nat
<1>1. PICK n \in Nat : n = s.sent
  BY DEF Stories
<1>2. n <= n
  BY <1>1
<1>3. After(s, n) \in Nat /\ s.lo <= After(s, n)
  BY <1>2, AfterGrows
<1>. QED BY <1>1, <1>3 DEF Upto, Stories

(* Every item but the config is a message of the capture.                  *)
LEMMA ItemRange ==
  ASSUME NEW s \in Stories, Upto(s) <= Len(Script), NEW k \in 1 .. s.sent
  PROVE  Item(s, k) \in 0 .. Len(Script) /\ (k # s.config => Item(s, k) = After(s, k))
<1>1. s.sent \in Nat /\ k \in Nat /\ k <= s.sent /\ Len(Script) \in Nat
  BY ScriptLength DEF Stories
<1>2. After(s, k) \in Nat /\ After(s, k) <= Upto(s) /\ Upto(s) \in Nat
  BY <1>1, AfterGrows DEF Upto
<1>. QED BY <1>1, <1>2 DEF Item

(* What is under way is a list of whole messages.                          *)
LEMMA UnderWayType ==
  ASSUME NEW s \in Stories, Upto(s) <= Len(Script), NEW h \in Nat, h <= s.sent
  PROVE  /\ UnderWay(s, h) \in Seq(Wholes) /\ Len(UnderWay(s, h)) = s.sent - h
         /\ \A k \in 1 .. s.sent - h : UnderWay(s, h)[k] = Coded(Item(s, h + k))
<1>1. PICK n \in Nat : n = s.sent /\ h <= n
  BY DEF Stories
<1>2. PICK m \in Nat : m = n - h
  BY <1>1
<1>3. ASSUME NEW k \in 1 .. m PROVE Coded(Item(s, h + k)) \in Wholes
  <2>1. PICK j : j = h + k
    OBVIOUS
  <2>2. j \in 1 .. s.sent
    BY <1>1, <1>2, <2>1
  <2>3. PICK i : i = Item(s, j)
    OBVIOUS
  <2>4. i \in 0 .. Len(Script)
    BY <2>2, <2>3, ItemRange
  <2>. QED BY <2>1, <2>3, <2>4, CodedWhole
<1>4. PICK w : w = [k \in 1 .. m |-> Coded(Item(s, h + k))]
  OBVIOUS
<1>5. w \in Seq(Wholes) /\ Len(w) = m /\ \A k \in 1 .. m : w[k] = Coded(Item(s, h + k))
  BY <1>3, <1>4
<1>6. UnderWay(s, h) = w
  BY <1>1, <1>2, <1>4 DEF UnderWay
<1>. QED BY <1>1, <1>2, <1>5, <1>6

(* The first j of what is under way.                                       *)
LEMMA UnderWaySome ==
  ASSUME NEW s \in Stories, Upto(s) <= Len(Script), NEW h \in Nat, h <= s.sent,
         NEW j \in 0 .. s.sent - h,
         NEW u \in Stories, u.lo = s.lo, u.config = s.config, u.sent = h + j
  PROVE  UnderWay(u, h) = Some(UnderWay(s, h), j) /\ Upto(u) <= Upto(s)
<1>1. PICK n \in Nat : n = s.sent /\ h <= n
  BY DEF Stories
<1>2. j \in Nat /\ j <= n - h /\ h + j \in Nat /\ h + j <= n
  BY <1>1
<1>3. \A k \in Nat : After(u, k) = After(s, k) /\ Item(u, k) = Item(s, k)
  BY DEF After, Item
<1>4. Upto(u) <= Upto(s)
  <2>1. After(s, h + j) <= After(s, n)
    BY <1>1, <1>2, AfterGrows
  <2>. QED BY <1>1, <1>2, <1>3, <2>1 DEF Upto
<1>5. Upto(u) <= Len(Script)
  <2>1. Upto(u) \in Nat /\ Upto(s) \in Nat
    BY UptoType
  <2>. QED BY <1>4, <2>1, ScriptLength
<1>6. PICK w, v, m : w = UnderWay(s, h) /\ v = UnderWay(u, h) /\ m = n - h
  OBVIOUS
<1>7. w \in Seq(Wholes) /\ Len(w) = m /\ \A k \in 1 .. m : w[k] = Coded(Item(s, h + k))
  BY <1>1, <1>6, UnderWayType
<1>8. u.sent - h = j /\ h <= u.sent
  BY <1>2
<1>9. v \in Seq(Wholes) /\ Len(v) = j /\ \A k \in 1 .. j : v[k] = Coded(Item(u, h + k))
  BY <1>5, <1>6, <1>8, UnderWayType
<1>10. j \in 0 .. Len(w)
  BY <1>1, <1>2, <1>6, <1>7
<1>11. PICK x : x = Some(w, j)
  OBVIOUS
<1>12. x \in Seq(Wholes) /\ Len(x) = j /\ \A k \in 1 .. j : x[k] = w[k]
  BY <1>7, <1>10, <1>11, SomeType
<1>13. ASSUME NEW k \in 1 .. j PROVE v[k] = x[k]
  <2>1. k \in 1 .. m /\ h + k \in Nat
    BY <1>1, <1>2, <1>6
  <2>2. Item(u, h + k) = Item(s, h + k)
    BY <1>3, <2>1
  <2>. QED BY <1>7, <1>9, <1>12, <2>1, <2>2
<1>14. v = x
  BY <1>9, <1>12, <1>13, SeqEqual
<1>. QED BY <1>4, <1>6, <1>11, <1>14

(* One more item is sent.                                                  *)
LEMMA UnderWayMore ==
  ASSUME NEW s \in Stories, NEW u \in Stories, Upto(u) <= Len(Script), Upto(s) <= Upto(u),
         NEW h \in Nat, h <= s.sent, u.sent = s.sent + 1,
         \A k \in 1 .. s.sent : Item(u, k) = Item(s, k)
  PROVE  UnderWay(u, h) = Append(UnderWay(s, h), Coded(Item(u, u.sent)))
<1>1. PICK n \in Nat : n = s.sent /\ h <= n
  BY DEF Stories
<1>2. PICK m \in Nat : m = n - h
  BY <1>1
<1>3. Upto(s) <= Len(Script)
  <2>1. Upto(u) \in Nat /\ Upto(s) \in Nat
    BY UptoType
  <2>. QED BY <2>1, ScriptLength
<1>4. PICK w, v, i : w = UnderWay(s, h) /\ v = UnderWay(u, h) /\ i = Item(u, u.sent)
  OBVIOUS
<1>5. w \in Seq(Wholes) /\ Len(w) = m /\ \A k \in 1 .. m : w[k] = Coded(Item(s, h + k))
  BY <1>1, <1>2, <1>3, <1>4, UnderWayType
<1>6. u.sent - h = m + 1 /\ h <= u.sent /\ u.sent = h + (m + 1)
  BY <1>1, <1>2
<1>7. v \in Seq(Wholes) /\ Len(v) = m + 1 /\ \A k \in 1 .. m + 1 : v[k] = Coded(Item(u, h + k))
  BY <1>4, <1>6, UnderWayType
<1>8. PICK e : e = Coded(i)
  OBVIOUS
<1>9. v[m + 1] = e
  BY <1>4, <1>6, <1>7, <1>8
<1>10. e \in Wholes
  BY <1>7, <1>9, ElementOfSeq
<1>11. PICK x : x = Append(w, e)
  OBVIOUS
<1>12. x \in Seq(Wholes) /\ Len(x) = m + 1
  BY <1>5, <1>10, <1>11, AppendProperties
<1>13. (\A k \in 1 .. m : x[k] = w[k]) /\ x[m + 1] = e
  BY <1>5, <1>10, <1>11, AppendProperties
<1>14. ASSUME NEW k \in 1 .. m + 1 PROVE v[k] = x[k]
  <2>1. CASE k = m + 1
    BY <1>9, <1>13, <2>1
  <2>2. CASE k # m + 1
    <3>1. k \in 1 .. m
      BY <1>2, <2>2
    <3>2. h + k \in 1 .. n
      BY <1>1, <1>2, <3>1
    <3>3. Item(u, h + k) = Item(s, h + k)
      BY <1>1, <3>2
    <3>. QED BY <3>3, <1>5, <1>7, <1>13, <3>1, <3>2
  <2>. QED BY <2>1, <2>2
<1>15. v = x
  BY <1>7, <1>12, <1>14, SeqEqual
<1>. QED BY <1>4, <1>8, <1>11, <1>15

(* The first item has been taken.                                          *)
LEMMA UnderWayLess ==
  ASSUME NEW s \in Stories, Upto(s) <= Len(Script), NEW h \in Nat, h < s.sent
  PROVE  /\ Head(UnderWay(s, h)) = Coded(Item(s, h + 1))
         /\ Tail(UnderWay(s, h)) = UnderWay(s, h + 1)
<1>1. PICK n \in Nat : n = s.sent /\ h < n
  BY DEF Stories
<1>2. PICK m \in Nat, g \in Nat : m = n - h /\ g = h + 1 /\ m >= 1
  BY <1>1
<1>3. PICK w, v : w = UnderWay(s, h) /\ v = UnderWay(s, g)
  OBVIOUS
<1>4. w \in Seq(Wholes) /\ Len(w) = m /\ \A k \in 1 .. m : w[k] = Coded(Item(s, h + k))
  BY <1>1, <1>2, <1>3, UnderWayType
<1>5. g <= s.sent /\ s.sent - g = m - 1
  <2>1. g <= n /\ n - g = m - 1
    BY <1>1, <1>2
  <2>. QED BY <1>1, <2>1
<1>6. v \in Seq(Wholes) /\ Len(v) = m - 1 /\ \A k \in 1 .. m - 1 : v[k] = Coded(Item(s, g + k))
  BY <1>3, <1>5, UnderWayType
<1>7. w # <<>>
  BY <1>2, <1>4, EmptySeq, LenProperties
<1>8. PICK x : x = Tail(w)
  OBVIOUS
<1>9. /\ Head(w) = w[1] /\ x \in Seq(Wholes) /\ Len(x) = m - 1
      /\ \A k \in 1 .. m - 1 : x[k] = w[k + 1]
  BY <1>4, <1>7, <1>8, HeadTailProperties
<1>10. ASSUME NEW k \in 1 .. m - 1 PROVE v[k] = x[k]
  <2>1. k + 1 \in 1 .. m /\ h + (k + 1) = g + k
    BY <1>2
  <2>. QED BY <1>4, <1>6, <1>9, <2>1
<1>11. v = x
  BY <1>6, <1>9, <1>10, SeqEqual
<1>12. 1 \in 1 .. m
  BY <1>2
<1>. QED BY <1>2, <1>3, <1>4, <1>8, <1>9, <1>11, <1>12

(* What of the items s is not recorded yet is in the buffer and in flight, *)
(* whole, with t behind it, less than a message.                           *)
OnItsWay(s, r, t) ==
    /\ Torn(t)
    /\ Joins(r.buffer, r.flight, FlattenSeq(UnderWay(s, Len(r.recorded))) \o t)
Carries(s, r) ==
    /\ s \in Stories /\ Upto(s) <= Len(Script)
    /\ Len(r.recorded) <= s.sent
    /\ \A k \in 1 .. Len(r.recorded) : Is(r.recorded[k], Item(s, k))
    /\ ~r.cut => s.config <= s.sent
    /\ \E t : OnItsWay(s, r, t) /\ (~r.cut => t = <<>>)

(* A new connection carries nothing.                                       *)
LEMMA NewCarries ==
  ASSUME NEW f \in Nat, f <= Len(Script), NEW s, s = [lo |-> f, config |-> 0, sent |-> 0]
  PROVE  Carries(s, NewConnection) /\ Upto(s) = f /\ s \in Stories
<1>1. PICK r, z : r = NewConnection /\ z = <<>>
  OBVIOUS
<1>2. ~r.cut /\ r.buffer = z /\ r.flight = z /\ r.recorded = z
  BY <1>1 DEF NewConnection
<1>3. s \in Stories /\ s.lo = f /\ s.config = 0 /\ s.sent = 0
  BY DEF Stories
<1>4. Upto(s) = f
  BY <1>3, AfterGrows DEF Upto
<1>5. Len(z) = 0 /\ z \in Seq(Nat) /\ Torn(z)
  BY <1>1, EmptySeq, NothingTorn
<1>6. UnderWay(s, 0) = <<>>
  <2>1. PICK w : w = UnderWay(s, 0)
    OBVIOUS
  <2>2. 0 <= s.sent /\ s.sent - 0 = 0 /\ Upto(s) <= Len(Script)
    BY <1>3, <1>4
  <2>3. w \in Seq(Wholes) /\ Len(w) = 0
    BY <1>3, <2>1, <2>2, UnderWayType
  <2>. QED BY <2>1, <2>3, EmptySeq
<1>7. FlattenSeq(UnderWay(s, 0)) \o z = z \o z
  BY <1>1, <1>6, FlattenEmpty
<1>8. OnItsWay(s, r, z)
  BY <1>2, <1>5, <1>7 DEF OnItsWay, Joins
<1>9. Carries(s, r)
  BY <1>1, <1>2, <1>3, <1>4, <1>5, <1>8 DEF Carries
<1>. QED BY <1>1, <1>3, <1>4, <1>9

(* A step that moves no cell leaves it carrying the same,                  *)
LEMMA SameCarries ==
  ASSUME NEW s, NEW r, Carries(s, r), NEW q, q.cut = r.cut, q.recorded = r.recorded,
         q.buffer = r.buffer, q.flight = r.flight
  PROVE  Carries(s, q)
BY DEF Carries, OnItsWay

(* so does a read, which moves the cells from the network to the buffer.   *)
LEMMA ReadCarries ==
  ASSUME NEW s, NEW r, Carries(s, r), NEW q, q.cut = r.cut, q.recorded = r.recorded,
         q.buffer = r.buffer \o r.flight, q.flight = <<>>
  PROVE  Carries(s, q)
<1>1. PICK t : OnItsWay(s, r, t) /\ (~r.cut => t = <<>>)
  BY DEF Carries
<1>2. PICK w : w = FlattenSeq(UnderWay(s, Len(r.recorded))) \o t
  OBVIOUS
<1>3. r.buffer \in Seq(Nat) /\ r.flight \in Seq(Nat) /\ w = r.buffer \o r.flight
  BY <1>1, <1>2 DEF OnItsWay, Joins
<1>4. q.buffer \in Seq(Nat) /\ q.buffer = w
  BY <1>3, ConcatProperties
<1>5. q.flight \in Seq(Nat) /\ q.buffer \o q.flight = q.buffer
  BY <1>4, EmptySeq, ConcatEmptySeq
<1>6. OnItsWay(s, q, t)
  BY <1>1, <1>2, <1>4, <1>5 DEF OnItsWay, Joins
<1>. QED BY <1>1, <1>6 DEF Carries

(* Cells sent come last.                                                   *)
LEMMA JoinsMore ==
  ASSUME NEW a, NEW b, NEW w, Joins(a, b, w), NEW e \in Seq(Nat)
  PROVE  Joins(a, b \o e, w \o e)
<1>1. a \in Seq(Nat) /\ b \in Seq(Nat) /\ w = a \o b
  BY DEF Joins
<1>2. b \o e \in Seq(Nat)
  BY <1>1, ConcatProperties
<1>3. (a \o b) \o e = a \o (b \o e)
  BY <1>1, CellsAssociative
<1>. QED BY <1>1, <1>2, <1>3 DEF Joins

(* A message sent comes last.                                              *)
LEMMA FlattenMore ==
  ASSUME NEW s \in Seq(Wholes), NEW m \in Wholes
  PROVE  FlattenSeq(Append(s, m)) = FlattenSeq(s) \o m
<1>1. PICK Q : Q = Seq(Nat)
  OBVIOUS
<1>2. s \in Seq(Q) /\ m \in Q
  BY <1>1, WholesAreSeqs DEF Wholes
<1>. QED BY <1>1, <1>2, FlattenAppend

(* After a send a connection carries one item more.                        *)
LEMMA SentCarries ==
  ASSUME NEW s, NEW r, Carries(s, r), ~r.cut,
         NEW u \in Stories, u.sent = s.sent + 1, u.config <= u.sent,
         Upto(s) <= Upto(u), Upto(u) <= Len(Script),
         \A k \in 1 .. s.sent : Item(u, k) = Item(s, k),
         NEW e, e = Coded(Item(u, u.sent)),
         NEW q, ~q.cut, q.recorded = r.recorded, r.recorded \in Seq(Records),
         q.buffer = r.buffer, q.flight = r.flight \o e
  PROVE  Carries(u, q)
<1>1. s \in Stories /\ Upto(s) <= Len(Script)
  BY DEF Carries
<1>2. PICK h \in Nat, n \in Nat : h = Len(r.recorded) /\ n = s.sent /\ h <= n
  BY LenProperties DEF Carries, Stories
<1>3. PICK t : OnItsWay(s, r, t) /\ t = <<>>
  BY DEF Carries
<1>4. PICK w, v : w = UnderWay(s, h) /\ v = UnderWay(u, h)
  OBVIOUS
<1>5. v = Append(w, e)
  <2>1. UnderWay(u, h) = Append(UnderWay(s, h), Coded(Item(u, u.sent)))
    BY <1>1, <1>2, UnderWayMore
  <2>. QED BY <1>4, <2>1
<1>6. w \in Seq(Wholes)
  BY <1>1, <1>2, <1>4, UnderWayType
<1>7. e \in Wholes
  <2>1. u.sent \in 1 .. u.sent
    BY <1>2
  <2>2. PICK i : i = Item(u, u.sent)
    OBVIOUS
  <2>3. i \in 0 .. Len(Script)
    BY <2>1, <2>2, ItemRange
  <2>. QED BY <2>2, <2>3, CodedWhole
<1>8. FlattenSeq(v) = FlattenSeq(w) \o e
  BY <1>5, <1>6, <1>7, FlattenMore
<1>9. PICK x, y : x = FlattenSeq(w) /\ y = FlattenSeq(v)
  OBVIOUS
<1>10. x \in Seq(Nat) /\ e \in Seq(Nat) /\ y = x \o e /\ y \in Seq(Nat)
  BY <1>6, <1>7, <1>8, <1>9, WholesFlatten, ConcatProperties DEF Wholes
<1>11. x \o t = x /\ y \o t = y
  BY <1>3, <1>10, ConcatEmptySeq
<1>12. Joins(r.buffer, r.flight, x)
  BY <1>2, <1>3, <1>4, <1>9, <1>11 DEF OnItsWay
<1>13. Joins(r.buffer, r.flight \o e, x \o e)
  BY <1>10, <1>12, JoinsMore
<1>14. OnItsWay(u, q, t)
  BY <1>2, <1>3, <1>4, <1>9, <1>10, <1>11, <1>13 DEF OnItsWay
<1>15. Len(q.recorded) <= u.sent
  BY <1>2
<1>16. ASSUME NEW k \in 1 .. Len(q.recorded) PROVE Is(q.recorded[k], Item(u, k))
  <2>1. k \in 1 .. s.sent /\ k \in 1 .. Len(r.recorded)
    BY <1>2, <1>16
  <2>. QED BY <2>1 DEF Carries
<1>. QED BY <1>3, <1>14, <1>15, <1>16 DEF Carries

(* A sequence cut at any place.                                            *)
LEMMA CutInTwo ==
  ASSUME NEW s \in Seq(Nat), NEW n \in 0 .. Len(s), NEW a, NEW b,
         a = SubSeq(s, 1, n), b = SubSeq(s, n + 1, Len(s))
  PROVE  Joins(a, b, s)
<1>1. PICK l \in Nat, i \in Nat : l = Len(s) /\ i = n + 1 /\ n \in Nat /\ n <= l
  BY LenIsNat
<1>2. \A k \in 1 .. l : s[k] \in Nat
  BY <1>1, ElementOfSeq
<1>3. a = SubSeq(s, 1, n) /\ \A k \in 1 .. n : s[k] \in Nat
  BY <1>1, <1>2
<1>4. a \in Seq(Nat) /\ Len(a) = n /\ \A k \in 1 .. n : a[k] = s[k]
  <2>1. PICK o \in Int : o = 1
    OBVIOUS
  <2>2. n \in Int /\ a = SubSeq(s, o, n) /\ \A k \in o .. n : s[k] \in Nat
    BY <1>1, <1>3, <2>1
  <2>3. /\ a \in Seq(Nat) /\ Len(a) = (IF o <= n THEN n - o + 1 ELSE 0)
        /\ \A k \in 1 .. n - o + 1 : a[k] = s[o + k - 1]
    BY <2>1, <2>2, SubSeqProperties
  <2>4. Len(a) = n
    BY <1>1, <2>1, <2>3
  <2>5. ASSUME NEW k \in 1 .. n PROVE a[k] = s[k]
    <3>1. k \in 1 .. n - o + 1 /\ o + k - 1 = k
      BY <1>1, <2>1
    <3>. QED BY <2>3, <3>1
  <2>. QED BY <2>3, <2>4, <2>5
<1>5. b = SubSeq(s, i, l) /\ \A k \in i .. l : s[k] \in Nat
  BY <1>1, <1>2
<1>6. b \in Seq(Nat)
  BY <1>1, <1>5, SubSeqProperties
<1>7. Len(b) = IF i <= l THEN l - i + 1 ELSE 0
  BY <1>1, <1>5, SubSeqProperties
<1>8. \A k \in 1 .. l - i + 1 : b[k] = s[i + k - 1]
  BY <1>1, <1>5, SubSeqProperties
<1>9. Len(b) = l - n
  BY <1>1, <1>7
<1>10. PICK w : w = a \o b
  OBVIOUS
<1>11. w \in Seq(Nat) /\ Len(w) = Len(a) + Len(b)
  BY <1>4, <1>6, <1>10, ConcatProperties
<1>11A. Len(w) = l
  BY <1>1, <1>4, <1>9, <1>11
<1>12. \A k \in 1 .. l : w[k] = IF k <= n THEN a[k] ELSE b[k - n]
  <2>1. \A k \in 1 .. Len(a) + Len(b) : w[k] = IF k <= Len(a) THEN a[k] ELSE b[k - Len(a)]
    <3>1. a \in Seq(Nat) /\ b \in Seq(Nat) /\ w = a \o b
      BY <1>4, <1>6, <1>10
    <3>. QED BY ONLY <3>1, ConcatProperties
  <2>2. Len(a) + Len(b) = l
    BY <1>11, <1>11A
  <2>. QED BY <1>4, <2>1, <2>2
<1>13. ASSUME NEW k \in 1 .. l PROVE s[k] = w[k]
  <2>1. CASE k <= n
    BY <1>1, <1>4, <1>12, <2>1
  <2>2. CASE k > n
    <3>1. k - n \in 1 .. l - i + 1 /\ i + (k - n) - 1 = k /\ k \in 1 .. l
      BY <1>1, <2>2
    <3>2. w[k] = b[k - n]
      <4>1. ~(k <= n) /\ k \in 1 .. l
        BY <1>1, <2>2
      <4>. QED BY ONLY <1>12, <4>1
    <3>3. b[k - n] = s[k]
      BY <1>8, <3>1
    <3>. QED BY <3>2, <3>3
  <2>. QED BY <1>1, <2>1, <2>2
<1>14. s = w
  BY <1>1, <1>11, <1>11A, <1>13, SeqEqual
<1>. QED BY <1>4, <1>6, <1>10, <1>14 DEF Joins

(* A connection that is cut carries the first of the items, and a part of  *)
(* the next.                                                               *)
LEMMA CutCarries ==
  ASSUME NEW s, NEW r, Carries(s, r), ~r.cut, r.recorded \in Seq(Records),
         NEW part, Torn(part), NEW n \in 0 .. Len(r.flight \o part),
         NEW q, q.cut, q.recorded = r.recorded, q.buffer = r.buffer,
         q.flight = SubSeq(r.flight \o part, 1, n)
  PROVE  \E u : Carries(u, q) /\ u.lo = s.lo /\ Upto(u) <= Upto(s)
<1>1. s \in Stories /\ Upto(s) <= Len(Script)
  BY DEF Carries
<1>2. PICK h \in Nat, m \in Nat : h = Len(r.recorded) /\ m = s.sent /\ h <= m
  BY LenProperties DEF Carries, Stories
<1>3. PICK t : OnItsWay(s, r, t) /\ t = <<>>
  BY DEF Carries
<1>4. PICK w, x : w = UnderWay(s, h) /\ x = FlattenSeq(w)
  OBVIOUS
<1>5. w \in Seq(Wholes) /\ Len(w) = m - h /\ x \in Seq(Nat)
  BY <1>1, <1>2, <1>4, UnderWayType, WholesFlatten
<1>6. x \o t = x
  BY <1>3, <1>5, ConcatEmptySeq
<1>7. Joins(r.buffer, r.flight, x)
  BY <1>2, <1>3, <1>4, <1>6 DEF OnItsWay
<1>8. PICK fl : fl = r.flight \o part
  OBVIOUS
<1>9. Joins(r.buffer, fl, x \o part) /\ part \in Seq(Nat)
  BY <1>7, <1>8, JoinsMore DEF Torn
<1>10. fl \in Seq(Nat) /\ r.buffer \in Seq(Nat)
  BY <1>9 DEF Joins
<1>11. PICK a, b : a = SubSeq(fl, 1, n) /\ b = SubSeq(fl, n + 1, Len(fl))
  OBVIOUS
<1>12. a \in Seq(Nat) /\ b \in Seq(Nat) /\ fl = a \o b
  <2>1. /\ fl \in Seq(Nat) /\ n \in 0 .. Len(fl)
        /\ a = SubSeq(fl, 1, n) /\ b = SubSeq(fl, n + 1, Len(fl))
    BY <1>8, <1>10, <1>11
  <2>2. Joins(a, b, fl)
    BY ONLY <2>1, CutInTwo
  <2>. QED BY <2>2 DEF Joins
<1>13. PICK p : p = r.buffer \o a
  OBVIOUS
<1>14. p \in Seq(Nat) /\ p \o b = x \o part
  <2>1. p \in Seq(Nat)
    BY <1>10, <1>12, <1>13, ConcatProperties
  <2>2. (r.buffer \o a) \o b = r.buffer \o (a \o b)
    <3>1. PICK g : g = r.buffer
      OBVIOUS
    <3>2. g \in Seq(Nat)
      BY <1>10, <3>1
    <3>3. (g \o a) \o b = g \o (a \o b)
      BY <1>12, <3>2, CellsAssociative
    <3>. QED BY <3>1, <3>3
  <2>3. x \o part = r.buffer \o fl
    BY <1>9 DEF Joins
  <2>. QED BY <1>12, <1>13, <2>1, <2>2, <2>3
<1>15. PICK j \in 0 .. Len(w) : \E e : StartsWith(p, w, j, e)
  <2>1. PICK y : y = x \o part
    OBVIOUS
  <2>2. Joins(p, b, y) /\ Joins(FlattenSeq(w), part, y) /\ Torn(part)
    BY <1>4, <1>5, <1>9, <1>12, <1>14, <2>1 DEF Joins
  <2>. QED BY ONLY <1>5, <2>2, FirstPart
<1>15A. PICK e \in Seq(Nat) : Torn(e) /\ p = FlattenSeq(Some(w, j)) \o e
  BY <1>15 DEF StartsWith
<1>16. PICK u : u = [lo |-> s.lo, config |-> s.config, sent |-> h + j]
  OBVIOUS
<1>17. u \in Stories /\ u.lo = s.lo /\ u.config = s.config /\ u.sent = h + j /\ h <= u.sent
  <2>1. j \in Nat /\ s.lo \in Nat /\ s.config \in Nat
    BY <1>1, <1>2, <1>5 DEF Stories
  <2>2. h + j \in Nat /\ h <= h + j
    BY <2>1
  <2>. QED BY <1>16, <2>1, <2>2 DEF Stories
<1>18. UnderWay(u, h) = Some(w, j) /\ Upto(u) <= Upto(s)
  <2>1. j \in 0 .. s.sent - h
    BY <1>2, <1>5
  <2>. QED BY <1>1, <1>2, <1>4, <1>17, <2>1, UnderWaySome
<1>19. OnItsWay(u, q, e)
  BY <1>2, <1>8, <1>10, <1>11, <1>12, <1>13, <1>15A, <1>18 DEF OnItsWay, Joins
<1>20. Upto(u) <= Len(Script)
  BY <1>1, <1>17, <1>18, UptoType, ScriptLength
<1>21. ASSUME NEW k \in 1 .. Len(q.recorded) PROVE Is(q.recorded[k], Item(u, k))
  <2>1. Item(u, k) = Item(s, k)
    BY <1>17 DEF Item, After
  <2>2. k \in 1 .. Len(r.recorded)
    OBVIOUS
  <2>. QED BY <2>1, <2>2 DEF Carries
<1>22. Carries(u, q)
  BY <1>2, <1>17, <1>19, <1>20, <1>21 DEF Carries
<1>. QED BY <1>17, <1>18, <1>22

(* The message at the head of a session's buffer is the next item: it is   *)
(* taken, and read as what was written.                                    *)
Taken(s, r, m, body) ==
    /\ m.type \in Known /\ Decoded(m) = {body}
    /\ \A q :
          (/\ q.cut = r.cut /\ q.flight = r.flight
           /\ q.buffer = AfterMessage(r.buffer)
           /\ q.recorded = Append(r.recorded, [type |-> m.type, seq |-> m.seq, body |-> body]))
          => Carries(s, q)

(* A whole message in the buffer is the next item, and the rest is behind  *)
(* it.                                                                     *)
LEMMA NextItem ==
  ASSUME NEW s, NEW r, Carries(s, r), r.recorded \in Seq(Records), HasMessage(r.buffer),
         NEW h, h = Len(r.recorded)
  PROVE  /\ h \in Nat /\ h < s.sent
         /\ \E y, t : /\ Torn(t) /\ (~r.cut => t = <<>>)
                      /\ Joins(Coded(Item(s, h + 1)), y, r.buffer)
                      /\ Joins(y, r.flight, FlattenSeq(UnderWay(s, h + 1)) \o t)
<1>1. s \in Stories /\ Upto(s) <= Len(Script)
  BY DEF Carries
<1>2. h \in Nat /\ h <= s.sent /\ s.sent \in Nat
  BY LenProperties DEF Carries, Stories
<1>3. PICK t : OnItsWay(s, r, t) /\ (~r.cut => t = <<>>)
  BY DEF Carries
<1>4. PICK w, b, a : w = UnderWay(s, h) /\ b = r.buffer /\ a = r.flight
  OBVIOUS
<1>5. w \in Seq(Wholes) /\ Len(w) = s.sent - h
  BY <1>1, <1>2, <1>4, UnderWayType
<1>6. Joins(b, a, FlattenSeq(w) \o t) /\ Torn(t) /\ HasMessage(b)
  BY <1>3, <1>4 DEF OnItsWay
<1>7. w # <<>> /\ \E y : Joins(Head(w), y, b) /\ Joins(y, a, FlattenSeq(Tail(w)) \o t)
  BY <1>5, <1>6, HeadArrived
<1>8. Len(w) # 0
  BY <1>5, <1>7, EmptySeq
<1>9. h < s.sent
  BY <1>2, <1>5, <1>8
<1>10. Head(w) = Coded(Item(s, h + 1)) /\ Tail(w) = UnderWay(s, h + 1)
  BY <1>1, <1>2, <1>4, <1>9, UnderWayLess
<1>. QED BY <1>2, <1>3, <1>4, <1>6, <1>7, <1>9, <1>10

(* A message at the head of a buffer that is the item i is decoded as what *)
(* was written.                                                            *)
DecodedAs(b, m, body, i, y) ==
    /\ m.type \in Known /\ Decoded(m) = {body} /\ AfterMessage(b) = y
    /\ Is([type |-> m.type, seq |-> m.seq, body |-> body], i)

LEMMA ItemHandled ==
  ASSUME NEW i \in 0 .. Len(Script), NEW y, NEW b, Joins(Coded(i), y, b),
         NEW m, m = NextMessage(b)
  PROVE  \E body : DecodedAs(b, m, body, i, y)
<1>1. PICK type, seq, body : Reading(i, type, seq, body)
  BY ItemReads
<1>2. PICK w : w = Coded(i)
  OBVIOUS
<1>3. y \in Seq(Nat) /\ b = w \o y
  BY <1>2 DEF Joins
<1>4. ReadsAs(w, type, seq, body)
  BY <1>1, <1>2 DEF Reading
<1>5. /\ m.type = type /\ m.seq = seq /\ Decode(m) = {body}
      /\ AfterMessage(b) = y
  BY <1>3, <1>4 DEF ReadsAs
<1>6. type \in Known /\ (type = VideoConfig => body.json = Config.json)
  BY <1>1 DEF Reading
<1>7. Decoded(m) = {body}
  BY <1>5, <1>6 DEF Decoded
<1>8. Is([type |-> m.type, seq |-> m.seq, body |-> body], i)
  BY <1>1, <1>5 DEF Reading
<1>. QED BY <1>5, <1>6, <1>7, <1>8 DEF DecodedAs

(* One record more is the item it was read from.                           *)
LEMMA OneMoreIs ==
  ASSUME NEW s, NEW a \in Seq(Records), NEW h, h = Len(a), NEW g, g = h + 1,
         NEW e, Is(e, Item(s, g)), NEW c, c = Append(a, e)
  PROVE  /\ g \in Nat /\ Len(c) = g
         /\ \A k \in 1 .. g : (k # g => Is(a[k], Item(s, k))) => Is(c[k], Item(s, k))
<1>1. h \in Nat
  BY LenProperties
<1>2. PICK R : R = Records \cup {e}
  OBVIOUS
<1>3. a \in Seq(R) /\ e \in R
  BY <1>2
<1>4. Len(c) = h + 1 /\ c[h + 1] = e /\ \A k \in 1 .. h : c[k] = a[k]
  BY <1>1, <1>3, AppendProperties
<1>5. ASSUME NEW k \in 1 .. g, k # g => Is(a[k], Item(s, k)) PROVE Is(c[k], Item(s, k))
  <2>1. CASE k = g
    BY <1>4, <2>1
  <2>2. CASE k # g
    <3>1. k \in 1 .. h
      BY <1>1, <2>2
    <3>. QED BY <1>4, <1>5, <2>2, <3>1
  <2>. QED BY <2>1, <2>2
<1>. QED BY <1>1, <1>4, <1>5

(* The message handled is recorded as the next item.                       *)
LEMMA HandledCarries ==
  ASSUME NEW s, NEW r, Carries(s, r), r.recorded \in Seq(Records), HasMessage(r.buffer),
         NEW m, m = NextMessage(r.buffer)
  PROVE  \E body : Taken(s, r, m, body)
<1>1. s \in Stories /\ Upto(s) <= Len(Script)
  BY DEF Carries
<1>2. PICK h : h = Len(r.recorded)
  OBVIOUS
<1>3. h \in Nat /\ h < s.sent /\ s.sent \in Nat
  BY <1>1, <1>2, NextItem DEF Stories
<1>4. PICK y, t : /\ Torn(t) /\ (~r.cut => t = <<>>)
                  /\ Joins(Coded(Item(s, h + 1)), y, r.buffer)
                  /\ Joins(y, r.flight, FlattenSeq(UnderWay(s, h + 1)) \o t)
  BY <1>2, NextItem
<1>5. PICK g \in Nat : g = h + 1
  BY <1>3
<1>6. g \in 1 .. s.sent
  BY <1>3, <1>5
<1>7. PICK i : i = Item(s, g)
  OBVIOUS
<1>8. i \in 0 .. Len(Script)
  BY <1>1, <1>6, <1>7, ItemRange
<1>9. PICK b : b = r.buffer /\ Joins(Coded(i), y, b)
  BY <1>4, <1>5, <1>7
<1>10. PICK body : DecodedAs(b, m, body, i, y)
  BY <1>8, <1>9, ItemHandled
<1>11. PICK e : e = [type |-> m.type, seq |-> m.seq, body |-> body]
  OBVIOUS
<1>12. /\ m.type \in Known /\ Decoded(m) = {body} /\ AfterMessage(r.buffer) = y
       /\ Is(e, Item(s, g))
  BY <1>7, <1>9, <1>10, <1>11 DEF DecodedAs
<1>13. ASSUME NEW q, q.cut = r.cut, q.flight = r.flight, q.buffer = y,
              q.recorded = Append(r.recorded, e)
       PROVE  Carries(s, q)
  <2>1. PICK a, c : a = r.recorded /\ c = q.recorded
    OBVIOUS
  <2>2. /\ Len(c) = g
        /\ \A k \in 1 .. g : (k # g => Is(a[k], Item(s, k))) => Is(c[k], Item(s, k))
    BY <1>2, <1>5, <1>12, <1>13, <2>1, OneMoreIs
  <2>3. ASSUME NEW k \in 1 .. g, k # g PROVE Is(a[k], Item(s, k))
    <3>1. k \in 1 .. Len(r.recorded)
      BY <1>2, <1>3, <1>5, <2>3
    <3>. QED BY <2>1, <3>1 DEF Carries
  <2>4. \A k \in 1 .. g : Is(c[k], Item(s, k))
    BY <2>2, <2>3
  <2>5. Len(q.recorded) = g /\ g <= s.sent
    BY <1>3, <1>5, <2>1, <2>2
  <2>6. OnItsWay(s, q, t)
    BY <1>4, <1>5, <1>13, <2>5 DEF OnItsWay
  <2>7. \A k \in 1 .. Len(q.recorded) : Is(q.recorded[k], Item(s, k))
    BY <2>1, <2>4, <2>5
  <2>. QED BY <1>1, <1>4, <1>13, <2>5, <2>6, <2>7 DEF Carries
<1>. QED BY <1>11, <1>12, <1>13 DEF Taken

-----------------------------------------------------------------------------
(* The whole: which messages every connection so far has carried.          *)

Told(f, story) ==
    /\ story \in Seq(Stories) /\ Len(story) = Len(connections)
    /\ \A c \in 1 .. Len(connections) :
          Carries(story[c], connections[c]) /\ Upto(story[c]) <= f
    /\ \A c \in 1 .. Len(connections) : story[c].lo = first[c]
    /\ \A c, d \in 1 .. Len(connections) : c < d => Upto(story[c]) <= story[d].lo
    /\ connections # <<>> /\ ~connections[Current].cut =>
          /\ Upto(story[Current]) = f
          /\ sender = "on" /\ ~config_sent => story[Current].config = 0
    /\ connections = <<>> => f = 0
    /\ breaks = 0 /\ connections # <<>> => story[1].lo = 0

Cuts == {c \in 1 .. Len(connections) : connections[c].cut}
CutsCounted ==
    /\ Cardinality(Cuts) = breaks
    /\ breaks = 0 => Len(connections) <= 1 /\ (sender = "off" => connections = <<>>)

Tells(f) == \E story : Told(f, story)

(* A step on one connection leaves the others alone.                       *)
LEMMA Changed ==
  ASSUME connections \in Seq(Connections), NEW c, NEW r, ChangedTo(c, r)
  PROVE  /\ c \in 1 .. Len(connections) /\ r \in Connections
         /\ connections' \in Seq(Connections) /\ Len(connections') = Len(connections)
         /\ connections # <<>> /\ connections' # <<>> /\ Current' = Current
         /\ connections'[c] = r
         /\ \A d \in 1 .. Len(connections) : d # c => connections'[d] = connections[d]
<1>1. /\ c \in 1 .. Len(connections) /\ r \in Connections
      /\ connections' = [connections EXCEPT ![c] = r]
  BY DEF ChangedTo
<1>2. PICK v : v = [connections EXCEPT ![c] = r]
  OBVIOUS
<1>3. /\ v \in Seq(Connections) /\ Len(v) = Len(connections) /\ v[c] = r
      /\ \A d \in 1 .. Len(connections) : d # c => v[d] = connections[d]
  BY <1>1, <1>2, SetOnce
<1>4. Len(connections) # 0 /\ Len(v) # 0
  BY <1>1, <1>3
<1>5. connections # <<>> /\ v # <<>>
  BY <1>4, EmptySeq
<1>. QED BY <1>1, <1>2, <1>3, <1>5 DEF Current

LEMMA CutsFinite ==
  ASSUME connections \in Seq(Connections)
  PROVE  IsFiniteSet(Cuts)
<1>1. PICK n \in Int : n = Len(connections)
  BY LenProperties
<1>2. PICK I : I = 1 .. n /\ IsFiniteSet(I)
  BY FS_Interval
<1>3. Cuts \in SUBSET I
  BY <1>1, <1>2 DEF Cuts
<1>. QED BY <1>2, <1>3, FS_Subset

(* A step that cuts nothing leaves the count,                              *)
LEMMA CutsKept ==
  ASSUME connections \in Seq(Connections), NEW c, NEW r, ChangedTo(c, r),
         r.cut = connections[c].cut
  PROVE  Cuts' = Cuts
<1>1. /\ Len(connections') = Len(connections) /\ c \in 1 .. Len(connections)
      /\ connections'[c] = r
      /\ \A d \in 1 .. Len(connections) : d # c => connections'[d] = connections[d]
  BY Changed
<1>2. ASSUME NEW d \in 1 .. Len(connections) PROVE connections'[d].cut = connections[d].cut
  <2>1. CASE d = c
    BY <1>1, <2>1
  <2>2. CASE d # c
    BY <1>1, <2>2
  <2>. QED BY <2>1, <2>2
<1>. QED BY <1>1, <1>2 DEF Cuts

(* a cut is one more,                                                      *)
LEMMA CutsMore ==
  ASSUME connections \in Seq(Connections), NEW c, NEW r, ChangedTo(c, r),
         ~connections[c].cut, r.cut
  PROVE  Cardinality(Cuts') = Cardinality(Cuts) + 1
<1>1. /\ Len(connections') = Len(connections) /\ c \in 1 .. Len(connections)
      /\ connections'[c] = r
      /\ \A d \in 1 .. Len(connections) : d # c => connections'[d] = connections[d]
  BY Changed
<1>2. PICK S, T : S = Cuts /\ T = Cuts'
  OBVIOUS
<1>3. c \notin S /\ c \in T
  BY <1>1, <1>2 DEF Cuts
<1>4. ASSUME NEW d, d # c PROVE d \in S <=> d \in T
  BY <1>1, <1>2, <1>4 DEF Cuts
<1>5. T = S \cup {c}
  BY <1>3, <1>4
<1>6. IsFiniteSet(S)
  BY <1>2, CutsFinite
<1>. QED BY <1>2, <1>3, <1>5, <1>6, FS_AddElement

(* and a new connection is not cut.                                        *)
LEMMA CutsAppended ==
  ASSUME connections \in Seq(Connections), connections' = Append(connections, NewConnection)
  PROVE  Cuts' = Cuts
<1>0. PICK n \in Nat : n = Len(connections)
  BY LenProperties
<1>1. PICK v : n = Len(connections) /\ v = Append(connections, NewConnection)
  BY <1>0
<1>2. PICK e \in Connections : e = NewConnection
  BY NewConnectionType
<1>3. Len(v) = n + 1 /\ v[n + 1] = e /\ \A d \in 1 .. n : v[d] = connections[d]
  BY <1>1, <1>2, AppendProperties
<1>4. ~e.cut
  BY <1>2 DEF NewConnection
<1>5. ASSUME NEW d PROVE d \in 1 .. n + 1 /\ v[d].cut <=> d \in 1 .. n /\ connections[d].cut
  <2>1. CASE d \in 1 .. n
    BY <1>3, <2>1
  <2>2. CASE d \notin 1 .. n
    <3>1. d \in 1 .. n + 1 => d = n + 1
      BY <2>2
    <3>. QED BY <1>3, <1>4, <2>2, <3>1
  <2>. QED BY <2>1, <2>2
<1>6. Cuts' = {d \in 1 .. n + 1 : v[d].cut}
  BY <1>1, <1>3 DEF Cuts
<1>7. Cuts = {d \in 1 .. n : connections[d].cut}
  BY <1>1 DEF Cuts
<1>. QED BY <1>5, <1>6, <1>7

(* The stories stay what they are when the connections do.                 *)
LEMMA ToldSame ==
  ASSUME connections \in Seq(Connections), connections' = connections, first' = first,
         NEW f \in Nat, NEW e \in Nat, f <= e, Tells(f),
         breaks' = 0 => breaks = 0, connections = <<>> => e = f,
         connections # <<>> /\ ~connections[Current].cut =>
            e = f /\ (sender' = "on" /\ ~config_sent' => sender = "on" /\ ~config_sent)
  PROVE  Tells(e)'
<1>1. PICK story : Told(f, story)
  BY DEF Tells
<1>2. Current' = Current
  BY DEF Current
<1>3. ASSUME NEW c \in 1 .. Len(connections) PROVE Upto(story[c]) <= e
  <2>1. Upto(story[c]) <= f /\ story[c] \in Stories
    BY <1>1 DEF Told, Carries
  <2>2. Upto(story[c]) \in Nat
    BY <2>1, UptoType
  <2>. QED BY <2>1, <2>2
<1>4. Told(e, story)'
  BY <1>1, <1>2, <1>3 DEF Told
<1>. QED BY <1>4 DEF Tells

(* One story changes with its connection.                                  *)
LEMMA ToldChanged ==
  ASSUME connections \in Seq(Connections), NEW c, NEW r, ChangedTo(c, r), first' = first,
         NEW f \in Nat, NEW e \in Nat, f <= e, NEW story, Told(f, story),
         NEW u, Carries(u, r), u.lo = story[c].lo, Upto(u) <= e,
         c = Current \/ Upto(u) <= Upto(story[c]),
         breaks' = 0 => breaks = 0,
         c = Current /\ ~r.cut =>
            Upto(u) = e /\ (sender' = "on" /\ ~config_sent' => u.config = 0),
         c # Current => e = f /\ sender' = sender /\ config_sent' = config_sent
  PROVE  Tells(e)'
<1>1. /\ c \in 1 .. Len(connections) /\ r \in Connections
      /\ Len(connections') = Len(connections)
      /\ connections # <<>> /\ connections' # <<>> /\ Current' = Current
      /\ connections'[c] = r
      /\ \A d \in 1 .. Len(connections) : d # c => connections'[d] = connections[d]
  BY Changed
<1>2. PICK n \in Nat : n = Len(connections)
  BY LenProperties
<1>3. u \in Stories
  BY DEF Carries
<1>4. PICK v : v = [story EXCEPT ![c] = u]
  OBVIOUS
<1>5. /\ v \in Seq(Stories) /\ Len(v) = n /\ v[c] = u
      /\ \A d \in 1 .. n : d # c => v[d] = story[d]
  <2>1. story \in Seq(Stories) /\ Len(story) = n
    BY <1>2 DEF Told
  <2>2. /\ [story EXCEPT ![c] = u] \in Seq(Stories) /\ Len([story EXCEPT ![c] = u]) = Len(story)
        /\ \A d \in 1 .. Len(story) : [story EXCEPT ![c] = u][d] = IF d = c THEN u ELSE story[d]
    BY <1>1, <1>2, <1>3, <2>1, ExceptSeq
  <2>. QED BY <1>1, <1>2, <1>4, <2>1, <2>2
<1>6. ASSUME NEW d \in 1 .. n PROVE story[d] \in Stories /\ Upto(story[d]) \in Nat
  BY <1>2, UptoType DEF Told, Carries
<1>7. ASSUME NEW d \in 1 .. n PROVE Carries(v[d], connections'[d]) /\ Upto(v[d]) <= e
  <2>1. CASE d = c
    BY <1>1, <1>5, <2>1
  <2>2. CASE d # c
    <3>1. v[d] = story[d] /\ connections'[d] = connections[d]
      BY <1>1, <1>2, <1>5, <2>2
    <3>2. Carries(story[d], connections[d]) /\ Upto(story[d]) <= f
      BY <1>2 DEF Told
    <3>. QED BY <1>6, <3>1, <3>2
  <2>. QED BY <2>1, <2>2
<1>8. ASSUME NEW a \in 1 .. n, NEW b \in 1 .. n, a < b PROVE Upto(v[a]) <= v[b].lo
  <2>1. Upto(story[a]) <= story[b].lo
    BY <1>2, <1>8 DEF Told
  <2>2. v[b].lo = story[b].lo
    BY <1>5
  <2>3. CASE a = c
    <3>1. Upto(u) <= Upto(story[a])
      BY <1>2, <1>8, <2>3 DEF Current
    <3>2. story[b].lo \in Nat /\ Upto(u) \in Nat /\ Upto(story[a]) \in Nat
      BY <1>3, <1>6, UptoType
    <3>. QED BY <1>5, <2>1, <2>2, <2>3, <3>1, <3>2
  <2>4. CASE a # c
    BY <1>5, <2>1, <2>2, <2>4
  <2>. QED BY <2>3, <2>4
<1>9. ASSUME ~connections'[Current].cut
      PROVE  Upto(v[Current]) = e /\ (sender' = "on" /\ ~config_sent' => v[Current].config = 0)
  <2>1. CASE c = Current
    BY <1>1, <1>5, <1>9, <2>1
  <2>2. CASE c # Current
    <3>1. PICK d \in 1 .. n : d = Current
      BY <1>1, <1>2 DEF Current
    <3>2. v[d] = story[d] /\ connections'[d] = connections[d]
      BY <1>1, <1>2, <1>5, <2>2, <3>1
    <3>3. Upto(story[d]) = f /\ (sender = "on" /\ ~config_sent => story[d].config = 0)
      BY <1>1, <1>9, <3>1, <3>2 DEF Told
    <3>. QED BY <2>2, <3>1, <3>2, <3>3
  <2>. QED BY <2>1, <2>2
<1>10. breaks' = 0 => v[1].lo = 0
  <2>1. 1 \in 1 .. n
    BY <1>1, <1>2
  <2>2. v[1].lo = story[1].lo
    BY <1>5, <2>1
  <2>3. breaks = 0 => story[1].lo = 0
    BY <1>1 DEF Told
  <2>. QED BY <2>2, <2>3
<1>10A. ASSUME NEW d \in 1 .. n PROVE v[d].lo = first[d]
  <2>1. story[d].lo = first[d]
    BY <1>2 DEF Told
  <2>2. CASE d = c
    BY <1>5, <2>1, <2>2
  <2>3. CASE d # c
    BY <1>5, <2>1, <2>3
  <2>. QED BY <2>2, <2>3
<1>11. Told(e, v)'
  BY <1>1, <1>2, <1>5, <1>7, <1>8, <1>9, <1>10, <1>10A DEF Told
<1>. QED BY <1>11 DEF Tells

(* A new connection has its story start where the last may have ended.     *)
LEMMA ToldAppended ==
  ASSUME connections \in Seq(Connections), connections' = Append(connections, NewConnection),
         NEW f \in Nat, f <= Len(Script), Tells(f), first' = Append(first, f),
         first \in Seq(Nat), Len(first) = Len(connections),
         breaks' = breaks, breaks = 0 => connections = <<>>
  PROVE  Tells(f)'
<1>0. PICK n \in Nat : n = Len(connections)
  BY LenProperties
<1>1. PICK w : n = Len(connections) /\ w = Append(connections, NewConnection)
  BY <1>0
<1>2. PICK r \in Connections : r = NewConnection
  BY NewConnectionType
<1>3. w \in Seq(Connections) /\ Len(w) = n + 1 /\ w[n + 1] = r
      /\ \A d \in 1 .. n : w[d] = connections[d]
  BY <1>1, <1>2, AppendProperties
<1>4. PICK story : Told(f, story)
  BY DEF Tells
<1>5. PICK u : u = [lo |-> f, config |-> 0, sent |-> 0]
  OBVIOUS
<1>6. Carries(u, r) /\ Upto(u) = f /\ u \in Stories /\ u.lo = f /\ u.config = 0
  BY <1>2, <1>5, NewCarries
<1>7. PICK v : v = Append(story, u)
  OBVIOUS
<1>8. story \in Seq(Stories) /\ Len(story) = n
  BY <1>1, <1>4 DEF Told
<1>9. /\ v \in Seq(Stories) /\ Len(v) = n + 1 /\ v[n + 1] = u
      /\ \A d \in 1 .. n : v[d] = story[d]
  <2>1. u \in Stories /\ story \in Seq(Stories) /\ Len(story) = n
    BY <1>6, <1>8
  <2>2. /\ Append(story, u) \in Seq(Stories) /\ Len(Append(story, u)) = Len(story) + 1
        /\ Append(story, u)[Len(story) + 1] = u
        /\ \A d \in 1 .. Len(story) : Append(story, u)[d] = story[d]
    BY <2>1, AppendProperties
  <2>. QED BY ONLY <1>7, <2>1, <2>2
<1>10. connections' = w /\ Current' = n + 1 /\ w # <<>>
  <2>1. Len(w) # 0
    BY <1>1, <1>3
  <2>. QED BY <1>1, <1>3, <2>1, EmptySeq DEF Current
<1>11. ASSUME NEW d \in 1 .. n + 1 PROVE Carries(v[d], w[d]) /\ Upto(v[d]) <= f
  <2>1. CASE d = n + 1
    BY <1>3, <1>6, <1>9, <2>1
  <2>2. CASE d # n + 1
    <3>1. d \in 1 .. n
      BY <2>2
    <3>2. Carries(story[d], connections[d]) /\ Upto(story[d]) <= f
      BY <1>1, <1>4, <3>1 DEF Told
    <3>. QED BY <1>3, <1>9, <3>1, <3>2
  <2>. QED BY <2>1, <2>2
<1>12. ASSUME NEW a \in 1 .. n + 1, NEW b \in 1 .. n + 1, a < b PROVE Upto(v[a]) <= v[b].lo
  <2>1. a \in 1 .. n
    BY <1>12
  <2>2. CASE b = n + 1
    BY <1>6, <1>9, <1>11, <2>2
  <2>3. CASE b # n + 1
    <3>1. b \in 1 .. n
      BY <2>3
    <3>2. Upto(story[a]) <= story[b].lo
      BY <1>1, <1>4, <1>12, <2>1, <3>1 DEF Told
    <3>. QED BY <1>9, <2>1, <3>1, <3>2
  <2>. QED BY <2>2, <2>3
<1>13. breaks = 0 => v[1].lo = 0
  <2>. SUFFICES ASSUME breaks = 0 PROVE v[1].lo = 0
    OBVIOUS
  <2>1. connections = <<>> /\ f = 0
    BY <1>4 DEF Told
  <2>2. n = 0
    BY <1>1, <2>1, EmptySeq
  <2>. QED BY <1>6, <1>9, <2>1, <2>2
<1>13A. ASSUME NEW d \in 1 .. n + 1 PROVE v[d].lo = first'[d]
  <2>1. PICK x : x = Append(first, f)
    OBVIOUS
  <2>2. x[n + 1] = f /\ \A k \in 1 .. n : x[k] = first[k]
    BY <1>1, <2>1, AppendProperties
  <2>3. CASE d = n + 1
    BY <1>6, <1>9, <2>1, <2>2, <2>3
  <2>4. CASE d # n + 1
    <3>1. d \in 1 .. n
      BY <2>4
    <3>2. story[d].lo = first[d]
      BY <1>1, <1>4, <3>1 DEF Told
    <3>. QED BY <1>9, <2>1, <2>2, <3>1, <3>2
  <2>. QED BY <2>3, <2>4
<1>13B. \A d \in 1 .. Len(connections') : v[d].lo = first'[d]
  BY <1>3, <1>10, <1>13A
<1>13C. \A d \in 1 .. Len(connections') : Carries(v[d], connections'[d]) /\ Upto(v[d]) <= f
  BY <1>3, <1>10, <1>11
<1>13D. \A a, b \in 1 .. Len(connections') : a < b => Upto(v[a]) <= v[b].lo
  BY <1>3, <1>10, <1>12
<1>13E. Upto(v[Current']) = f /\ v[Current'].config = 0
  BY <1>6, <1>9, <1>10
<1>13F. v \in Seq(Stories) /\ Len(v) = Len(connections') /\ connections' # <<>>
  BY <1>3, <1>9, <1>10
<1>14. Told(f, v)'
  BY <1>13, <1>13B, <1>13C, <1>13D, <1>13E, <1>13F DEF Told
<1>. QED BY <1>14 DEF Tells

(* The next to send is the message after the last one sent, until it is the*)
(* damaged one.                                                            *)
LEMMA NextIs ==
  ASSUME QueueInv, NEW f, NEW g, Holds(f, g), damage = 0 \/ f < damage - 1, HasNext
  PROVE  f \in Nat /\ f + 1 \in 1 .. Len(Script) /\ NextToSend = Encoded(Script[f + 1])
<1>0. PhoneTypes /\ SpoolCounts
  BY DEF QueueInv
<1>1. PICK w \in Nat : /\ w = Whole /\ w <= Len(Script)
                       /\ (damage # 0 => w = damage - 1)
  BY <1>0, WholeType
<1>2. /\ f \in Nat /\ g \in Nat /\ f <= g /\ g <= w /\ g <= Len(Script) /\ Len(Script) \in Nat
      /\ memory_queue_ = Messages(f, g)
  BY <1>0, <1>1, HoldsOut, ScriptLength
<1>3. CASE memory_queue_ # <<>>
  <2>1. f < g
    BY <1>2, <1>3, NoMessages
  <2>2. Head(Messages(f, g)) = Encoded(Script[f + 1])
    BY <1>2, <2>1, MessagesFirst
  <2>. QED BY <1>2, <1>3, <2>1, <2>2 DEF NextToSend
<1>4. CASE memory_queue_ = <<>>
  <2>1. spool_write_file_
    BY <1>0, <1>4 DEF HasNext, SpoolReadable, SpoolUnread, SpoolCounts
  <2>2. f = g /\ (g < Whole \/ (damage # 0 /\ f = damage - 1))
    BY <1>4, <2>1, HoldsRead
  <2>3. f = g /\ g < w
    BY <1>0, <1>1, <1>2, <2>2 DEF PhoneTypes
  <2>4. PICK h \in Nat : h = g + 1
    BY <1>2
  <2>5. PICK rest, extra : Spooled(g, rest, extra)
    BY <1>0, HoldsOut
  <2>6. SpoolMessage = Encoded(Script[h])
    BY <1>0, <1>1, <1>2, <2>3, <2>4, <2>5, SpooledMessage
  <2>. QED BY <1>1, <1>2, <1>4, <2>3, <2>4, <2>6 DEF NextToSend
<1>. QED BY <1>3, <1>4

(* Whatever is next to send has the length its header says.                *)
LEMMA NextWhole ==
  ASSUME QueueInv, HasNext
  PROVE  NextToSend \in Wholes
<1>0. MemoryWhole /\ SpoolCounts
  BY DEF QueueInv
<1>1. CASE memory_queue_ # <<>>
  <2>1. PICK q, W : q = memory_queue_ /\ W = Wholes
    OBVIOUS
  <2>2. q \in Seq(W) /\ q # <<>>
    BY <1>0, <1>1, <2>1 DEF MemoryWhole
  <2>3. Head(q) \in W
    BY <2>2, HeadThenTail
  <2>. QED BY <1>1, <2>1, <2>3 DEF NextToSend
<1>2. CASE memory_queue_ = <<>>
  <2>1. unread \in Seq(Nat) /\ HasHeader(unread)
    BY <1>0, <1>2 DEF HasNext, SpoolReadable, SpoolCounts
  <2>2. SpoolMessage \in Wholes
    BY <2>1, SpoolMessageWhole
  <2>. QED BY <1>2, <2>2 DEF NextToSend
<1>. QED BY <1>1, <1>2

(* The story of the current connection, which is not cut.                  *)
LEMMA CurrentStory ==
  ASSUME connections \in Seq(Connections), connections # <<>>, NEW f, NEW story, Told(f, story),
         ~connections[Current].cut, NEW r, r = connections[Current],
         NEW s, s = story[Current]
  PROVE  /\ Current \in 1 .. Len(connections)
         /\ Carries(s, r) /\ s \in Stories /\ Upto(s) = f /\ s.config <= s.sent
         /\ r.recorded \in Seq(Records) /\ r.flight \in Seq(Nat)
         /\ sender = "on" /\ ~config_sent => s.config = 0
<1>1. PICK c : c = Current
  OBVIOUS
<1>2. c \in 1 .. Len(connections)
  BY <1>1, FlightType
<1>3. r \in Connections
  BY <1>1, <1>2, ElementOfSeq
<1>4. Carries(s, r)
  BY <1>1, <1>2 DEF Told
<1>5. Upto(s) = f /\ (sender = "on" /\ ~config_sent => s.config = 0)
  BY DEF Told
<1>. QED BY <1>1, <1>2, <1>3, <1>4, <1>5 DEF Carries, Connections

(* The config sent is the next item of the current story.                  *)
LEMMA ConfigTold ==
  ASSUME connections \in Seq(Connections), connections # <<>>,
         NEW f \in Nat, Tells(f), SendConfig
  PROVE  Tells(f)'
<1>1. /\ sender = "on" /\ ~config_sent /\ SendAll(EncodedConfig)
      /\ config_sent' = TRUE /\ sender' = sender /\ breaks' = breaks /\ first' = first
  BY DEF SendConfig, historyVars
<1>2. CASE connections[Current].cut /\ UNCHANGED connections
  BY <1>1, <1>2, ToldSame
<1>3. ASSUME NEW q \in Connections, ~connections[Current].cut, ChangedTo(Current, q),
             ~q.cut, q.flight = connections[Current].flight \o EncodedConfig,
             q.buffer = connections[Current].buffer, q.recorded = connections[Current].recorded
      PROVE  Tells(f)'
  <2>1. PICK story : Told(f, story)
    BY DEF Tells
  <2>2. PICK s, r : s = story[Current] /\ r = connections[Current]
    OBVIOUS
  <2>3. /\ Carries(s, r) /\ s \in Stories /\ Upto(s) = f /\ s.config = 0
        /\ r.recorded \in Seq(Records)
    BY <1>1, <1>3, <2>1, <2>2, CurrentStory
  <2>4. PICK n \in Nat, a \in Nat : n = s.sent /\ a = s.lo
    BY <2>3 DEF Stories
  <2>5. PICK u : u = [lo |-> a, config |-> n + 1, sent |-> n + 1]
    OBVIOUS
  <2>6. u \in Stories /\ u.lo = a /\ u.config = n + 1 /\ u.sent = n + 1
    BY <2>4, <2>5 DEF Stories
  <2>7. ASSUME NEW k \in 1 .. n PROVE Item(u, k) = Item(s, k)
    <3>1. u.config \notin 1 .. k /\ s.config \notin 1 .. k /\ k # u.config /\ k # s.config
      BY <2>3, <2>4, <2>6
    <3>. QED BY <2>4, <2>6, <3>1 DEF Item, After
  <2>8. Upto(u) = Upto(s)
    <3>1. u.config \in 1 .. u.sent /\ s.config \notin 1 .. s.sent
      BY <2>3, <2>4, <2>6
    <3>2. Upto(u) = a + (n + 1) - 1 /\ Upto(s) = a + n - 0
      BY <2>4, <2>6, <3>1 DEF Upto, After
    <3>. QED BY <2>4, <3>2
  <2>9. Item(u, u.sent) = 0
    BY <2>6 DEF Item
  <2>10. EncodedConfig = Coded(Item(u, u.sent))
    BY <2>9 DEF Coded
  <2>11. PICK e : e = EncodedConfig
    OBVIOUS
  <2>12. /\ u.sent = s.sent + 1 /\ u.config <= u.sent /\ Upto(s) <= Upto(u)
         /\ Upto(u) <= Len(Script) /\ Upto(u) = f
         /\ \A k \in 1 .. s.sent : Item(u, k) = Item(s, k)
    <3>1. Upto(s) <= Len(Script)
      BY <2>3 DEF Carries
    <3>. QED BY <2>3, <2>4, <2>6, <2>7, <2>8, <3>1
  <2>13. Carries(u, q)
    BY <1>3, <2>2, <2>3, <2>6, <2>10, <2>11, <2>12, SentCarries
  <2>14. f <= f /\ u.lo = story[Current].lo /\ Upto(u) <= f
    BY <2>2, <2>4, <2>6, <2>12
  <2>. QED BY <1>1, <1>3, <2>1, <2>12, <2>13, <2>14, ToldChanged
<1>. QED BY <1>1, <1>2, <1>3, ConfigType, SendEffect

(* The message sent is the next item of the current story.                 *)
LEMMA MessageTold ==
  ASSUME connections \in Seq(Connections), connections # <<>>,
         NEW f \in Nat, Tells(f), SendNext, NEW e \in Nat, e = f + 1, e \in 1 .. Len(Script),
         NextToSend = Encoded(Script[e])
  PROVE  Tells(e)'
<1>0. PICK cells : cells = NextToSend
  OBVIOUS
<1>1. /\ SendAll(cells) /\ config_sent' = config_sent
      /\ sender' = sender /\ breaks' = breaks /\ first' = first
  BY <1>0 DEF SendNext
<1>1A. cells \in Seq(Nat)
  BY <1>0, MessageShape
<1>2. CASE connections[Current].cut /\ UNCHANGED connections
  BY <1>1, <1>2, ToldSame
<1>3. ASSUME NEW q \in Connections, ~connections[Current].cut, ChangedTo(Current, q),
             ~q.cut, q.flight = connections[Current].flight \o cells,
             q.buffer = connections[Current].buffer, q.recorded = connections[Current].recorded
      PROVE  Tells(e)'
  <2>1. PICK story : Told(f, story)
    BY DEF Tells
  <2>2. PICK s, r : s = story[Current] /\ r = connections[Current]
    OBVIOUS
  <2>3. /\ Carries(s, r) /\ s \in Stories /\ Upto(s) = f /\ s.config <= s.sent
        /\ r.recorded \in Seq(Records)
        /\ sender = "on" /\ ~config_sent => s.config = 0
    BY <1>3, <2>1, <2>2, CurrentStory
  <2>4. PICK n \in Nat, a \in Nat, b \in Nat : n = s.sent /\ a = s.lo /\ b = s.config
    BY <2>3 DEF Stories
  <2>5. PICK u : u = [lo |-> a, config |-> b, sent |-> n + 1]
    OBVIOUS
  <2>6. u \in Stories /\ u.lo = a /\ u.config = b /\ u.sent = n + 1
    BY <2>4, <2>5 DEF Stories
  <2>7. ASSUME NEW k \in 1 .. n PROVE Item(u, k) = Item(s, k)
    BY <2>4, <2>6 DEF Item, After
  <2>8. Upto(u) = e /\ Item(u, u.sent) = e
    <3>1. b # n + 1 /\ (b \in 1 .. n + 1 <=> b \in 1 .. n)
      BY <2>3, <2>4
    <3>1A. PICK d \in Nat : d = IF b \in 1 .. n THEN 1 ELSE 0
      OBVIOUS
    <3>2. Upto(s) = a + n - d
      BY <2>4, <3>1A DEF Upto, After
    <3>3. Upto(u) = a + (n + 1) - d
      <4>1. CASE b \in 1 .. n
        <5>1. b \in 1 .. n + 1 /\ d = 1
          BY <3>1, <3>1A, <4>1
        <5>2. Upto(u) = a + (n + 1) - 1
          BY <2>6, <5>1 DEF Upto, After
        <5>. QED BY <5>1, <5>2
      <4>2. CASE b \notin 1 .. n
        <5>1. b \notin 1 .. n + 1 /\ d = 0
          BY <3>1, <3>1A, <4>2
        <5>2. Upto(u) = a + (n + 1) - 0
          BY <2>6, <5>1 DEF Upto, After
        <5>. QED BY <5>1, <5>2
      <4>. QED BY <4>1, <4>2
    <3>4. Upto(u) = Upto(s) + 1
      <4>1. PICK x, y : x = Upto(s) /\ y = Upto(u)
        OBVIOUS
      <4>2. x = a + n - d /\ y = a + (n + 1) - d /\ a \in Nat /\ n \in Nat /\ d \in Nat
        BY <2>4, <3>1A, <3>2, <3>3, <4>1
      <4>3. y = x + 1
        BY ONLY <4>2
      <4>. QED BY <4>1, <4>3
    <3>5. Item(u, u.sent) = Upto(u)
      BY <2>6, <3>1 DEF Item, Upto
    <3>. QED BY <2>3, <3>4, <3>5
  <2>9. cells = Coded(Item(u, u.sent))
    BY <1>0, <2>8 DEF Coded
  <2>10. /\ u.sent = s.sent + 1 /\ u.config <= u.sent /\ Upto(s) <= Upto(u)
         /\ Upto(u) <= Len(Script) /\ Upto(u) <= e
         /\ \A k \in 1 .. s.sent : Item(u, k) = Item(s, k)
    BY <2>3, <2>4, <2>6, <2>7, <2>8, ScriptLength
  <2>11. Carries(u, q)
    BY <1>3, <2>2, <2>3, <2>6, <2>9, <2>10, SentCarries
  <2>12. sender' = "on" /\ ~config_sent' => u.config = 0
    BY <1>1, <2>3, <2>4, <2>6
  <2>13. f <= e /\ u.lo = story[Current].lo
    BY <2>2, <2>4, <2>6
  <2>. QED BY <1>1, <1>3, <2>1, <2>8, <2>10, <2>11, <2>12, <2>13, ToldChanged
<1>. QED BY <1>1, <1>1A, <1>2, <1>3, SendEffect

(* A connection that is cut carries no more than it did.                   *)
LEMMA CutTold ==
  ASSUME connections \in Seq(Connections), connections # <<>>, breaks \in Nat,
         first' = first, NEW f \in Nat, Tells(f), NEW part, Torn(part),
         NEW flight, flight = connections[Current].flight \o part, CutOff(flight)
  PROVE  /\ Tells(f)' /\ breaks' = breaks + 1 /\ Cardinality(Cuts') = Cardinality(Cuts) + 1
<1>1. ~connections[Current].cut
  BY DEF CutOff
<1>2. PICK story : Told(f, story)
  BY DEF Tells
<1>3. PICK s, r : s = story[Current] /\ r = connections[Current]
  OBVIOUS
<1>4. /\ Carries(s, r) /\ Upto(s) = f /\ s \in Stories
      /\ r.recorded \in Seq(Records) /\ r.flight \in Seq(Nat)
  BY <1>1, <1>2, <1>3, CurrentStory
<1>5. flight = r.flight \o part /\ flight \in Seq(Nat)
  BY <1>3, <1>4, ConcatProperties DEF Torn
<1>6. /\ breaks' = breaks + 1
      /\ \E n \in 0 .. Len(flight), q \in Connections :
            /\ ChangedTo(Current, q)
            /\ q.cut /\ q.flight = SubSeq(flight, 1, n)
            /\ q.buffer = r.buffer /\ q.recorded = r.recorded
  BY <1>3, <1>5, CutEffect
<1>7. PICK n \in 0 .. Len(flight), q \in Connections :
            /\ ChangedTo(Current, q)
            /\ q.cut /\ q.flight = SubSeq(flight, 1, n)
            /\ q.buffer = r.buffer /\ q.recorded = r.recorded
  BY <1>6
<1>8. ~r.cut
  BY <1>1, <1>3
<1>9. PICK u : Carries(u, q) /\ u.lo = s.lo /\ Upto(u) <= Upto(s)
  BY <1>4, <1>5, <1>7, <1>8, CutCarries
<1>10. breaks' # 0 /\ f <= f
  BY <1>6
<1>11. Tells(f)'
  <2>1. u.lo = story[Current].lo /\ Upto(u) <= f /\ Upto(u) <= Upto(story[Current])
    BY <1>3, <1>4, <1>9
  <2>. QED BY <1>2, <1>7, <1>9, <1>10, <2>1, ToldChanged
<1>12. Cardinality(Cuts') = Cardinality(Cuts) + 1
  BY <1>1, <1>7, CutsMore
<1>. QED BY <1>6, <1>11, <1>12

(* The part of a message that a failed send has handed on is no message.   *)
LEMMA PartOfWhole ==
  ASSUME NEW cells \in Wholes,
         NEW k \in 0 .. Len(cells) - 1, NEW part, part = SubSeq(cells, 1, k)
  PROVE  Torn(part)
<1>1. cells \in Wholes /\ cells \in Seq(Nat)
  BY DEF Wholes
<1>2. PICK l \in Nat : l = Len(cells) /\ k \in 0 .. l /\ k < l
  BY <1>1, LenIsNat
<1>3. PICK b : b = SubSeq(cells, k + 1, l)
  OBVIOUS
<1>4. k \in 0 .. Len(cells) /\ b = SubSeq(cells, k + 1, Len(cells))
  BY <1>2, <1>3
<1>5. Joins(part, b, cells)
  BY ONLY <1>1, <1>4, part = SubSeq(cells, 1, k), CutInTwo
<1>6. part \in Seq(Nat) /\ b \in Seq(Nat) /\ cells = part \o b
  BY <1>5 DEF Joins
<1>7. b # <<>>
  <2>1. \A j \in 1 .. k : cells[j] \in Nat
    BY <1>1, <1>2, ElementOfSeq
  <2>2. k \in Nat /\ Len(part) = k
    BY <1>2, <2>1, SubSeqProperties
  <2>3. Len(cells) = Len(part) + Len(b) /\ Len(b) \in Nat
    BY <1>6, ConcatProperties, LenIsNat
  <2>4. Len(b) # 0
    BY <1>2, <2>2, <2>3
  <2>. QED BY <2>4, EmptySeq
<1>. QED BY <1>1, <1>6, <1>7, PartIsTorn

(* A session, or the end of a connection, that leaves the rest alone.      *)
LEMMA SessionTold ==
  ASSUME connections \in Seq(Connections), NEW c, NEW q, ChangedTo(c, q),
         q.cut = connections[c].cut, first' = first,
         NEW f \in Nat, NEW story, Told(f, story), Carries(story[c], q),
         breaks' = breaks,
         sender' = "done" \/ (sender' = sender /\ config_sent' = config_sent),
         c = Current \/ (sender' = sender /\ config_sent' = config_sent)
  PROVE  Tells(f)' /\ Cuts' = Cuts
<1>1. PICK u : u = story[c]
  OBVIOUS
<1>2. c \in 1 .. Len(connections) /\ connections # <<>>
  BY Changed
<1>3. Carries(u, q) /\ Upto(u) <= f /\ u \in Stories /\ Upto(u) \in Nat
  BY <1>1, <1>2, UptoType DEF Told, Carries
<1>4. f <= f /\ Upto(u) <= Upto(u)
  BY <1>3
<1>5. ASSUME c = Current, ~q.cut
      PROVE  Upto(u) = f /\ (sender' = "on" /\ ~config_sent' => u.config = 0)
  <2>1. ~connections[Current].cut /\ u = story[Current]
    BY <1>1, <1>5
  <2>2. Upto(u) = f /\ (sender = "on" /\ ~config_sent => u.config = 0)
    BY <1>2, <2>1 DEF Told
  <2>. QED BY <2>2
<1>6. Tells(f)'
  BY <1>1, <1>3, <1>4, <1>5, ToldChanged
<1>7. Cuts' = Cuts
  BY CutsKept
<1>. QED BY <1>6, <1>7

(* What the server does changes no story.                                  *)
LEMMA SessionsTold ==
  ASSUME connections \in Seq(Connections), NEW f \in Nat, Tells(f), Sessions
  PROVE  Tells(f)' /\ Cuts' = Cuts /\ Len(connections') = Len(connections)
<1>1. PICK c \in DOMAIN connections : Read(c) \/ Handle(c) \/ EndSession(c)
  BY DEF Sessions, Session
<1>2. c \in 1 .. Len(connections)
  BY <1>1, LenProperties
<1>3. /\ sender' = sender /\ config_sent' = config_sent /\ breaks' = breaks
      /\ first' = first
  BY <1>1 DEF Read, Handle, EndSession, historyVars
<1>4. PICK story : Told(f, story)
  BY DEF Tells
<1>5. PICK s, r : s = story[c] /\ r = connections[c]
  OBVIOUS
<1>6. Carries(s, r) /\ r \in Connections /\ r.recorded \in Seq(Records)
  <2>1. r \in Connections
    BY <1>2, <1>5, ElementOfSeq
  <2>2. Carries(s, r)
    BY <1>2, <1>4, <1>5 DEF Told
  <2>. QED BY <2>1, <2>2 DEF Connections
<1>7. ASSUME NEW q, ChangedTo(c, q), q.cut = r.cut, Carries(s, q)
      PROVE  Tells(f)' /\ Cuts' = Cuts /\ Len(connections') = Len(connections)
  <2>1. q.cut = connections[c].cut /\ Carries(story[c], q)
    BY <1>5, <1>7
  <2>2. Tells(f)' /\ Cuts' = Cuts
    BY <1>3, <1>4, <1>7, <2>1, SessionTold
  <2>. QED BY <1>7, <2>2, Changed
<1>8. CASE Read(c)
  <2>1. PICK q \in Connections :
               /\ ChangedTo(c, q)
               /\ q.cut = connections[c].cut /\ q.flight = <<>>
               /\ q.buffer = connections[c].buffer \o connections[c].flight
               /\ q.recorded = connections[c].recorded
    BY <1>1, <1>8, ReadEffect
  <2>2. /\ q.cut = r.cut /\ q.recorded = r.recorded
        /\ q.buffer = r.buffer \o r.flight /\ q.flight = <<>>
    BY <1>5, <2>1
  <2>3. Carries(s, q)
    BY <1>6, <2>2, ReadCarries
  <2>. QED BY <1>7, <2>1, <2>2, <2>3
<1>9. CASE EndSession(c)
  <2>1. PICK q \in Connections :
               /\ ChangedTo(c, q)
               /\ q.cut = connections[c].cut /\ q.flight = connections[c].flight
               /\ q.buffer = connections[c].buffer /\ q.recorded = connections[c].recorded
    BY <1>1, <1>9, EndEffect
  <2>2. /\ q.cut = r.cut /\ q.recorded = r.recorded
        /\ q.buffer = r.buffer /\ q.flight = r.flight
    BY <1>5, <2>1
  <2>3. Carries(s, q)
    BY <1>6, <2>2, SameCarries
  <2>. QED BY <1>7, <2>1, <2>2, <2>3
<1>10. CASE Handle(c)
  <2>1. PICK m : m = NextMessage(connections[c].buffer)
    OBVIOUS
  <2>2. /\ HasMessage(connections[c].buffer)
        /\ Accepted(c, m) \/ Skipped(c, m) \/ Refused(c, m)
    BY <1>1, <1>10, <2>1, HandleEffect
  <2>3. PICK body : Taken(s, r, m, body)
    <3>1. HasMessage(r.buffer) /\ m = NextMessage(r.buffer)
      BY <1>5, <2>1, <2>2
    <3>. QED BY <1>6, <3>1, HandledCarries
  <2>4. m.type \in Known /\ Decoded(m) = {body}
    BY <2>3 DEF Taken
  <2>5. Accepted(c, m)
    BY <2>2, <2>4 DEF Skipped, Refused
  <2>6. PICK q : /\ ChangedTo(c, q)
                 /\ q.cut = r.cut /\ q.flight = r.flight
                 /\ q.buffer = AfterMessage(r.buffer)
                 /\ q.recorded = Append(r.recorded,
                                        [type |-> m.type, seq |-> m.seq, body |-> body])
    BY <1>5, <2>4, <2>5 DEF Accepted
  <2>7. Carries(s, q)
    BY <2>3, <2>6 DEF Taken
  <2>. QED BY <1>7, <2>6, <2>7
<1>. QED BY <1>1, <1>8, <1>9, <1>10

(* The end of the sender changes no story.                                 *)
LEMMA ExitTold ==
  ASSUME ConnectionTypes, NEW f \in Nat, Tells(f), Exit
  PROVE  Tells(f)' /\ Cuts' = Cuts /\ Len(connections') = Len(connections)
<1>0. connections \in Seq(Connections)
  BY DEF ConnectionTypes
<1>1. sender' = "done" /\ breaks' = breaks /\ first' = first
  BY DEF Exit, historyVars
<1>2. CASE UNCHANGED connections
  <2>1. f <= f /\ sender' # "on"
    BY <1>1
  <2>2. Tells(f)'
    BY <1>0, <1>1, <1>2, <2>1, ToldSame
  <2>. QED BY <1>2, <2>2 DEF Cuts
<1>3. ASSUME NEW q \in Connections, ChangedTo(Current, q),
             q.cut = connections[Current].cut, q.flight = connections[Current].flight,
             q.buffer = connections[Current].buffer, q.recorded = connections[Current].recorded
      PROVE  Tells(f)' /\ Cuts' = Cuts /\ Len(connections') = Len(connections)
  <2>1. PICK story : Told(f, story)
    BY DEF Tells
  <2>2. PICK c : c = Current
    OBVIOUS
  <2>3. c \in 1 .. Len(connections) /\ ChangedTo(c, q)
    BY <1>0, <1>3, <2>2, Changed
  <2>4. Carries(story[c], connections[c])
    BY <2>1, <2>3 DEF Told
  <2>5. Carries(story[c], q)
    BY <1>3, <2>2, <2>4, SameCarries
  <2>6. Tells(f)' /\ Cuts' = Cuts
    BY <1>0, <1>1, <1>3, <2>1, <2>2, <2>3, <2>5, SessionTold
  <2>. QED BY <1>0, <1>3, <2>6, Changed
<1>. QED BY <1>2, <1>3, ExitEffect

(* A send that fails cuts the story inside the message that is put back.   *)
LEMMA FailTold ==
  ASSUME QueueInv, ConnectionTypes, NEW f \in Nat, Tells(f), SendFails
  PROVE  /\ Tells(f)' /\ Len(connections') = Len(connections)
         /\ \/ breaks' = breaks + 1 /\ Cardinality(Cuts') = Cardinality(Cuts) + 1
            \/ breaks' = breaks /\ Cuts' = Cuts /\ Cuts # {}
<1>0. connections \in Seq(Connections) /\ connections # <<>> /\ breaks \in Nat
  <2>1. sender = "on"
    BY DEF SendFails
  <2>. QED BY <2>1, ConnectionBounds DEF ConnectionTypes, QueueInv, PhoneTypes
<1>1. sender' = "off" /\ first' = first
  BY DEF SendFails, historyVars
<1>2. PICK cells \in Wholes :
          \/ connections[Current].cut /\ UNCHANGED <<connections, breaks>>
          \/ \E k \in 0 .. Len(cells) - 1 :
                CutOff(connections[Current].flight \o SubSeq(cells, 1, k))
  <2>1. CASE config_cached /\ ~config_sent
    <3>1. EncodedConfig \in Wholes
      <4>1. 0 \in 0 .. Len(Script)
        BY ScriptLength
      <4>. QED BY <4>1, CodedWhole DEF Coded
    <3>. QED BY <2>1, <3>1 DEF SendFails
  <2>2. CASE ~(config_cached /\ ~config_sent)
    <3>1. HasNext
      BY <2>2 DEF SendFails
    <3>2. NextToSend \in Wholes
      BY <3>1, NextWhole
    <3>. QED BY <2>2, <3>2 DEF SendFails
  <2>. QED BY <2>1, <2>2
<1>3. CASE connections[Current].cut /\ UNCHANGED <<connections, breaks>>
  <2>1. f <= f
    OBVIOUS
  <2>2. Tells(f)'
    BY <1>0, <1>1, <1>3, <2>1, ToldSame
  <2>3. Current \in Cuts
    BY <1>0, <1>3, FlightType DEF Cuts
  <2>. QED BY <1>3, <2>2, <2>3 DEF Cuts
<1>4. ASSUME NEW k \in 0 .. Len(cells) - 1,
             CutOff(connections[Current].flight \o SubSeq(cells, 1, k))
      PROVE  /\ Tells(f)' /\ Len(connections') = Len(connections)
             /\ breaks' = breaks + 1 /\ Cardinality(Cuts') = Cardinality(Cuts) + 1
  <2>1. PICK part, flight :
            part = SubSeq(cells, 1, k) /\ flight = connections[Current].flight \o part
    OBVIOUS
  <2>2. Torn(part)
    BY <1>2, <2>1, PartOfWhole
  <2>3. CutOff(flight)
    BY <1>4, <2>1
  <2>4. Tells(f)' /\ breaks' = breaks + 1 /\ Cardinality(Cuts') = Cardinality(Cuts) + 1
    BY <1>0, <1>1, <2>1, <2>2, <2>3, CutTold
  <2>5. flight \in Seq(Nat)
    BY <1>0, <2>1, <2>2, FlightType, ConcatProperties DEF Torn
  <2>6. Len(connections') = Len(connections)
    BY <1>0, <2>3, <2>5, CutEffect, Changed
  <2>. QED BY <2>4, <2>6
<1>. QED BY <1>2, <1>3, <1>4

(* A break cuts the story where it is.                                     *)
LEMMA BreakTold ==
  ASSUME ConnectionTypes, breaks \in Nat, NEW f \in Nat, Tells(f), Break
  PROVE  /\ Tells(f)' /\ Len(connections') = Len(connections)
         /\ breaks' = breaks + 1 /\ Cardinality(Cuts') = Cardinality(Cuts) + 1
<1>1. /\ connections \in Seq(Connections) /\ connections # <<>>
      /\ CutOff(connections[Current].flight) /\ first' = first
  BY DEF ConnectionTypes, Break, historyVars
<1>2. PICK flight, part : flight = connections[Current].flight /\ part = <<>>
  OBVIOUS
<1>3. flight \in Seq(Nat) /\ CutOff(flight)
  BY <1>1, <1>2, FlightType
<1>4. Torn(part) /\ flight = connections[Current].flight \o part
  BY <1>2, <1>3, NothingTorn, ConcatEmptySeq
<1>5. Tells(f)' /\ breaks' = breaks + 1 /\ Cardinality(Cuts') = Cardinality(Cuts) + 1
  BY <1>1, <1>3, <1>4, CutTold
<1>6. Len(connections') = Len(connections)
  BY <1>1, <1>3, CutEffect, Changed
<1>. QED BY <1>5, <1>6

(* A send cuts nothing.                                                    *)
LEMMA SentCuts ==
  ASSUME connections \in Seq(Connections), connections # <<>>,
         NEW cells \in Seq(Nat), SendAll(cells)
  PROVE  Cuts' = Cuts /\ Len(connections') = Len(connections)
<1>1. CASE UNCHANGED connections
  BY <1>1 DEF Cuts
<1>2. ASSUME NEW r \in Connections, ~connections[Current].cut, ChangedTo(Current, r), ~r.cut
      PROVE  Cuts' = Cuts /\ Len(connections') = Len(connections)
  <2>1. PICK c : c = Current
    OBVIOUS
  <2>2. r \in Connections /\ connections[c] \in Connections /\ ChangedTo(c, r)
    BY <1>2, <2>1, FlightType
  <2>3. r.cut \in BOOLEAN /\ connections[c].cut \in BOOLEAN
    BY <2>2 DEF Connections
  <2>4. r.cut = connections[c].cut
    BY <1>2, <2>1, <2>3
  <2>. QED BY <2>2, <2>4, CutsKept, Changed
<1>. QED BY <1>1, <1>2, SendEffect

-----------------------------------------------------------------------------
(* What is sent from the damaged message on: a connection that began before*)
(* it brings the messages before it first, whatever comes behind them.     *)

(* What is yet to be recorded comes first in the buffer and in flight, cut *)
(* or with anything behind it: z is what was cut off.                      *)
ComesFirst(s, r, z, y) ==
    /\ y \in Seq(Nat) /\ z \in Seq(Nat) /\ r.flight \in Seq(Nat)
    /\ Joins(r.buffer, r.flight \o z, FlattenSeq(UnderWay(s, Len(r.recorded))) \o y)
Begins(s, r) ==
    /\ s \in Stories /\ Upto(s) <= Len(Script)
    /\ \A k \in 1 .. Len(r.recorded) : k <= s.sent => Is(r.recorded[k], Item(s, k))
    /\ Len(r.recorded) < s.sent =>
          \E y, z : ComesFirst(s, r, z, y) /\ (~r.cut => z = <<>>)

(* An uncut connection that carries its messages begins with them.         *)
LEMMA CarriesBegins ==
  ASSUME NEW s, NEW r, Carries(s, r), ~r.cut
  PROVE  Begins(s, r)
<1>1. PICK t : OnItsWay(s, r, t) /\ t = <<>>
  BY DEF Carries
<1>2. t \in Seq(Nat) /\ r.flight \in Seq(Nat)
  BY <1>1 DEF OnItsWay, Joins, Torn
<1>3. r.flight \o t = r.flight
  BY <1>1, <1>2, ConcatEmptySeq
<1>4. ComesFirst(s, r, t, t)
  BY <1>1, <1>2, <1>3 DEF ComesFirst, OnItsWay
<1>. QED BY <1>1, <1>4 DEF Begins, Carries

(* What comes behind changes nothing of it.                                *)
LEMMA FirstExtends ==
  ASSUME NEW s, NEW r, Begins(s, r), ~r.cut, r.recorded \in Seq(Records),
         Len(r.recorded) < s.sent, NEW e \in Seq(Nat)
  PROVE  /\ r.flight \in Seq(Nat)
         /\ \E y \in Seq(Nat) :
               Joins(r.buffer, r.flight \o e, FlattenSeq(UnderWay(s, Len(r.recorded))) \o y)
<1>1. PICK y, z : ComesFirst(s, r, z, y) /\ z = <<>>
  BY DEF Begins
<1>2. PICK h, x : h = Len(r.recorded) /\ x = FlattenSeq(UnderWay(s, h))
  OBVIOUS
<1>3. x \in Seq(Nat)
  <2>1. s \in Stories /\ Upto(s) <= Len(Script) /\ h \in Nat /\ h <= s.sent
    BY <1>2, LenProperties DEF Begins, Stories
  <2>2. UnderWay(s, h) \in Seq(Wholes)
    BY <2>1, UnderWayType
  <2>. QED BY <1>2, <2>2, WholesFlatten
<1>4. y \in Seq(Nat) /\ r.flight \in Seq(Nat)
  BY <1>1 DEF ComesFirst
<1>5. Joins(r.buffer, r.flight, x \o y)
  <2>1. r.flight \o z = r.flight
    BY <1>1, <1>4, ConcatEmptySeq
  <2>. QED BY <1>1, <1>2, <2>1 DEF ComesFirst
<1>6. Joins(r.buffer, r.flight \o e, (x \o y) \o e)
  BY <1>5, JoinsMore
<1>7. (x \o y) \o e = x \o (y \o e) /\ y \o e \in Seq(Nat)
  BY <1>3, <1>4, CellsAssociative, ConcatProperties
<1>. QED BY <1>2, <1>4, <1>6, <1>7

(* Neither a send ...                                                      *)
LEMMA BeginsSent ==
  ASSUME NEW s, NEW r, Begins(s, r), ~r.cut, r.recorded \in Seq(Records), NEW e \in Seq(Nat),
         NEW q, ~q.cut, q.recorded = r.recorded, q.buffer = r.buffer, q.flight = r.flight \o e
  PROVE  Begins(s, q)
<1>1. ASSUME Len(r.recorded) < s.sent PROVE \E y, z : ComesFirst(s, q, z, y) /\ z = <<>>
  <2>1. PICK y \in Seq(Nat) :
          Joins(r.buffer, r.flight \o e, FlattenSeq(UnderWay(s, Len(r.recorded))) \o y)
    BY <1>1, FirstExtends
  <2>2. r.flight \o e \in Seq(Nat)
    BY <1>1, FirstExtends, ConcatProperties
  <2>3. PICK z : z = <<>>
    OBVIOUS
  <2>4. z \in Seq(Nat) /\ q.flight \in Seq(Nat) /\ q.flight \o z = q.flight
    BY <2>2, <2>3, EmptySeq, ConcatEmptySeq
  <2>5. ComesFirst(s, q, z, y)
    BY <2>1, <2>4 DEF ComesFirst
  <2>. QED BY <2>3, <2>5
<1>. QED BY <1>1 DEF Begins

(* ... nor a cut does,                                                     *)
LEMMA BeginsCut ==
  ASSUME NEW s, NEW r, Begins(s, r), ~r.cut, r.recorded \in Seq(Records),
         NEW part \in Seq(Nat), NEW n \in 0 .. Len(r.flight \o part), r.flight \in Seq(Nat),
         NEW q, q.cut, q.recorded = r.recorded, q.buffer = r.buffer,
         q.flight = SubSeq(r.flight \o part, 1, n)
  PROVE  Begins(s, q)
<1>1. ASSUME Len(r.recorded) < s.sent PROVE \E y, z : ComesFirst(s, q, z, y)
  <2>1. PICK y \in Seq(Nat) :
          Joins(r.buffer, r.flight \o part, FlattenSeq(UnderWay(s, Len(r.recorded))) \o y)
    BY <1>1, FirstExtends
  <2>2. PICK fl : fl = r.flight \o part
    OBVIOUS
  <2>3. fl \in Seq(Nat)
    BY <2>2, ConcatProperties
  <2>4. PICK a, z : a = SubSeq(fl, 1, n) /\ z = SubSeq(fl, n + 1, Len(fl))
    OBVIOUS
  <2>5. n \in 0 .. Len(fl)
    BY <2>2
  <2>6. Joins(a, z, fl)
    BY ONLY <2>3, <2>4, <2>5, CutInTwo
  <2>7. a \in Seq(Nat) /\ z \in Seq(Nat) /\ fl = a \o z /\ q.flight = a
    BY <2>2, <2>4, <2>6 DEF Joins
  <2>8. ComesFirst(s, q, z, y)
    BY <2>1, <2>2, <2>7 DEF ComesFirst
  <2>. QED BY <2>8
<1>. QED BY <1>1 DEF Begins

(* nor what moves no cell,                                                 *)
LEMMA SameBegins ==
  ASSUME NEW s, NEW r, Begins(s, r), NEW q, q.cut = r.cut, q.recorded = r.recorded,
         q.buffer = r.buffer, q.flight = r.flight
  PROVE  Begins(s, q)
<1>1. ASSUME NEW y, NEW z, ComesFirst(s, r, z, y) PROVE ComesFirst(s, q, z, y)
  BY <1>1 DEF ComesFirst
<1>. QED BY <1>1 DEF Begins

(* nor a read;                                                             *)
LEMMA ReadBegins ==
  ASSUME NEW s, NEW r, Begins(s, r), NEW q, q.cut = r.cut, q.recorded = r.recorded,
         q.buffer = r.buffer \o r.flight, q.flight = <<>>
  PROVE  Begins(s, q)
<1>1. ASSUME NEW y, NEW z, ComesFirst(s, r, z, y) PROVE ComesFirst(s, q, z, y)
  <2>1. PICK w : w = FlattenSeq(UnderWay(s, Len(r.recorded))) \o y
    OBVIOUS
  <2>2. PICK a, b : a = r.buffer /\ b = r.flight
    OBVIOUS
  <2>3. /\ a \in Seq(Nat) /\ b \in Seq(Nat) /\ z \in Seq(Nat) /\ y \in Seq(Nat)
        /\ w = a \o (b \o z)
    BY <1>1, <2>1, <2>2 DEF ComesFirst, Joins
  <2>4. (a \o b) \o z = a \o (b \o z) /\ a \o b \in Seq(Nat)
    BY <2>3, CellsAssociative, ConcatProperties
  <2>5. <<>> \in Seq(Nat) /\ <<>> \o z = z
    BY <2>3, EmptySeq, ConcatEmptySeq
  <2>6. Joins(a \o b, <<>> \o z, w)
    BY <2>3, <2>4, <2>5 DEF Joins
  <2>7. q.buffer = a \o b /\ q.flight = <<>> /\ q.recorded = r.recorded
    BY <2>2
  <2>. QED BY <2>1, <2>3, <2>5, <2>6, <2>7 DEF ComesFirst
<1>. QED BY <1>1 DEF Begins

(* and the messages are handled one by one, as long as there are any,      *)
TakenFirst(s, r, m, body) ==
    /\ m.type \in Known /\ Decoded(m) = {body}
    /\ \A q : (/\ q.cut = r.cut /\ q.flight = r.flight
               /\ q.buffer = AfterMessage(r.buffer)
               /\ q.recorded = Append(r.recorded,
                      [type |-> m.type, seq |-> m.seq, body |-> body]))
              => Begins(s, q)

LEMMA HandledBegins ==
  ASSUME NEW s, NEW r, Begins(s, r), r.recorded \in Seq(Records), HasMessage(r.buffer),
         Len(r.recorded) < s.sent, NEW m, m = NextMessage(r.buffer)
  PROVE  \E body : TakenFirst(s, r, m, body)
<1>1. s \in Stories /\ Upto(s) <= Len(Script)
  BY DEF Begins
<1>2. PICK h \in Nat, g \in Nat : h = Len(r.recorded) /\ g = h + 1 /\ h < s.sent
  BY LenProperties
<1>3. PICK y, z : ComesFirst(s, r, z, y) /\ (~r.cut => z = <<>>)
  BY DEF Begins
<1>4. PICK w, b, a : w = UnderWay(s, h) /\ b = r.buffer /\ a = r.flight \o z
  OBVIOUS
<1>5. w \in Seq(Wholes) /\ w # <<>> /\ Head(w) = Coded(Item(s, g)) /\ Tail(w) = UnderWay(s, g)
  <2>1. s.sent \in Nat /\ h <= s.sent
    BY <1>1, <1>2 DEF Stories
  <2>2. w \in Seq(Wholes) /\ Len(w) = s.sent - h
    BY <1>1, <1>4, <2>1, UnderWayType
  <2>3. Len(w) # 0
    BY <1>2, <2>1, <2>2
  <2>. QED BY <1>1, <1>2, <1>4, <2>2, <2>3, EmptySeq, UnderWayLess
<1>6. y \in Seq(Nat) /\ Joins(b, a, FlattenSeq(w) \o y) /\ HasMessage(b)
  BY <1>2, <1>3, <1>4 DEF ComesFirst
<1>7. PICK v : Joins(Head(w), v, b) /\ Joins(v, a, FlattenSeq(Tail(w)) \o y)
  BY <1>5, <1>6, HeadThere
<1>8. PICK i : i = Item(s, g)
  OBVIOUS
<1>9. i \in 0 .. Len(Script)
  <2>1. g \in 1 .. s.sent
    BY <1>1, <1>2 DEF Stories
  <2>. QED BY <1>1, <1>8, <2>1, ItemRange
<1>10. Joins(Coded(i), v, b) /\ m = NextMessage(b)
  BY <1>4, <1>5, <1>7, <1>8
<1>11. PICK body : DecodedAs(b, m, body, i, v)
  BY <1>9, <1>10, ItemHandled
<1>12. PICK e : e = [type |-> m.type, seq |-> m.seq, body |-> body]
  OBVIOUS
<1>13. /\ m.type \in Known /\ Decoded(m) = {body} /\ AfterMessage(r.buffer) = v
       /\ Is(e, Item(s, g))
  BY <1>4, <1>8, <1>11, <1>12 DEF DecodedAs
<1>14. ASSUME NEW q, q.cut = r.cut, q.flight = r.flight, q.buffer = v,
              q.recorded = Append(r.recorded, e)
       PROVE  Begins(s, q)
  <2>1. PICK f, c : f = r.recorded /\ c = q.recorded
    OBVIOUS
  <2>2. /\ Len(c) = g
        /\ \A k \in 1 .. g : (k # g => Is(f[k], Item(s, k))) => Is(c[k], Item(s, k))
    BY <1>2, <1>13, <1>14, <2>1, OneMoreIs
  <2>3. ASSUME NEW k \in 1 .. g, k # g PROVE Is(f[k], Item(s, k))
    <3>1. k \in 1 .. Len(r.recorded) /\ k <= h
      BY <1>2, <2>3
    <3>2. k <= s.sent
      BY <1>1, <1>2, <3>1 DEF Stories
    <3>. QED BY <2>1, <3>1, <3>2 DEF Begins
  <2>4. \A k \in 1 .. Len(q.recorded) : Is(q.recorded[k], Item(s, k))
    BY <2>1, <2>2, <2>3
  <2>5. ComesFirst(s, q, z, y)
    <3>1. Len(q.recorded) = g /\ q.flight \o z = a /\ q.flight \in Seq(Nat) /\ z \in Seq(Nat)
      BY <1>3, <1>4, <1>14, <2>1, <2>2 DEF ComesFirst
    <3>2. Joins(v, a, FlattenSeq(UnderWay(s, g)) \o y)
      BY <1>5, <1>7
    <3>. QED BY <1>6, <1>14, <3>1, <3>2 DEF ComesFirst
  <2>. QED BY <1>1, <1>3, <1>14, <2>4, <2>5 DEF Begins
<1>. QED BY <1>12, <1>13, <1>14 DEF TakenFirst

(* and then whatever comes.                                                *)
LEMMA PastBegins ==
  ASSUME NEW s, NEW r, Begins(s, r), r.recorded \in Seq(Records), ~(Len(r.recorded) < s.sent),
         NEW q, q.recorded = r.recorded \/ \E e : q.recorded = Append(r.recorded, e)
  PROVE  Begins(s, q)
<1>1. s \in Stories /\ Upto(s) <= Len(Script)
  BY DEF Begins
<1>2. PICK h \in Nat, n \in Nat : h = Len(r.recorded) /\ n = s.sent /\ n <= h
  BY <1>1, LenProperties DEF Stories
<1>3. PICK a, c : a = r.recorded /\ c = q.recorded
  OBVIOUS
<1>4. \A k \in 1 .. h : k <= n => Is(a[k], Item(s, k))
  BY <1>2, <1>3 DEF Begins
<1>5. /\ Len(c) \in Nat /\ h <= Len(c)
      /\ \A k \in 1 .. h : c[k] = a[k]
  <2>1. CASE c = a
    BY <1>2, <1>3, <2>1
  <2>2. ASSUME NEW e, c = Append(a, e)
        PROVE  /\ Len(c) \in Nat /\ h <= Len(c)
               /\ \A k \in 1 .. h : c[k] = a[k]
    <3>1. PICK R : R = Records \cup {e}
      OBVIOUS
    <3>2. a \in Seq(R) /\ e \in R /\ Len(a) = h
      BY <1>2, <1>3, <3>1
    <3>3. Len(c) = h + 1 /\ \A k \in 1 .. h : c[k] = a[k]
      BY <2>2, <3>2, AppendProperties
    <3>. QED BY <3>3
  <2>. QED BY <1>3, <2>1, <2>2
<1>6. \A k \in 1 .. Len(c) : k <= n => Is(c[k], Item(s, k))
  BY <1>2, <1>4, <1>5
<1>7. ~(Len(c) < n)
  BY <1>2, <1>5
<1>. QED BY <1>1, <1>2, <1>3, <1>6, <1>7 DEF Begins

(* A connection that began before the damaged message has carried the      *)
(* messages from there on: up to the start of a later such connection, if  *)
(* there is one, or up to the damage.                                      *)
Follows(c, s) ==
    /\ s.lo = first[c]
    /\ \/ Carries(s, connections[c])
       \/ Upto(s) = damage - 1 /\ Begins(s, connections[c])
    /\ \A d \in c + 1 .. Len(connections) :
          first[d] < damage => Carries(s, connections[c]) /\ Upto(s) <= first[d]
    /\ c = Current /\ ~connections[c].cut => Upto(s) = damage - 1 /\ Begins(s, connections[c])

Strays ==
    /\ \A c \in 1 .. Len(connections) : first[c] < damage => \E s : Follows(c, s)
    /\ \A c, d \in 1 .. Len(connections) : c < d /\ first[d] < damage => first[c] < damage

(* Until the damaged message is sent, the stories say so.                  *)
LEMMA TellsStrays ==
  ASSUME PhoneTypes, ConnectionTypes, damage # 0, NEW f \in Nat, f = damage - 1, Tells(f)
  PROVE  Strays
<1>1. PICK story : Told(f, story)
  BY DEF Tells
<1>2. PICK n \in Nat : n = Len(connections) /\ damage \in Nat
  BY LenProperties, ScriptLength DEF ConnectionTypes, PhoneTypes
<1>3. ASSUME NEW c \in 1 .. n
      PROVE  /\ Carries(story[c], connections[c]) /\ story[c].lo = first[c]
             /\ Upto(story[c]) <= f /\ Upto(story[c]) \in Nat /\ story[c].lo <= Upto(story[c])
             /\ story[c].lo \in Nat
  <2>1. /\ Carries(story[c], connections[c]) /\ story[c].lo = first[c]
        /\ Upto(story[c]) <= f
    BY <1>1, <1>2 DEF Told
  <2>2. story[c] \in Stories
    BY <2>1 DEF Carries
  <2>. QED BY <2>1, <2>2, UptoType
<1>4. ASSUME NEW c \in 1 .. n PROVE Follows(c, story[c])
  <2>1. PICK s : s = story[c]
    OBVIOUS
  <2>2. ASSUME NEW d \in c + 1 .. n PROVE Upto(s) <= first[d]
    <3>1. d \in 1 .. n /\ c < d
      BY <1>2, <2>2
    <3>. QED BY <1>1, <1>2, <1>3, <2>1, <3>1 DEF Told
  <2>3. ASSUME c = Current, ~connections[c].cut
        PROVE  Upto(s) = damage - 1 /\ Begins(s, connections[c])
    <3>1. connections # <<>>
      BY <1>2, EmptySeq
    <3>2. Upto(s) = f
      BY <1>1, <2>1, <2>3, <3>1 DEF Told
    <3>. QED BY <1>3, <2>1, <2>3, <3>2, CarriesBegins
  <2>. QED BY <1>2, <1>3, <2>1, <2>2, <2>3 DEF Follows
<1>5. ASSUME NEW c \in 1 .. n PROVE first[c] < damage
  BY <1>2, <1>3
<1>. QED BY <1>2, <1>4, <1>5 DEF Strays

(* What a step may do to a connection: nothing to what it carries or       *)
(* begins with, or, as it is the last and not cut, to what it begins with. *)
Moves(c, s) ==
    LET r == connections[c]
        q == connections'[c]
    IN /\ Begins(s, r) => Begins(s, q)
       /\ \/ c = Current /\ ~r.cut
          \/ (Carries(s, r) => Carries(s, q)) /\ (~q.cut => ~r.cut)

LEMMA StraysMoved ==
  ASSUME ConnectionTypes, Strays, damage' = damage, first' = first,
         Len(connections') = Len(connections),
         \A c \in 1 .. Len(connections) : \A s : Moves(c, s)
  PROVE  Strays'
<1>1. PICK n \in Nat : n = Len(connections)
  BY LenProperties DEF ConnectionTypes
<1>2. Current' = Current /\ Current = n
  BY <1>1 DEF Current
<1>3. ASSUME NEW c \in 1 .. n, NEW s, Follows(c, s) PROVE Follows(c, s)'
  <2>1. PICK r, q : r = connections[c] /\ q = connections'[c]
    OBVIOUS
  <2>2. /\ Begins(s, r) => Begins(s, q)
        /\ \/ c = Current /\ ~r.cut
           \/ (Carries(s, r) => Carries(s, q)) /\ (~q.cut => ~r.cut)
    BY <1>1, <2>1 DEF Moves
  <2>3. /\ s.lo = first[c]
        /\ Carries(s, r) \/ (Upto(s) = damage - 1 /\ Begins(s, r))
        /\ \A d \in c + 1 .. n : first[d] < damage => Carries(s, r) /\ Upto(s) <= first[d]
        /\ c = Current /\ ~r.cut => Upto(s) = damage - 1 /\ Begins(s, r)
    BY <1>1, <1>3, <2>1 DEF Follows
  <2>4. CASE c = Current /\ ~r.cut
    <3>1. Upto(s) = damage - 1 /\ Begins(s, q)
      BY <2>2, <2>3, <2>4
    <3>2. \A d \in c + 1 .. n : FALSE
      BY <1>2, <2>4
    <3>. QED BY <1>1, <1>2, <2>1, <2>3, <3>1, <3>2 DEF Follows
  <2>5. CASE (Carries(s, r) => Carries(s, q)) /\ (~q.cut => ~r.cut)
    <3>1. Carries(s, q) \/ (Upto(s) = damage - 1 /\ Begins(s, q))
      BY <2>2, <2>3, <2>5
    <3>2. \A d \in c + 1 .. n : first[d] < damage => Carries(s, q) /\ Upto(s) <= first[d]
      BY <2>3, <2>5
    <3>3. c = Current /\ ~q.cut => Upto(s) = damage - 1 /\ Begins(s, q)
      BY <2>2, <2>3, <2>5
    <3>. QED BY <1>1, <1>2, <2>1, <2>3, <3>1, <3>2, <3>3 DEF Follows
  <2>. QED BY <2>2, <2>4, <2>5
<1>4. ASSUME NEW c \in 1 .. n, first[c] < damage PROVE \E s : Follows(c, s)'
  <2>1. PICK s : Follows(c, s)
    BY <1>1, <1>4 DEF Strays
  <2>. QED BY <1>3, <2>1
<1>. QED BY <1>1, <1>4 DEF Strays

(* A step that changes one connection moves no other.                      *)
LEMMA MovesOne ==
  ASSUME connections \in Seq(Connections), NEW c, NEW q, ChangedTo(c, q), NEW s,
         NEW d \in 1 .. Len(connections),
         LET r == connections[c] IN
             /\ Begins(s, r) => Begins(s, q)
             /\ \/ c = Current /\ ~r.cut
                \/ (Carries(s, r) => Carries(s, q)) /\ (~q.cut => ~r.cut)
  PROVE  Moves(d, s)
<1>1. /\ connections'[c] = q
      /\ \A e \in 1 .. Len(connections) : e # c => connections'[e] = connections[e]
  BY Changed
<1>2. CASE d = c
  BY <1>1, <1>2 DEF Moves
<1>3. CASE d # c
  BY <1>1, <1>3 DEF Moves
<1>. QED BY <1>2, <1>3

(* Sends, cuts and the end of the sender: the last connection.             *)
LEMMA SenderMoves ==
  ASSUME connections \in Seq(Connections), connections # <<>>, NEW s,
         NEW d \in 1 .. Len(connections),
         \/ \E cells \in Seq(Nat) : SendAll(cells)
         \/ \E part \in Seq(Nat) : CutOff(connections[Current].flight \o part)
         \/ UNCHANGED connections
  PROVE  Moves(d, s) /\ Len(connections') = Len(connections)
<1>1. CASE UNCHANGED connections
  BY <1>1 DEF Moves
<1>2. PICK c, r : c = Current /\ r = connections[c]
  OBVIOUS
<1>3. c \in 1 .. Len(connections) /\ r \in Connections /\ r.flight \in Seq(Nat)
      /\ r.recorded \in Seq(Records)
  BY <1>2, FlightType DEF Connections
<1>4. ASSUME NEW cells \in Seq(Nat), SendAll(cells)
      PROVE  Moves(d, s) /\ Len(connections') = Len(connections)
  <2>1. ASSUME NEW q \in Connections, ~r.cut, ChangedTo(c, q), ~q.cut,
               q.flight = r.flight \o cells, q.buffer = r.buffer, q.recorded = r.recorded
        PROVE  Moves(d, s) /\ Len(connections') = Len(connections)
    <3>1. Begins(s, r) => Begins(s, q)
      BY <1>3, <2>1, BeginsSent
    <3>2. Moves(d, s)
      BY <1>2, <2>1, <3>1, MovesOne
    <3>. QED BY <2>1, <3>2, Changed
  <2>. QED BY <1>1, <1>2, <1>4, <2>1, SendEffect
<1>5. ASSUME NEW part \in Seq(Nat), CutOff(connections[Current].flight \o part)
      PROVE  Moves(d, s) /\ Len(connections') = Len(connections)
  <2>1. PICK flight : flight = r.flight \o part
    OBVIOUS
  <2>2. flight \in Seq(Nat) /\ CutOff(flight)
    BY <1>2, <1>3, <1>5, <2>1, ConcatProperties
  <2>3. PICK n \in 0 .. Len(flight), q \in Connections :
            /\ ChangedTo(c, q) /\ ~r.cut
            /\ q.cut /\ q.flight = SubSeq(flight, 1, n)
            /\ q.buffer = r.buffer /\ q.recorded = r.recorded
    BY <1>2, <2>2, CutEffect
  <2>4. Begins(s, r) => Begins(s, q)
    BY <1>3, <2>1, <2>3, BeginsCut
  <2>5. Moves(d, s)
    BY <1>2, <2>3, <2>4, MovesOne
  <2>. QED BY <2>3, <2>5, Changed
<1>. QED BY <1>1, <1>4, <1>5

(* What the server does: any connection.                                   *)
LEMMA SessionMoves ==
  ASSUME connections \in Seq(Connections), NEW s, NEW d \in 1 .. Len(connections), Sessions
  PROVE  Moves(d, s) /\ Len(connections') = Len(connections)
<1>1. PICK c \in DOMAIN connections : Read(c) \/ Handle(c) \/ EndSession(c)
  BY DEF Sessions, Session
<1>2. PICK r : r = connections[c]
  OBVIOUS
<1>3. r \in Connections /\ r.recorded \in Seq(Records)
  <2>1. c \in 1 .. Len(connections)
    BY <1>1, LenProperties
  <2>2. r \in Connections
    BY <1>2, <2>1, ElementOfSeq
  <2>. QED BY <2>2 DEF Connections
<1>4. ASSUME NEW q, ChangedTo(c, q), Begins(s, r) => Begins(s, q),
             Carries(s, r) => Carries(s, q), ~q.cut => ~r.cut
      PROVE  Moves(d, s) /\ Len(connections') = Len(connections)
  <2>1. Moves(d, s)
    BY <1>2, <1>4, MovesOne
  <2>. QED BY <1>4, <2>1, Changed
<1>5. CASE Read(c)
  <2>1. PICK q \in Connections :
               /\ ChangedTo(c, q)
               /\ q.cut = r.cut /\ q.flight = <<>>
               /\ q.buffer = r.buffer \o r.flight
               /\ q.recorded = r.recorded
    BY <1>1, <1>2, <1>5, ReadEffect
  <2>2. Carries(s, r) => Carries(s, q)
    BY <2>1, ReadCarries
  <2>3. Begins(s, r) => Begins(s, q)
    BY <2>1, ReadBegins
  <2>. QED BY <1>4, <2>1, <2>2, <2>3
<1>6. CASE EndSession(c)
  <2>1. PICK q \in Connections :
               /\ ChangedTo(c, q)
               /\ q.cut = r.cut /\ q.flight = r.flight
               /\ q.buffer = r.buffer /\ q.recorded = r.recorded
    BY <1>1, <1>2, <1>6, EndEffect
  <2>2. Carries(s, r) => Carries(s, q)
    BY <2>1, SameCarries
  <2>3. Begins(s, r) => Begins(s, q)
    BY <2>1, SameBegins
  <2>. QED BY <1>4, <2>1, <2>2, <2>3
<1>7. CASE Handle(c)
  <2>1. PICK m : m = NextMessage(r.buffer)
    OBVIOUS
  <2>2. HasMessage(r.buffer) /\ (Accepted(c, m) \/ Skipped(c, m) \/ Refused(c, m))
    BY <1>1, <1>2, <1>7, <2>1, HandleEffect
  <2>3. PICK q : /\ ChangedTo(c, q) /\ (~q.cut => ~r.cut)
                 /\ \/ /\ q.recorded = r.recorded
                       /\ m.type \notin Known \/ Decoded(m) = {}
                    \/ \E body \in Decoded(m) :
                          /\ q.cut = r.cut /\ q.flight = r.flight
                          /\ q.buffer = AfterMessage(r.buffer)
                          /\ q.recorded = Append(r.recorded,
                                 [type |-> m.type, seq |-> m.seq, body |-> body])
    <3>1. CASE Accepted(c, m)
      BY <1>2, <3>1 DEF Accepted
    <3>2. CASE Skipped(c, m)
      BY <1>2, <3>2 DEF Skipped
    <3>3. CASE Refused(c, m)
      BY <1>2, <3>3 DEF Refused
    <3>. QED BY <2>2, <3>1, <3>2, <3>3
  <2>4. ASSUME Carries(s, r) PROVE Carries(s, q)
    <3>1. PICK body : Taken(s, r, m, body)
      BY <1>3, <2>1, <2>2, <2>4, HandledCarries
    <3>2. m.type \in Known /\ Decoded(m) = {body}
      BY <3>1 DEF Taken
    <3>. QED BY <2>3, <3>1, <3>2 DEF Taken
  <2>5. ASSUME Begins(s, r) PROVE Begins(s, q)
    <3>1. CASE Len(r.recorded) < s.sent
      <4>1. PICK body : TakenFirst(s, r, m, body)
        BY <1>3, <2>1, <2>2, <2>5, <3>1, HandledBegins
      <4>2. m.type \in Known /\ Decoded(m) = {body}
        BY <4>1 DEF TakenFirst
      <4>. QED BY <2>3, <4>1, <4>2 DEF TakenFirst
    <3>2. CASE ~(Len(r.recorded) < s.sent)
      <4>1. q.recorded = r.recorded \/ \E e : q.recorded = Append(r.recorded, e)
        BY <2>3
      <4>. QED BY <1>3, <2>5, <3>2, <4>1, PastBegins
    <3>. QED BY <3>1, <3>2
  <2>. QED BY <1>4, <2>3, <2>4, <2>5
<1>. QED BY <1>1, <1>5, <1>6, <1>7

(* The sender's end: the last connection.                                  *)
LEMMA ExitMoves ==
  ASSUME ConnectionTypes, NEW s, NEW d \in 1 .. Len(connections), Exit
  PROVE  Moves(d, s) /\ Len(connections') = Len(connections)
<1>1. connections \in Seq(Connections)
  BY DEF ConnectionTypes
<1>2. CASE UNCHANGED connections
  BY <1>2 DEF Moves
<1>3. PICK c, r : c = Current /\ r = connections[c]
  OBVIOUS
<1>4. ASSUME NEW q \in Connections, ChangedTo(c, q),
             q.cut = r.cut, q.flight = r.flight,
             q.buffer = r.buffer, q.recorded = r.recorded
      PROVE  Moves(d, s) /\ Len(connections') = Len(connections)
  <2>1. (Carries(s, r) => Carries(s, q)) /\ (Begins(s, r) => Begins(s, q))
    BY <1>4, SameCarries, SameBegins
  <2>2. Moves(d, s)
    BY <1>1, <1>3, <1>4, <2>1, MovesOne
  <2>. QED BY <1>1, <1>4, <2>2, Changed
<1>. QED BY <1>2, <1>3, <1>4, ExitEffect

(* A connection that is opened after the damaged message was sent.         *)
LEMMA StraysAppended ==
  ASSUME ConnectionTypes, Strays, damage' = damage,
         connections' = Append(connections, NewConnection),
         NEW f \in Nat, first' = Append(first, f), ~(f < damage)
  PROVE  Strays'
<1>1. PICK n \in Nat : n = Len(connections) /\ n = Len(first)
  BY LenProperties DEF ConnectionTypes
<1>2. PICK v, w : v = connections' /\ w = first'
  OBVIOUS
<1>3. Len(v) = n + 1 /\ \A c \in 1 .. n : v[c] = connections[c]
  BY <1>1, <1>2, NewConnectionType, AppendProperties DEF ConnectionTypes
<1>4. \A c \in 1 .. n : w[c] = first[c]
  BY <1>1, <1>2, AppendProperties DEF ConnectionTypes
<1>5. w[n + 1] = f
  BY <1>1, <1>2, AppendProperties DEF ConnectionTypes
<1>6. Current' = n + 1
  BY <1>2, <1>3 DEF Current
<1>7. ASSUME NEW d \in 1 .. n + 1, w[d] < damage PROVE d \in 1 .. n /\ first[d] < damage
  BY <1>4, <1>5, <1>7
<1>8. ASSUME NEW c \in 1 .. n, NEW s, Follows(c, s) PROVE Follows(c, s)'
  <2>1. PICK r : r = connections[c] /\ r = v[c]
    BY <1>3
  <2>2. /\ s.lo = first[c]
        /\ Carries(s, r) \/ (Upto(s) = damage - 1 /\ Begins(s, r))
        /\ \A d \in c + 1 .. n : first[d] < damage => Carries(s, r) /\ Upto(s) <= first[d]
    BY <1>1, <1>8, <2>1 DEF Follows
  <2>3. s.lo = w[c]
    BY <1>4, <2>2
  <2>4. ASSUME NEW d \in c + 1 .. n + 1, w[d] < damage
        PROVE  Carries(s, r) /\ Upto(s) <= w[d]
    <3>1. d \in 1 .. n + 1
      BY <2>4
    <3>2. d \in 1 .. n /\ first[d] < damage
      BY <1>7, <2>4, <3>1
    <3>3. d \in c + 1 .. n /\ w[d] = first[d]
      BY <1>4, <2>4, <3>2
    <3>. QED BY <2>2, <3>2, <3>3
  <2>5. c # Current'
    BY <1>6
  <2>. QED BY <1>2, <1>3, <2>1, <2>2, <2>3, <2>4, <2>5 DEF Follows
<1>9. ASSUME NEW c \in 1 .. n + 1, w[c] < damage PROVE \E s : Follows(c, s)'
  <2>1. c \in 1 .. n /\ first[c] < damage
    BY <1>7, <1>9
  <2>2. PICK s : Follows(c, s)
    BY <1>1, <2>1 DEF Strays
  <2>. QED BY <1>8, <2>1, <2>2
<1>10. ASSUME NEW c \in 1 .. n + 1, NEW d \in 1 .. n + 1, c < d, w[d] < damage
       PROVE  w[c] < damage
  <2>1. d \in 1 .. n /\ first[d] < damage
    BY <1>7, <1>10
  <2>2. c \in 1 .. n
    BY <1>10, <2>1
  <2>3. first[c] < damage
    BY <1>1, <1>10, <2>1, <2>2 DEF Strays
  <2>. QED BY <1>4, <2>2, <2>3
<1>. QED BY <1>2, <1>3, <1>9, <1>10 DEF Strays

(* From the damaged message on every step keeps what the connections that  *)
(* began before it have carried.                                           *)
LEMMA StraysStep ==
  ASSUME IInv, Strays, [Next]_vars, damage # 0, ~(sent < damage) \/ SendNext
  PROVE  Strays'
<1>0. /\ QueueInv /\ PhoneTypes /\ SpoolCounts /\ MemoryCounts /\ ConnectionTypes
      /\ connections \in Seq(Connections) /\ (sender = "on" => connections # <<>>)
      /\ sent \in Nat
  BY DEF IInv, QueueInv, ConnectionTypes, PhoneTypes
<1>1. damage' = damage
  BY <1>0, DamageStays
<1>2. ASSUME first' = first,
             \A d \in 1 .. Len(connections) :
                \A s : Moves(d, s) /\ Len(connections') = Len(connections),
             connections = <<>> => connections' = connections
      PROVE  Strays'
  <2>1. Len(connections') = Len(connections)
    <3>1. CASE connections = <<>>
      BY <1>2, <3>1
    <3>2. CASE connections # <<>>
      <4>1. 1 \in 1 .. Len(connections)
        BY <1>0, <3>2, LenProperties, EmptySeq
      <4>. QED BY <1>2, <4>1
    <3>. QED BY <3>1, <3>2
  <2>. QED BY <1>0, <1>1, <1>2, <2>1, StraysMoved
<1>3. CASE UNCHANGED <<connections, first>>
  <2>1. \A d \in 1 .. Len(connections) :
           \A s : Moves(d, s) /\ Len(connections') = Len(connections)
    BY <1>3 DEF Moves
  <2>. QED BY <1>2, <1>3, <2>1
<1>4. ASSUME first' = first, connections # <<>>,
             \/ \E cells \in Seq(Nat) : SendAll(cells)
             \/ \E part \in Seq(Nat) : CutOff(connections[Current].flight \o part)
             \/ UNCHANGED connections
      PROVE  Strays'
  <2>1. \A d \in 1 .. Len(connections) :
           \A s : Moves(d, s) /\ Len(connections') = Len(connections)
    BY <1>0, <1>4, SenderMoves
  <2>. QED BY <1>2, <1>4, <2>1
<1>5. CASE Connect
  <2>1. /\ sender = "off" /\ connections' = Append(connections, NewConnection)
        /\ first' = Append(first, sent)
    BY <1>5 DEF Connect
  <2>2. ~SendNext
    BY <2>1 DEF SendNext
  <2>. QED BY <1>0, <1>1, <2>1, <2>2, StraysAppended
<1>6. CASE SendConfig
  <2>1. sender = "on" /\ SendAll(EncodedConfig) /\ first' = first
    BY <1>6 DEF SendConfig, historyVars
  <2>2. \E cells \in Seq(Nat) : SendAll(cells)
    BY <2>1, ConfigType
  <2>. QED BY <1>0, <1>4, <2>1, <2>2
<1>7. CASE SendNext
  <2>1. sender = "on" /\ HasNext /\ SendAll(NextToSend) /\ first' = first
    BY <1>7 DEF SendNext
  <2>2. NextToSend \in Seq(Nat)
    BY <1>0, <2>1, NextToSendType
  <2>3. \E cells \in Seq(Nat) : SendAll(cells)
    BY <2>1, <2>2
  <2>. QED BY <1>0, <1>4, <2>1, <2>3
<1>8. CASE SendFails
  <2>1. sender = "on" /\ first' = first
    BY <1>8 DEF SendFails, historyVars
  <2>2. PICK cells \in Seq(Nat) :
            \/ UNCHANGED connections
            \/ \E k \in 0 .. Len(cells) - 1 :
                  CutOff(connections[Current].flight \o SubSeq(cells, 1, k))
    <3>1. CASE config_cached /\ ~config_sent
      BY <1>8, <3>1, ConfigType DEF SendFails
    <3>2. CASE ~(config_cached /\ ~config_sent)
      <4>1. HasNext
        BY <1>8, <3>2 DEF SendFails
      <4>2. NextToSend \in Seq(Nat)
        BY <1>0, <4>1, NextToSendType
      <4>. QED BY <1>8, <3>2, <4>2 DEF SendFails
    <3>. QED BY <3>1, <3>2
  <2>3. ASSUME NEW k \in 0 .. Len(cells) - 1,
               CutOff(connections[Current].flight \o SubSeq(cells, 1, k))
        PROVE  \E part \in Seq(Nat) : CutOff(connections[Current].flight \o part)
    <3>1. PICK j \in Nat : j = k /\ j <= Len(cells)
      BY <2>2, LenProperties
    <3>2. SubSeq(cells, 1, j) \in Seq(Nat)
      BY <2>2, <3>1, PartType
    <3>. QED BY <2>3, <3>1, <3>2
  <2>. QED BY <1>0, <1>4, <2>1, <2>2, <2>3
<1>9. CASE Break
  <2>1. connections # <<>> /\ CutOff(connections[Current].flight) /\ first' = first
    BY <1>9 DEF Break, historyVars
  <2>2. PICK flight, part : flight = connections[Current].flight /\ part = <<>>
    OBVIOUS
  <2>3. flight \in Seq(Nat) /\ part \in Seq(Nat) /\ CutOff(flight)
    BY <1>0, <2>1, <2>2, FlightType, EmptySeq
  <2>4. flight \o part = flight
    BY <2>2, <2>3, ConcatEmptySeq
  <2>5. CutOff(flight \o part)
    BY <2>3, <2>4
  <2>. QED BY <1>4, <2>1, <2>2, <2>3, <2>5
<1>10. CASE Exit
  <2>1. \A d \in 1 .. Len(connections) :
           \A s : Moves(d, s) /\ Len(connections') = Len(connections)
    BY <1>0, <1>10, ExitMoves
  <2>2. first' = first /\ (connections = <<>> => connections' = connections)
    <3>1. connections = <<>> => sender # "on"
      BY <1>0
    <3>. QED BY <1>10, <3>1 DEF Exit, historyVars
  <2>. QED BY <1>2, <2>1, <2>2
<1>11. CASE Sessions
  <2>1. \A d \in 1 .. Len(connections) :
           \A s : Moves(d, s) /\ Len(connections') = Len(connections)
    BY <1>0, <1>11, SessionMoves
  <2>2. first' = first
    BY <1>11 DEF Sessions, Session, Read, Handle, EndSession, historyVars
  <2>3. connections # <<>>
    <3>1. PICK c \in DOMAIN connections : TRUE
      BY <1>11 DEF Sessions
    <3>2. c \in 1 .. Len(connections)
      BY <1>0, <3>1, LenProperties
    <3>. QED BY <1>0, <3>2, EmptySeq
  <2>. QED BY <1>2, <2>1, <2>2, <2>3
<1>12. CASE UNCHANGED vars
  BY <1>3, <1>12 DEF vars, historyVars
<1>13. CASE Capture
  BY <1>3, <1>13 DEF Capture, Write, WriteDropped, WriteVideoConfig, Close, historyVars
<1>14. CASE PopShort
  BY <1>3, <1>14 DEF PopShort, historyVars
<1>15. CASE Terminated
  BY <1>3, <1>15 DEF Terminated, vars, historyVars
<1>. QED
  BY <1>5, <1>6, <1>7, <1>8, <1>9, <1>10, <1>11, <1>12, <1>13, <1>14, <1>15
  DEF Next, Sender

(* The queue says how far the messages sent can be.                        *)
LEMMA SoundSent ==
  ASSUME IInv, Sound
  PROVE  sent \in Nat /\ sent <= Len(Script) /\ written <= Len(Script) /\ sent <= written
<1>1. PhoneTypes /\ InOrder
  BY DEF IInv, QueueInv
<1>2. PICK n \in Nat, w \in Nat, a \in Nat, b \in Nat :
          n = Len(Script) /\ w = written /\ a = sent /\ b = damage /\ w <= n /\ b <= w
  BY <1>1, ScriptLength DEF PhoneTypes
<1>3. CASE b = 0
  <2>1. PICK g \in 0 .. Whole : Holds(sent, g)
    BY <1>1, <1>2, <1>3 DEF InOrder
  <2>2. Whole = w
    BY <1>2, <1>3 DEF Whole
  <2>3. a <= w
    BY <1>2, <2>1, <2>2 DEF Holds
  <2>. QED BY <1>2, <2>3
<1>4. CASE b # 0
  <2>1. a < b
    BY <1>2, <1>4 DEF Sound
  <2>. QED BY <1>2, <2>1
<1>. QED BY <1>3, <1>4

(* Before the damaged message is sent every step keeps the stories.        *)
LEMMA TellsStep ==
  ASSUME IInv, CutsCounted, Tells(sent), Sound, Sound', damage' = damage \/ sent' = sent,
         [Next]_vars
  PROVE  CutsCounted' /\ Tells(sent)'
<1>0. /\ QueueInv /\ PhoneTypes /\ SpoolCounts /\ MemoryCounts /\ ConnectionTypes
      /\ connections \in Seq(Connections) /\ (sender = "on" => connections # <<>>)
      /\ first \in Seq(Nat) /\ Len(first) = Len(connections)
  BY DEF IInv, QueueInv, ConnectionTypes
<1>1. PICK f \in Nat : f = sent /\ f <= f /\ f <= Len(Script) /\ Tells(f)
  BY SoundSent
<1>2. breaks \in Nat
  BY <1>0, ConnectionBounds DEF PhoneTypes
<1>3. PICK n \in Nat, N \in Nat : n = Len(connections) /\ N = Cardinality(Cuts) /\ N = breaks
  BY <1>0, <1>2, LenProperties DEF CutsCounted
<1>4. ASSUME ~SendNext, Tells(f)' PROVE Tells(sent)'
  <2>1. sent' = f
    BY <1>1, <1>4, KeepKinds
  <2>. QED BY <1>4, <2>1
<1>8. ASSUME Cuts' = Cuts, Len(connections') = Len(connections), breaks' = breaks,
             sender' = "off" => sender = "off"
      PROVE  CutsCounted'
  <2>1. connections = <<>> => connections' = <<>>
    BY <1>8, EmptySeq
  <2>. QED BY <1>8, <2>1 DEF CutsCounted
<1>9. ASSUME Cardinality(Cuts') = Cardinality(Cuts) + 1, breaks' = breaks + 1
      PROVE  CutsCounted'
  <2>1. breaks' # 0
    BY <1>2, <1>9
  <2>2. Cardinality(Cuts') = breaks'
    BY <1>9 DEF CutsCounted
  <2>. QED BY <2>1, <2>2 DEF CutsCounted
<1>10. CASE UNCHANGED <<connections, sender, config_sent, breaks, first>> /\ ~SendNext
  <2>1. Tells(f)'
    BY <1>0, <1>1, <1>10, ToldSame
  <2>2. Cuts' = Cuts
    BY <1>10 DEF Cuts
  <2>. QED BY <1>4, <1>8, <1>10, <2>1, <2>2
<1>11. CASE Connect
  <2>1. /\ sender = "off" /\ connections' = Append(connections, NewConnection)
        /\ sender' = "on" /\ breaks' = breaks /\ first' = Append(first, f)
    BY <1>1, <1>11 DEF Connect
  <2>2. ~SendNext
    BY <2>1 DEF SendNext
  <2>3. breaks = 0 => connections = <<>>
    BY <2>1 DEF CutsCounted
  <2>4. Tells(f)'
    BY <1>0, <1>1, <2>1, <2>3, ToldAppended
  <2>5. Cuts' = Cuts
    BY <1>0, <2>1, CutsAppended
  <2>6. Len(connections') = n + 1
    BY <1>0, <1>3, <2>1, NewConnectionType, AppendProperties
  <2>7. breaks = 0 => n = 0
    BY <1>3, <2>3, EmptySeq
  <2>8. CutsCounted'
    BY <1>3, <2>1, <2>5, <2>6, <2>7 DEF CutsCounted
  <2>. QED BY <1>4, <2>2, <2>4, <2>8
<1>12. CASE SendConfig
  <2>1. /\ sender = "on" /\ SendAll(EncodedConfig) /\ sender' = sender /\ breaks' = breaks
        /\ config_sent' = TRUE /\ ~config_sent /\ config_cached
    BY <1>12 DEF SendConfig
  <2>2. ~SendNext
    BY <2>1 DEF SendNext
  <2>3. Tells(f)'
    BY <1>0, <1>1, <1>12, <2>1, ConfigTold
  <2>4. Cuts' = Cuts /\ Len(connections') = Len(connections)
    BY <1>0, <2>1, ConfigType, SentCuts
  <2>. QED BY <1>4, <1>8, <2>1, <2>2, <2>3, <2>4
<1>13. CASE SendNext
  <2>1. /\ sender = "on" /\ HasNext /\ SendAll(NextToSend) /\ sender' = sender
        /\ breaks' = breaks /\ sent' = sent + 1
    BY <1>13 DEF SendNext
  <2>2. PICK e \in Nat : e = f + 1 /\ e = sent'
    BY <1>1, <2>1
  <2>3. damage = 0 \/ f < damage - 1
    <3>1. damage' = damage /\ damage \in Nat
      BY <1>0, <1>1, <2>1 DEF PhoneTypes
    <3>2. damage = 0 \/ e < damage
      BY <2>2, <3>1 DEF Sound
    <3>. QED BY <2>2, <3>1, <3>2
  <2>4. \E g : Holds(f, g)
    <3>1. ~(damage # 0 /\ sent >= damage - 1)
      BY <1>0, <1>1, <2>3 DEF PhoneTypes
    <3>. QED BY <1>0, <1>1, <3>1 DEF QueueInv, InOrder
  <2>5. f + 1 \in 1 .. Len(Script) /\ NextToSend = Encoded(Script[f + 1])
    BY <1>0, <2>1, <2>3, <2>4, NextIs
  <2>6. Tells(e)'
    BY <1>0, <1>1, <1>13, <2>1, <2>2, <2>5, MessageTold
  <2>7. NextToSend \in Seq(Nat)
    BY <1>0, <2>1, NextToSendType
  <2>8. Cuts' = Cuts /\ Len(connections') = Len(connections)
    BY <1>0, <2>1, <2>7, SentCuts
  <2>. QED BY <1>8, <2>1, <2>2, <2>6, <2>8
<1>14. CASE SendFails
  <2>1. /\ Tells(f)' /\ Len(connections') = Len(connections)
        /\ \/ breaks' = breaks + 1 /\ Cardinality(Cuts') = Cardinality(Cuts) + 1
           \/ breaks' = breaks /\ Cuts' = Cuts /\ Cuts # {}
    BY <1>0, <1>1, <1>14, FailTold
  <2>2. ~SendNext
    <3>1. sender = "on" /\ sender' = "off"
      BY <1>14 DEF SendFails
    <3>. QED BY <3>1 DEF SendNext
  <2>3. CASE breaks' = breaks /\ Cuts' = Cuts /\ Cuts # {}
    <3>1. IsFiniteSet(Cuts)
      BY <1>0, CutsFinite
    <3>2. breaks # 0
      BY <1>3, <2>3, <3>1, FS_EmptySet
    <3>3. CutsCounted'
      BY <2>3, <3>2 DEF CutsCounted
    <3>. QED BY <1>4, <2>1, <2>2, <3>3
  <2>. QED BY <1>4, <1>9, <2>1, <2>2, <2>3
<1>15. CASE Exit
  <2>1. Tells(f)' /\ Cuts' = Cuts /\ Len(connections') = Len(connections)
    BY <1>0, <1>1, <1>15, ExitTold
  <2>2. ~running_ /\ sender # "done" /\ sender' = "done" /\ breaks' = breaks
    BY <1>15 DEF Exit
  <2>3. ~SendNext
    BY <2>2 DEF SendNext
  <2>4. sender' # "off"
    BY <2>2
  <2>. QED BY <1>4, <1>8, <2>1, <2>2, <2>3, <2>4
<1>16. CASE Break
  <2>1. Tells(f)' /\ breaks' = breaks + 1 /\ Cardinality(Cuts') = Cardinality(Cuts) + 1
    BY <1>0, <1>1, <1>2, <1>16, BreakTold
  <2>2. ~SendNext
    BY <1>2, <2>1 DEF SendNext
  <2>. QED BY <1>4, <1>9, <2>1, <2>2
<1>17. CASE Sessions /\ ~SendNext
  <2>1. Tells(f)' /\ Cuts' = Cuts /\ Len(connections') = Len(connections)
    BY <1>0, <1>1, <1>17, SessionsTold
  <2>2. sender' = sender /\ breaks' = breaks
    BY <1>17 DEF Sessions, Session, Read, Handle, EndSession
  <2>. QED BY <1>4, <1>8, <1>17, <2>1, <2>2
<1>18. CASE UNCHANGED vars
  BY <1>10, <1>13, <1>18 DEF vars, historyVars
<1>19. CASE Capture
  BY <1>10, <1>13, <1>19 DEF Capture, Write, WriteDropped, WriteVideoConfig, Close, historyVars
<1>20. CASE PopShort
  BY <1>10, <1>13, <1>20 DEF PopShort, historyVars
<1>21. CASE Terminated
  BY <1>10, <1>13, <1>21 DEF Terminated, vars, historyVars
<1>. QED
  BY <1>11, <1>12, <1>13, <1>14, <1>15, <1>16, <1>17, <1>18, <1>19, <1>20, <1>21
  DEF Next, Sender

(* What is always so of what has gone out.                                 *)
Delivered ==
    /\ Sound => CutsCounted /\ Tells(sent)
    /\ ~Sound => Strays

LEMMA DeliveredStep == IInv /\ Delivered /\ [Next]_vars => Delivered'
<1>. SUFFICES ASSUME IInv, Delivered, [Next]_vars PROVE Delivered'
  OBVIOUS
<1>0. PhoneTypes /\ ConnectionTypes
  BY DEF IInv, QueueInv
<1>1. PICK a \in Nat, b \in Nat, w \in Nat : a = sent /\ b = damage /\ w = written
  BY <1>0, ScriptLength DEF PhoneTypes
<1>2. /\ damage' = b \/ (b = 0 /\ damage' = w + 1 /\ sent' = a)
      /\ sent' = a \/ (SendNext /\ sent' = a + 1)
  <2>1. ~SendNext => sent' = a
    BY <1>1, KeepKinds
  <2>2. SendNext => sent' = a + 1
    BY <1>1 DEF SendNext
  <2>3. damage' # b => WriteToSpool /\ b = 0 /\ damage' = w + 1
    BY <1>0, <1>1, DamageStays
  <2>4. damage' # b => ~SendNext
    BY <1>1, <2>3 DEF SendNext, WriteToSpool, phoneVars
  <2>. QED BY <2>1, <2>2, <2>3, <2>4
<1>3. CASE Sound /\ Sound'
  <2>1. damage' = damage \/ sent' = sent
    BY <1>1, <1>2
  <2>2. CutsCounted' /\ Tells(sent)'
    BY <1>3, <2>1, TellsStep DEF Delivered
  <2>. QED BY <1>3, <2>2 DEF Delivered
<1>4. CASE Sound /\ ~Sound'
  <2>1. a <= w
    BY <1>1, <1>4, SoundSent
  <2>2. b # 0 /\ damage' = b /\ SendNext /\ a = b - 1
    BY <1>1, <1>2, <1>4, <2>1 DEF Sound
  <2>3. Tells(a)
    BY <1>1, <1>4 DEF Delivered
  <2>4. Strays
    BY <1>0, <1>1, <2>2, <2>3, TellsStrays
  <2>5. Strays'
    BY <1>1, <2>2, <2>4, StraysStep
  <2>. QED BY <1>4, <2>5 DEF Delivered
<1>5. CASE ~Sound
  <2>1. b # 0 /\ ~(a < b)
    BY <1>1, <1>5 DEF Sound
  <2>2. ~Sound'
    BY <1>1, <1>2, <2>1 DEF Sound
  <2>3. Strays'
    BY <1>1, <1>5, <2>1, StraysStep DEF Delivered
  <2>. QED BY <2>2, <2>3 DEF Delivered
<1>. QED BY <1>3, <1>4, <1>5

(* It is so at the start, and so always.                                   *)
LEMMA InitDelivered == Init => Delivered
<1>. SUFFICES ASSUME Init PROVE Delivered
  OBVIOUS
<1>1. connections = <<>> /\ breaks = 0 /\ damage = 0 /\ sent = 0
  BY DEF Init
<1>2. PICK story : story = <<>>
  OBVIOUS
<1>3. story \in Seq(Stories) /\ Len(story) = 0 /\ Len(connections) = 0
  BY <1>1, <1>2, EmptySeq
<1>4. Told(sent, story)
  BY <1>1, <1>3 DEF Told
<1>5. Cuts = {}
  BY <1>3 DEF Cuts
<1>6. CutsCounted
  BY <1>1, <1>3, <1>5, FS_EmptySet DEF CutsCounted
<1>7. Sound
  BY <1>1 DEF Sound
<1>. QED BY <1>4, <1>6, <1>7 DEF Delivered, Tells

LEMMA DeliveredAlways == Spec => [](IInv /\ Delivered)
<1>1. Init => IInv /\ Delivered
  BY InitIInv, InitDelivered
<1>2. (IInv /\ Delivered) /\ [Next]_vars => (IInv /\ Delivered)'
  BY IInvStep, DeliveredStep
<1>. QED BY <1>1, <1>2, PTL DEF Spec

-----------------------------------------------------------------------------
(* What the sessions have recorded, from what their connections carried.   *)

Run(a, b) == [i \in 1 .. b - a |-> a + i]
DataOf(q, j) == [k \in 1 .. j |-> Data(q[k])]

LEMMA RunType ==
  ASSUME NEW a \in Nat, NEW b \in Nat, a <= b
  PROVE  /\ Run(a, b) \in Seq(Nat) /\ Len(Run(a, b)) = b - a /\ b - a \in Nat
         /\ \A i \in 1 .. b - a : Run(a, b)[i] = a + i
<1>1. PICK n \in Nat : n = b - a
  OBVIOUS
<1>2. PICK w : w = [i \in 1 .. n |-> a + i]
  OBVIOUS
<1>3. \A i \in 1 .. n : a + i \in Nat
  OBVIOUS
<1>4. w \in Seq(Nat) /\ Len(w) = n /\ \A i \in 1 .. n : w[i] = a + i
  BY <1>2, <1>3
<1>. QED BY <1>1, <1>2, <1>4 DEF Run

(* The same of a sequence that is a run.                                   *)
IsRun(x, a, b) == x \in Seq(Nat) /\ Len(x) = b - a /\ \A i \in 1 .. b - a : x[i] = a + i
LEMMA RunIs ==
  ASSUME NEW a \in Nat, NEW b \in Nat, a <= b
  PROVE  IsRun(Run(a, b), a, b)
BY RunType DEF IsRun

(* A run is continued by its next number.                                  *)
LEMMA RunGrows ==
  ASSUME NEW a \in Nat, NEW b \in Nat, a <= b, NEW c \in Nat, c = b + 1
  PROVE  Joins(Run(a, b), <<c>>, Run(a, c))
<1>1. PICK n \in Nat : n = b - a
  OBVIOUS
<1>2. PICK w, v, z : w = Run(a, b) /\ v = Run(a, c) /\ z = <<c>>
  OBVIOUS
<1>3. w \in Seq(Nat) /\ Len(w) = n /\ \A i \in 1 .. n : w[i] = a + i
  BY <1>1, <1>2, RunType
<1>4. v \in Seq(Nat) /\ Len(v) = n + 1 /\ \A i \in 1 .. n + 1 : v[i] = a + i
  <2>1. c \in Nat /\ a <= c /\ c - a = n + 1
    BY <1>1
  <2>2. v \in Seq(Nat) /\ Len(v) = c - a /\ \A i \in 1 .. c - a : v[i] = a + i
    <3>1. a \in Nat /\ c \in Nat /\ a <= c /\ v = Run(a, c)
      BY <1>2, <2>1
    <3>2. IsRun(v, a, c)
      BY <3>1, RunIs
    <3>. QED BY <3>2 DEF IsRun
  <2>. QED BY <2>1, <2>2
<1>5. z \in Seq(Nat) /\ Len(z) = 1 /\ z[1] = c
  BY <1>2
<1>6. PICK x : x = w \o z
  OBVIOUS
<1>7. /\ x \in Seq(Nat) /\ Len(x) = n + 1
      /\ \A i \in 1 .. n + 1 : x[i] = IF i <= n THEN w[i] ELSE z[i - n]
  <2>1. /\ w \o z \in Seq(Nat) /\ Len(w \o z) = Len(w) + Len(z)
        /\ \A i \in 1 .. Len(w) + Len(z) :
              (w \o z)[i] = IF i <= Len(w) THEN w[i] ELSE z[i - Len(w)]
    BY <1>3, <1>5, ConcatProperties
  <2>. QED BY <1>3, <1>5, <1>6, <2>1
<1>8. ASSUME NEW i \in 1 .. n + 1 PROVE v[i] = x[i]
  <2>1. CASE i = n + 1
    <3>1. x[i] = z[1] /\ a + i = c
      BY <1>1, <1>7, <2>1
    <3>. QED BY <1>4, <1>5, <3>1
  <2>2. CASE i # n + 1
    <3>1. i \in 1 .. n /\ i <= n
      BY <2>2
    <3>. QED BY <1>3, <1>4, <1>7, <3>1
  <2>. QED BY <2>1, <2>2
<1>9. v = x
  BY <1>4, <1>7, <1>8, SeqEqual
<1>. QED BY <1>2, <1>3, <1>5, <1>6, <1>9 DEF Joins

(* One record more comes last.                                             *)
LEMMA DataGrows ==
  ASSUME NEW S, NEW q, NEW j \in Nat, NEW k \in Nat, k = j + 1, NEW w, w = DataOf(q, j),
         w \in Seq(S), Len(w) = j, NEW d, d = Data(q[k]), d \in S
  PROVE  DataOf(q, k) = Append(w, d)
<1>1. PICK x : x = Append(w, d)
  OBVIOUS
<1>2. Len(x) = k /\ (\A i \in 1 .. j : x[i] = w[i]) /\ x[k] = d /\ x \in Seq(S)
  BY <1>1, AppendProperties
<1>3. DOMAIN x = 1 .. k
  BY <1>2, LenProperties
<1>4. \A i \in 1 .. j : w[i] = Data(q[i])
  BY DEF DataOf
<1>5. ASSUME NEW i \in 1 .. k PROVE x[i] = Data(q[i])
  BY <1>2, <1>4
<1>6. x = [i \in 1 .. k |-> x[i]]
  BY <1>2, <1>3
<1>7. x = [i \in 1 .. k |-> Data(q[i])]
  BY <1>5, <1>6
<1>. QED BY <1>1, <1>7 DEF DataOf

(* With one record more the recorded messages are a run one longer, or the *)
(* same run.                                                               *)
LEMMA DataStep ==
  ASSUME NEW s \in Stories, NEW q, NEW j \in Nat, NEW k \in Nat, k = j + 1,
         Is(q[k], Item(s, k)), FlattenSeq(DataOf(q, j)) = Run(s.lo, After(s, j)),
         DataOf(q, j) \in Seq(Seq(Nat))
  PROVE  /\ FlattenSeq(DataOf(q, k)) = Run(s.lo, After(s, k))
         /\ DataOf(q, k) \in Seq(Seq(Nat))
<1>1. PICK w, v, d, Q : w = DataOf(q, j) /\ v = DataOf(q, k) /\ d = Data(q[k]) /\ Q = Seq(Nat)
  OBVIOUS
<1>2. PICK a \in Nat, b \in Nat : a = s.lo /\ b = After(s, j) /\ a <= b
  <2>1. j <= j
    OBVIOUS
  <2>2. After(s, j) \in Nat /\ s.lo <= After(s, j) /\ s.lo \in Nat
    BY <2>1, AfterGrows DEF Stories
  <2>. QED BY <2>2
<1>3. w \in Seq(Q) /\ Len(w) = j
  <2>1. DOMAIN w = 1 .. j
    BY <1>1 DEF DataOf
  <2>2. w \in Seq(Q)
    BY <1>1
  <2>3. DOMAIN w = 1 .. Len(w) /\ Len(w) \in Nat
    BY <2>2, LenProperties
  <2>. QED BY <2>1, <2>2, <2>3
<1>4. CASE k = s.config
  <2>1. Item(s, k) = 0
    BY <1>4 DEF Item
  <2>2. d = <<>>
    BY <1>1, <2>1 DEF Is, Data
  <2>3. After(s, k) = b
    <3>1. s.config \in 1 .. k /\ s.config \notin 1 .. j
      BY <1>4
    <3>2. After(s, k) = s.lo + k - 1 /\ After(s, j) = s.lo + j - 0
      BY <3>1 DEF After
    <3>. QED BY <1>2, <3>2
  <2>4. d \in Q
    BY <1>1, <2>2, EmptySeq
  <2>5. v = Append(w, d)
    BY <1>1, <1>3, <2>4, DataGrows
  <2>6. FlattenSeq(v) = FlattenSeq(w) \o d
    BY <1>1, <1>3, <2>4, <2>5, FlattenAppend
  <2>7. Run(a, b) \o <<>> = Run(a, b)
    BY <1>2, RunType, ConcatEmptySeq
  <2>8. v \in Seq(Q)
    BY <1>3, <2>4, <2>5, AppendProperties
  <2>. QED BY <1>1, <1>2, <2>2, <2>3, <2>6, <2>7, <2>8
<1>5. CASE k # s.config
  <2>1. PICK c \in Nat : c = b + 1
    BY <1>2
  <2>2. After(s, k) = c /\ Item(s, k) = c
    <3>1. j < k /\ j <= k /\ s.config \notin j + 1 .. k
      BY <1>5
    <3>2. After(s, k) = After(s, j) + (k - j)
      BY <3>1, AfterGrows
    <3>. QED BY <1>2, <1>5, <2>1, <3>2 DEF Item
  <2>3. d = <<c>>
    <3>1. c # 0
      BY <1>2, <2>1
    <3>. QED BY <1>1, <2>2, <3>1 DEF Is, Data
  <2>4. d \in Q
    BY <1>1, <2>3
  <2>5. v = Append(w, d)
    BY <1>1, <1>3, <2>4, DataGrows
  <2>6. FlattenSeq(v) = FlattenSeq(w) \o d
    BY <1>1, <1>3, <2>4, <2>5, FlattenAppend
  <2>7. Run(a, c) = Run(a, b) \o <<c>>
    <3>1. Joins(Run(a, b), <<c>>, Run(a, c))
      BY <1>2, <2>1, RunGrows
    <3>. QED BY <3>1 DEF Joins
  <2>8. v \in Seq(Q)
    BY <1>3, <2>4, <2>5, AppendProperties
  <2>. QED BY <1>1, <1>2, <2>2, <2>3, <2>6, <2>7, <2>8
<1>. QED BY <1>4, <1>5

(* What was recorded of the items of a story is a run of messages.         *)
LEMMA DataRun ==
  ASSUME NEW s \in Stories, NEW q, NEW h \in Nat, \A k \in 1 .. h : Is(q[k], Item(s, k))
  PROVE  FlattenSeq(DataOf(q, h)) = Run(s.lo, After(s, h))
<1>. DEFINE T == {j \in Nat : j <= h =>
                     /\ FlattenSeq(DataOf(q, j)) = Run(s.lo, After(s, j))
                     /\ DataOf(q, j) \in Seq(Seq(Nat))}
<1>1. 0 \in T
  <2>1. PICK a \in Nat : a = s.lo /\ After(s, 0) = a
    <3>1. 0 <= 0
      OBVIOUS
    <3>. QED BY <3>1, AfterGrows DEF Stories
  <2>2. Run(a, a) = <<>>
    <3>1. PICK w : w = Run(a, a)
      OBVIOUS
    <3>2. a <= a /\ a - a = 0
      OBVIOUS
    <3>3. w \in Seq(Nat) /\ Len(w) = 0
      BY <3>1, <3>2, RunType
    <3>. QED BY <3>1, <3>3, EmptySeq
  <2>3. DataOf(q, 0) = <<>>
    BY DEF DataOf
  <2>4. <<>> \in Seq(Seq(Nat))
    BY EmptySeq
  <2>. QED BY <2>1, <2>2, <2>3, <2>4, FlattenEmpty
<1>2. ASSUME NEW j \in Nat, j \in T PROVE j + 1 \in T
  <2>1. PICK k \in Nat : k = j + 1
    OBVIOUS
  <2>2. ASSUME k <= h
        PROVE  /\ FlattenSeq(DataOf(q, k)) = Run(s.lo, After(s, k))
               /\ DataOf(q, k) \in Seq(Seq(Nat))
    <3>1. j <= h /\ k \in 1 .. h
      BY <2>1, <2>2
    <3>2. Is(q[k], Item(s, k))
      BY <3>1
    <3>3. /\ FlattenSeq(DataOf(q, j)) = Run(s.lo, After(s, j))
          /\ DataOf(q, j) \in Seq(Seq(Nat))
      BY <1>2, <3>1
    <3>. QED BY <2>1, <3>2, <3>3, DataStep
  <2>. QED BY <2>1, <2>2
<1>3. Nat \subseteq T
  <2>. HIDE DEF T
  <2>. QED BY <1>1, <1>2, NatSetInduction
<1>4. h \in T /\ h <= h
  BY <1>3
<1>. QED BY <1>4

(* Every session has recorded a run of messages, of what its connection    *)
(* carried.                                                                *)
RanTo(c, s, b) ==
    /\ s.lo <= b /\ b <= Upto(s) /\ RecordedBy(c) = Run(s.lo, b)

(* So what a session recorded is a run, from where its connection began.   *)
LEMMA SessionRecords ==
  ASSUME connections \in Seq(Connections), NEW c \in 1 .. Len(connections),
         NEW s, Carries(s, connections[c]),
         NEW h, h = Len(connections[c].recorded)
  PROVE  /\ s \in Stories /\ h \in Nat /\ h <= s.sent /\ After(s, h) \in Nat
         /\ RanTo(c, s, After(s, h))
<1>1. PICK r, q : r = connections[c] /\ q = r.recorded
  OBVIOUS
<1>2. q \in Seq(Records) /\ h = Len(q)
  <2>1. r \in Connections
    BY <1>1, ElementOfSeq
  <2>. QED BY <1>1, <2>1 DEF Connections
<1>3. h \in Nat /\ DOMAIN q = 1 .. h
  BY <1>2, LenProperties
<1>4. s \in Stories /\ h <= s.sent /\ \A k \in 1 .. h : Is(q[k], Item(s, k))
  BY <1>1, <1>2 DEF Carries
<1>5. FlattenSeq(DataOf(q, h)) = Run(s.lo, After(s, h))
  BY <1>3, <1>4, DataRun
<1>6. RecordedBy(c) = FlattenSeq(DataOf(q, h))
  BY <1>1, <1>3 DEF RecordedBy, DataOf
<1>7. After(s, h) \in Nat /\ s.lo <= After(s, h) /\ After(s, h) <= Upto(s)
  <2>1. PICK n \in Nat : n = s.sent
    BY <1>4, UptoType
  <2>2. h <= n
    BY <1>4, <2>1
  <2>. QED BY <1>3, <1>4, <2>1, <2>2, AfterGrows DEF Upto
<1>. QED BY <1>3, <1>4, <1>5, <1>6, <1>7 DEF RanTo

Rising(x, b) ==
    /\ x \in Seq(Nat)
    /\ \A i \in 1 .. Len(x) : x[i] > 0 /\ x[i] <= b
    /\ \A i, j \in 1 .. Len(x) : i < j => x[i] < x[j]

(* A later run behind rising numbers rises.                                *)
LEMMA RisingRun ==
  ASSUME NEW x, NEW a \in Nat, NEW b \in Nat, a <= b, Rising(x, a), NEW y, y = x \o Run(a, b)
  PROVE  Rising(y, b)
<1>0. PICK m \in Nat, n \in Nat : m = Len(x) /\ n = b - a
  BY LenIsNat DEF Rising
<1>1. PICK w : w = Run(a, b) /\ m = Len(x) /\ n = b - a
  BY <1>0
<1>2. w \in Seq(Nat) /\ Len(w) = n /\ \A i \in 1 .. n : w[i] = a + i
  BY <1>1, RunType
<1>3. x \in Seq(Nat) /\ \A i \in 1 .. m : x[i] \in Nat
  BY <1>1, ElementOfSeq DEF Rising
<1>4. /\ y \in Seq(Nat) /\ Len(y) = m + n
      /\ \A i \in 1 .. m + n : y[i] = IF i <= m THEN x[i] ELSE w[i - m]
  <2>1. /\ x \o w \in Seq(Nat) /\ Len(x \o w) = Len(x) + Len(w)
        /\ \A i \in 1 .. Len(x) + Len(w) :
              (x \o w)[i] = IF i <= Len(x) THEN x[i] ELSE w[i - Len(x)]
    BY <1>2, <1>3, ConcatProperties
  <2>. QED BY <1>1, <1>2, <2>1
<1>5. ASSUME NEW i \in 1 .. m + n
      PROVE  \/ i \in 1 .. m /\ y[i] = x[i]
             \/ i - m \in 1 .. n /\ y[i] = a + (i - m)
  <2>1. CASE i <= m
    BY <1>4, <2>1
  <2>2. CASE i > m
    <3>1. i - m \in 1 .. n /\ ~(i <= m)
      BY <2>2
    <3>2. y[i] = w[i - m]
      BY <1>4, <3>1
    <3>. QED BY <1>2, <3>1, <3>2
  <2>3. i <= m \/ i > m
    BY <1>0
  <2>. QED BY <2>1, <2>2, <2>3
<1>6. \A i \in 1 .. m : x[i] > 0 /\ x[i] <= a
  BY <1>1 DEF Rising
<1>7. \A i, j \in 1 .. m : i < j => x[i] < x[j]
  BY <1>1 DEF Rising
<1>8. ASSUME NEW i \in 1 .. m + n PROVE y[i] > 0 /\ y[i] <= b
  <2>1. CASE i \in 1 .. m /\ y[i] = x[i]
    BY <1>3, <1>6, <2>1
  <2>2. CASE i - m \in 1 .. n /\ y[i] = a + (i - m)
    BY <1>1, <2>2
  <2>. QED BY <1>5, <2>1, <2>2
<1>9. ASSUME NEW i \in 1 .. m + n, NEW j \in 1 .. m + n, i < j PROVE y[i] < y[j]
  <2>1. CASE j \in 1 .. m /\ y[j] = x[j]
    <3>1. i \in 1 .. m /\ i <= m
      BY <1>9, <2>1
    <3>. QED BY <1>4, <1>7, <1>9, <2>1, <3>1
  <2>2. CASE j - m \in 1 .. n /\ y[j] = a + (j - m)
    <3>1. CASE i \in 1 .. m /\ y[i] = x[i]
      BY <1>3, <1>6, <2>2, <3>1
    <3>2. CASE i - m \in 1 .. n /\ y[i] = a + (i - m)
      BY <1>9, <2>2, <3>2
    <3>. QED BY <1>5, <3>1, <3>2
  <2>. QED BY <1>5, <2>1, <2>2
<1>. QED BY <1>4, <1>8, <1>9 DEF Rising

(* What the first j sessions have recorded together.                       *)
RecordedIn(j) == FlattenSeq([c \in 1 .. j |-> RecordedBy(c)])

(* The sessions together: one session more comes last.                     *)
LEMMA RecordedMore ==
  ASSUME NEW j \in Nat, NEW k \in Nat, k = j + 1,
         \A c \in 1 .. k : RecordedBy(c) \in Seq(Nat)
  PROVE  Joins(RecordedIn(j), RecordedBy(k), RecordedIn(k))
<1>1. PICK Q, w, y : Q = Seq(Nat) /\ w = [c \in 1 .. j |-> RecordedBy(c)] /\ y = RecordedBy(k)
  OBVIOUS
<1>2. w \in Seq(Q) /\ Len(w) = j /\ y \in Q
  BY <1>1
<1>3. PICK x : x = Append(w, y)
  OBVIOUS
<1>4. Len(x) = k /\ (\A i \in 1 .. j : x[i] = w[i]) /\ x[k] = y /\ x \in Seq(Q)
  BY <1>2, <1>3, AppendProperties
<1>5. DOMAIN x = 1 .. k
  BY <1>4, LenProperties
<1>6. ASSUME NEW i \in 1 .. k PROVE x[i] = RecordedBy(i)
  <2>1. CASE i = k
    BY <1>1, <1>4, <2>1
  <2>2. CASE i # k
    <3>1. i \in 1 .. j
      BY <2>2
    <3>2. w[i] = RecordedBy(i)
      BY <1>1, <3>1
    <3>. QED BY <1>4, <3>1, <3>2
  <2>. QED BY <2>1, <2>2
<1>7. x = [i \in 1 .. k |-> x[i]]
  BY <1>4, <1>5
<1>8. x = [i \in 1 .. k |-> RecordedBy(i)]
  BY <1>6, <1>7
<1>9. FlattenSeq(x) = FlattenSeq(w) \o y
  BY <1>1, <1>2, <1>3, FlattenAppend
<1>10. FlattenSeq(w) \in Seq(Nat) /\ y \in Seq(Nat)
  BY <1>1, <1>2, FlattenType
<1>. QED BY <1>1, <1>8, <1>9, <1>10 DEF RecordedIn, Joins

(* Runs that follow each other rise together.                              *)
LEMMA RunsRise ==
  ASSUME NEW n \in Nat, NEW story, NEW last,
         \A c \in 1 .. n : /\ story[c] \in Stories /\ last[c] \in Nat
                           /\ RanTo(c, story[c], last[c]),
         \A c, d \in 1 .. n : c < d => Upto(story[c]) <= story[d].lo
  PROVE  \E b \in Nat : Rising(RecordedIn(n), b)
<1>0. ASSUME NEW c \in 1 .. n
      PROVE  /\ story[c].lo \in Nat /\ last[c] \in Nat /\ Upto(story[c]) \in Nat
             /\ story[c].lo <= last[c] /\ last[c] <= Upto(story[c])
             /\ RecordedBy(c) = Run(story[c].lo, last[c]) /\ RecordedBy(c) \in Seq(Nat)
  <2>1. /\ story[c].lo \in Nat /\ last[c] \in Nat /\ Upto(story[c]) \in Nat
        /\ story[c].lo <= last[c] /\ last[c] <= Upto(story[c])
        /\ RecordedBy(c) = Run(story[c].lo, last[c])
    BY UptoType DEF RanTo
  <2>. QED BY <2>1, RunType
<1>. DEFINE Bound(j, b) == Rising(RecordedIn(j), b) /\ \A d \in j + 1 .. n : b <= story[d].lo
            T == {j \in Nat : j <= n => \E b \in Nat : Bound(j, b)}
<1>1. 0 \in T
  <2>1. [c \in 1 .. 0 |-> RecordedBy(c)] = <<>>
    OBVIOUS
  <2>2. PICK z : z = RecordedIn(0)
    OBVIOUS
  <2>3. z = <<>>
    BY <2>1, <2>2, FlattenEmpty DEF RecordedIn
  <2>4. z \in Seq(Nat) /\ Len(z) = 0
    BY <2>3, EmptySeq
  <2>5. Rising(z, 0)
    BY <2>4 DEF Rising
  <2>6. \A d \in 0 + 1 .. n : 0 <= story[d].lo
    BY <1>0
  <2>7. Bound(0, 0)
    BY <2>2, <2>5, <2>6
  <2>. QED BY <2>7
<1>2. ASSUME NEW j \in Nat, j \in T PROVE j + 1 \in T
  <2>1. PICK k \in Nat : k = j + 1
    OBVIOUS
  <2>2. ASSUME k <= n PROVE \E b \in Nat : Bound(k, b)
    <3>1. k \in 1 .. n /\ j <= n /\ \A c \in 1 .. k : c \in 1 .. n
      BY <2>1, <2>2
    <3>2. PICK b \in Nat : Bound(j, b)
      BY <1>2, <3>1
    <3>3. PICK a, e : a = story[k].lo /\ e = last[k]
      OBVIOUS
    <3>4. a \in Nat /\ e \in Nat /\ a <= e /\ e <= Upto(story[k]) /\ RecordedBy(k) = Run(a, e)
      BY <1>0, <3>1, <3>3
    <3>5. b <= a
      <4>1. k \in j + 1 .. n
        BY <2>1, <2>2
      <4>. QED BY <3>2, <3>3, <4>1
    <3>6. PICK x, y : x = RecordedIn(j) /\ y = RecordedIn(k)
      OBVIOUS
    <3>7. Rising(x, a)
      <4>1. Rising(x, b)
        BY <3>2, <3>6
      <4>2. \A i \in 1 .. Len(x) : x[i] \in Nat
        BY <4>1, ElementOfSeq DEF Rising
      <4>. QED BY <3>4, <3>5, <4>1, <4>2 DEF Rising
    <3>8. y = x \o Run(a, e)
      <4>1. \A c \in 1 .. k : RecordedBy(c) \in Seq(Nat)
        BY <1>0, <3>1
      <4>2. Joins(RecordedIn(j), RecordedBy(k), RecordedIn(k))
        BY <2>1, <4>1, RecordedMore
      <4>. QED BY <3>4, <3>6, <4>2 DEF Joins
    <3>9. Rising(y, e)
      BY <3>4, <3>7, <3>8, RisingRun
    <3>10. ASSUME NEW d \in k + 1 .. n PROVE e <= story[d].lo
      <4>1. d \in 1 .. n /\ k < d
        BY <3>1
      <4>2. Upto(story[k]) <= story[d].lo
        BY <3>1, <4>1
      <4>3. story[d].lo \in Nat /\ Upto(story[k]) \in Nat
        BY <1>0, <3>1, <4>1
      <4>. QED BY <3>4, <4>2, <4>3
    <3>11. Bound(k, e)
      BY <3>6, <3>9, <3>10
    <3>. QED BY <3>4, <3>11
  <2>. QED BY <2>1, <2>2
<1>3. Nat \subseteq T
  <2>. HIDE DEF T
  <2>. QED BY <1>1, <1>2, NatSetInduction
<1>4. n \in T /\ n <= n
  BY <1>3
<1>5. PICK b \in Nat : Bound(n, b)
  BY <1>4
<1>. QED BY <1>5

(* The sessions of a story, each with the last message it has recorded.    *)
LEMMA StoryRecorded ==
  ASSUME connections \in Seq(Connections), NEW f, NEW story, Told(f, story),
         NEW n \in Nat, n = Len(connections)
  PROVE  \E last :
            /\ \A c \in 1 .. n : /\ story[c] \in Stories /\ last[c] \in Nat
                                 /\ RanTo(c, story[c], last[c])
                                 /\ last[c] = After(story[c], Len(connections[c].recorded))
            /\ \A c, d \in 1 .. n : c < d => Upto(story[c]) <= story[d].lo
<1>1. PICK last :
          last = [c \in 1 .. n |-> After(story[c], Len(connections[c].recorded))]
  OBVIOUS
<1>2. ASSUME NEW c \in 1 .. n
      PROVE  /\ story[c] \in Stories /\ last[c] \in Nat
             /\ RanTo(c, story[c], last[c])
             /\ last[c] = After(story[c], Len(connections[c].recorded))
  <2>1. Carries(story[c], connections[c])
    BY DEF Told
  <2>2. PICK s, h : s = story[c] /\ h = Len(connections[c].recorded)
    OBVIOUS
  <2>3. s \in Stories /\ After(s, h) \in Nat /\ RanTo(c, s, After(s, h))
    BY <2>1, <2>2, SessionRecords
  <2>4. last[c] = After(s, h)
    BY <1>1, <2>2
  <2>. QED BY <2>2, <2>3, <2>4
<1>3. \A c, d \in 1 .. n : c < d => Upto(story[c]) <= story[d].lo
  BY DEF Told
<1>. QED BY <1>2, <1>3

(* All of them are what the properties call recorded.                      *)
LEMMA RecordedInAll ==
  ASSUME connections \in Seq(Connections), NEW n \in Nat, n = Len(connections)
  PROVE  Recorded = RecordedIn(n)
<1>1. DOMAIN connections = 1 .. n
  BY LenProperties
<1>. QED BY <1>1 DEF Recorded, RecordedIn

(* The sessions together record messages that the phone wrote, in its      *)
(* order and none twice, whatever sends fail, whatever is put back, and    *)
(* with several sessions live; and the server drops no connection itself.  *)
THEOREM ServerRecordsWhatWasWritten == Spec => []RecordedAsWritten
<1>1. IInv /\ Delivered => RecordedAsWritten
  <2>. SUFFICES ASSUME IInv, Delivered, Sound
                PROVE  /\ \A i \in DOMAIN Recorded : Recorded[i] > 0
                       /\ \A i, j \in DOMAIN Recorded : i < j => Recorded[i] < Recorded[j]
                       /\ Cardinality({c \in DOMAIN connections : connections[c].cut}) = breaks
    BY DEF RecordedAsWritten
  <2>1. connections \in Seq(Connections)
    BY DEF IInv, ConnectionTypes
  <2>2. PICK n \in Nat : n = Len(connections) /\ DOMAIN connections = 1 .. n
    BY <2>1, LenProperties
  <2>3. PICK f, story : Told(f, story)
    BY DEF Delivered, Tells
  <2>4. PICK last :
            /\ \A c \in 1 .. n : /\ story[c] \in Stories /\ last[c] \in Nat
                                 /\ RanTo(c, story[c], last[c])
            /\ \A c, d \in 1 .. n : c < d => Upto(story[c]) <= story[d].lo
    BY <2>1, <2>2, <2>3, StoryRecorded
  <2>5. PICK b \in Nat : Rising(RecordedIn(n), b)
    BY <2>4, RunsRise
  <2>6. PICK x : x = Recorded /\ x = RecordedIn(n)
    BY <2>1, <2>2, RecordedInAll
  <2>7. DOMAIN x = 1 .. Len(x)
    BY <2>5, <2>6, LenProperties DEF Rising
  <2>8. Rising(x, b)
    BY <2>5, <2>6
  <2>9. /\ \A i \in DOMAIN x : x[i] > 0
        /\ \A i, j \in DOMAIN x : i < j => x[i] < x[j]
    BY <2>7, <2>8 DEF Rising
  <2>10. {c \in DOMAIN connections : connections[c].cut} = Cuts
    BY <2>2 DEF Cuts
  <2>11. Cardinality(Cuts) = breaks
    BY DEF Delivered, CutsCounted
  <2>. QED BY <2>6, <2>9, <2>10, <2>11
<1>. QED BY <1>1, DeliveredAlways, PTL

(* Inside a session no message of the capture is missing, and a connection *)
(* that was never cut has brought all that was sent, once it has arrived.  *)
THEOREM LossNeedsADrop == Spec => []LossOnlyAtDrops
<1>1. IInv /\ Delivered => LossOnlyAtDrops
  <2>. SUFFICES ASSUME IInv, Delivered, Sound
                PROVE  /\ \A c \in DOMAIN connections : \A k \in 2 .. Len(RecordedBy(c)) :
                             RecordedBy(c)[k] = RecordedBy(c)[k - 1] + 1
                       /\ breaks = 0 /\ connections # <<>> /\ Arrived(Current) =>
                             /\ Len(Recorded) = sent
                             /\ \A k \in DOMAIN Recorded : Recorded[k] = k
    BY DEF LossOnlyAtDrops
  <2>1. connections \in Seq(Connections) /\ PhoneTypes
    BY DEF IInv, QueueInv, ConnectionTypes
  <2>2. PICK n \in Nat : n = Len(connections) /\ DOMAIN connections = 1 .. n
    BY <2>1, LenProperties
  <2>3. PICK f \in Nat : f = sent /\ Tells(f)
    BY SoundSent DEF Delivered
  <2>4. PICK story : Told(f, story)
    BY <2>3 DEF Tells
  <2>5. PICK last :
            \A c \in 1 .. n : /\ story[c] \in Stories /\ last[c] \in Nat
                              /\ RanTo(c, story[c], last[c])
                              /\ last[c] = After(story[c], Len(connections[c].recorded))
    BY <2>1, <2>2, <2>4, StoryRecorded
  <2>. DEFINE Counts(c, a, x) ==
                 /\ a = story[c].lo /\ a <= last[c] /\ x \in Seq(Nat)
                 /\ Len(x) = last[c] - a
                 /\ \A i \in 1 .. last[c] - a : x[i] = a + i
  <2>6. ASSUME NEW c \in 1 .. n, NEW x, x = RecordedBy(c)
        PROVE  \E a \in Nat : Counts(c, a, x)
    <3>1. PICK a \in Nat, b \in Nat : a = story[c].lo /\ b = last[c] /\ a <= b /\ x = Run(a, b)
      BY <2>5, <2>6, UptoType DEF RanTo
    <3>2. IsRun(x, a, b)
      BY <3>1, RunIs
    <3>. QED BY <3>1, <3>2 DEF IsRun
  <2>7. ASSUME NEW c \in DOMAIN connections, NEW k \in 2 .. Len(RecordedBy(c))
        PROVE  RecordedBy(c)[k] = RecordedBy(c)[k - 1] + 1
    <3>1. PICK x : x = RecordedBy(c)
      OBVIOUS
    <3>1A. c \in 1 .. n /\ last[c] \in Nat
      BY <2>2, <2>5
    <3>1B. PICK a \in Nat : Counts(c, a, x)
      <4>. HIDE DEF Counts
      <4>. QED BY <2>6, <3>1, <3>1A
    <3>1C. PICK m \in Nat : m = last[c] - a
      BY <3>1A, <3>1B
    <3>2. x \in Seq(Nat) /\ Len(x) = m /\ \A i \in 1 .. m : x[i] = a + i
      BY <3>1B, <3>1C
    <3>3. k \in 1 .. m /\ k - 1 \in 1 .. m
      BY <3>1, <3>2
    <3>. QED BY <3>1, <3>2, <3>3
  <2>8. ASSUME breaks = 0, connections # <<>>, Arrived(Current)
        PROVE  Len(Recorded) = sent /\ \A k \in DOMAIN Recorded : Recorded[k] = k
    <3>1. Cardinality(Cuts) = 0 /\ n <= 1
      BY <2>2, <2>8 DEF Delivered, CutsCounted
    <3>2. n = 1 /\ Current = 1
      <4>1. n # 0
        BY <2>1, <2>2, <2>8, EmptySeq
      <4>. QED BY <2>2, <3>1, <4>1 DEF Current
    <3>3. ~connections[1].cut
      <4>1. Cuts = {}
        BY <2>1, <3>1, CutsFinite, FS_EmptySet
      <4>. QED BY <2>2, <3>2, <4>1 DEF Cuts
    <3>4. PICK s, r, h : s = story[1] /\ r = connections[1] /\ h = Len(r.recorded)
      OBVIOUS
    <3>5. Carries(s, r) /\ Upto(s) = f /\ s.lo = 0
      <4>1. 1 \in 1 .. Len(connections)
        BY <2>2, <3>2
      <4>. QED BY <2>4, <2>8, <3>2, <3>3, <3>4, <4>1 DEF Told
    <3>6. /\ s \in Stories /\ h \in Nat /\ h <= s.sent /\ Upto(s) <= Len(Script)
          /\ s.sent \in Nat
      <4>1. 1 \in 1 .. Len(connections)
        BY <2>2, <3>2
      <4>2. s \in Stories /\ h \in Nat /\ h <= s.sent
        BY <2>1, <3>4, <3>5, <4>1, SessionRecords
      <4>. QED BY <3>5, <4>2, UptoType DEF Carries
    <3>7. PICK w, z : w = UnderWay(s, h) /\ z = <<>>
      OBVIOUS
    <3>8. w \in Seq(Wholes) /\ Len(w) = s.sent - h
      BY <3>6, <3>7, UnderWayType
    <3>9. w = <<>>
      <4>1. r.flight = z /\ ~HasMessage(r.buffer)
        BY <2>8, <3>2, <3>4, <3>7 DEF Arrived
      <4>2. OnItsWay(s, r, z)
        BY <3>3, <3>4, <3>5, <3>7 DEF Carries
      <4>3. r.buffer \in Seq(Nat) /\ r.buffer \o z = FlattenSeq(w) \o z
        BY <3>4, <3>7, <4>1, <4>2 DEF OnItsWay, Joins
      <4>4. r.buffer \o z = r.buffer /\ FlattenSeq(w) \o z = FlattenSeq(w)
        BY <3>7, <3>8, <4>3, WholesFlatten, ConcatEmptySeq
      <4>5. PICK b : b = r.buffer /\ b = FlattenSeq(w) /\ ~HasMessage(b)
        BY <4>1, <4>3, <4>4
      <4>. QED BY <3>8, <4>5, NothingWaits
    <3>10. h = s.sent
      <4>1. Len(w) = 0
        BY <3>9, EmptySeq
      <4>. QED BY <3>6, <3>8, <4>1
    <3>11. last[1] = f
      <4>1. last[1] = After(story[1], Len(connections[1].recorded))
        BY <2>5, <3>2
      <4>. QED BY <3>4, <3>5, <3>10, <4>1 DEF Upto
    <3>12. PICK x : x = RecordedBy(1)
      OBVIOUS
    <3>13. x \in Seq(Nat) /\ Len(x) = f /\ \A i \in 1 .. f : x[i] = i
      <4>1. PICK a \in Nat : Counts(1, a, x)
        <5>. HIDE DEF Counts
        <5>. QED BY <2>6, <3>2, <3>12
      <4>2. a = 0
        BY <3>4, <3>5, <4>1
      <4>3. last[1] - a = f
        BY <2>3, <3>11, <4>2
      <4>. QED BY <4>1, <4>2, <4>3
    <3>14. Recorded = x
      <4>1. [c \in 1 .. 1 |-> RecordedBy(c)] = <<x>>
        BY <3>12
      <4>2. RecordedIn(1) = FlattenSeq(<<x>>)
        BY <4>1 DEF RecordedIn
      <4>3. FlattenSeq(<<x>>) = x
        <5>1. PICK S : S = Nat
          OBVIOUS
        <5>2. x \in Seq(S)
          BY <3>13, <5>1
        <5>. QED BY <5>2, FlattenOne
      <4>. QED BY <2>1, <2>2, <3>2, <4>2, <4>3, RecordedInAll
    <3>15. DOMAIN x = 1 .. f
      BY <3>13, LenProperties
    <3>. QED BY <2>3, <3>13, <3>14, <3>15
  <2>. QED BY <2>7, <2>8
<1>. QED BY <1>1, DeliveredAlways, PTL

(* Where a story is carried, its messages are what the session recorded;   *)
(* where it comes first, they are what it recorded first.                  *)
KeepsTo(x, a, e) ==
    x \in Seq(Nat) /\ \A k \in 1 .. Len(x) : a + k <= e => x[k] = a + k
EndsBy(x, a, e) ==
    x \in Seq(Nat) /\ a + Len(x) <= e /\ \A k \in 1 .. Len(x) : x[k] = a + k

LEMMA DataType ==
  ASSUME NEW m
  PROVE  Data(m) \in Seq(Nat)
<1>1. PICK i : i = IndexOf(m)
  OBVIOUS
<1>2. i \in Nat
  <2>1. \A k \in DOMAIN Script : k \in Nat
    BY ScriptAssumption, LenProperties
  <2>2. CASE \E k \in DOMAIN Script : Same(m, Script[k])
    <3>1. PICK k : k = CHOOSE l \in DOMAIN Script : Same(m, Script[l])
      OBVIOUS
    <3>2. k \in DOMAIN Script
      BY <2>2, <3>1
    <3>. QED BY <1>1, <2>1, <2>2, <3>1, <3>2 DEF IndexOf
  <2>3. CASE ~(\E k \in DOMAIN Script : Same(m, Script[k]))
    BY <1>1, <2>3 DEF IndexOf
  <2>. QED BY <2>2, <2>3
<1>3. <<i>> \in Seq(Nat)
  BY <1>2
<1>. QED BY <1>1, <1>3, EmptySeq DEF Data

LEMMA DataOfType ==
  ASSUME NEW q, NEW h \in Nat, NEW Q, Q = Seq(Nat)
  PROVE  /\ DataOf(q, h) \in Seq(Q) /\ Len(DataOf(q, h)) = h
         /\ \A k \in 1 .. h : DataOf(q, h)[k] = Data(q[k])
<1>1. PICK w : w = [k \in 1 .. h |-> Data(q[k])]
  OBVIOUS
<1>2. \A k \in 1 .. h : Data(q[k]) \in Q
  BY DataType
<1>3. w \in Seq(Q) /\ Len(w) = h /\ \A k \in 1 .. h : w[k] = Data(q[k])
  BY <1>1, <1>2
<1>. QED BY <1>1, <1>3 DEF DataOf

(* What was recorded first is joined first.                                *)
LEMMA DataExtends ==
  ASSUME NEW q, NEW j \in Nat, NEW h \in Nat, j <= h
  PROVE  \E y : Joins(FlattenSeq(DataOf(q, j)), y, FlattenSeq(DataOf(q, h)))
<1>0. PICK Q : Q = Seq(Nat)
  OBVIOUS
<1>1. PICK n \in Nat : n = h - j
  OBVIOUS
<1>2. PICK p : p = [k \in 1 .. n |-> q[j + k]]
  OBVIOUS
<1>3. PICK u, v, w : u = DataOf(q, j) /\ v = DataOf(p, n) /\ w = DataOf(q, h)
  OBVIOUS
<1>4. /\ u \in Seq(Q) /\ Len(u) = j
      /\ \A k \in 1 .. j : u[k] = Data(q[k])
  BY <1>0, <1>3, DataOfType
<1>5. /\ v \in Seq(Q) /\ Len(v) = n
      /\ \A k \in 1 .. n : v[k] = Data(q[j + k])
  <2>1. /\ v \in Seq(Q) /\ Len(v) = n
        /\ \A k \in 1 .. n : v[k] = Data(p[k])
    BY <1>0, <1>3, DataOfType
  <2>2. \A k \in 1 .. n : p[k] = q[j + k]
    BY <1>2
  <2>. QED BY <2>1, <2>2
<1>6. /\ w \in Seq(Q) /\ Len(w) = h
      /\ \A k \in 1 .. h : w[k] = Data(q[k])
  BY <1>0, <1>3, DataOfType
<1>7. PICK x : x = u \o v
  OBVIOUS
<1>8. /\ x \in Seq(Q) /\ Len(x) = h
      /\ \A k \in 1 .. h : x[k] = IF k <= j THEN u[k] ELSE v[k - j]
  <2>1. /\ u \o v \in Seq(Q) /\ Len(u \o v) = Len(u) + Len(v)
        /\ \A k \in 1 .. Len(u) + Len(v) :
              (u \o v)[k] = IF k <= Len(u) THEN u[k] ELSE v[k - Len(u)]
    BY <1>4, <1>5, ConcatProperties
  <2>2. Len(u) + Len(v) = h
    BY <1>1, <1>4, <1>5
  <2>. QED BY <1>4, <1>7, <2>1, <2>2
<1>9. ASSUME NEW k \in 1 .. h PROVE w[k] = x[k]
  <2>1. CASE k <= j
    <3>1. k \in 1 .. j
      BY <2>1
    <3>. QED BY <1>4, <1>6, <1>8, <2>1, <3>1
  <2>2. CASE ~(k <= j)
    <3>1. PICK l \in 1 .. n : l = k - j /\ k = j + l
      BY <1>1, <2>2
    <3>2. x[k] = v[l]
      BY <1>8, <2>2, <3>1
    <3>. QED BY <1>5, <1>6, <3>1, <3>2
  <2>. QED BY <2>1, <2>2
<1>10. w = u \o v
  BY <1>6, <1>7, <1>8, <1>9, SeqEqual
<1>11. FlattenSeq(w) = FlattenSeq(u) \o FlattenSeq(v)
  BY <1>0, <1>4, <1>5, <1>10, FlattenConcat
<1>12. FlattenSeq(u) \in Seq(Nat) /\ FlattenSeq(v) \in Seq(Nat)
  BY <1>0, <1>4, <1>5, FlattenType
<1>. QED BY <1>3, <1>11, <1>12 DEF Joins

LEMMA CarriedRuns ==
  ASSUME connections \in Seq(Connections), NEW c \in 1 .. Len(connections),
         NEW s, Carries(s, connections[c])
  PROVE  EndsBy(RecordedBy(c), s.lo, Upto(s)) /\ s \in Stories
<1>1. PICK b : s \in Stories /\ b \in Nat /\ RanTo(c, s, b)
  BY SessionRecords
<1>2. PICK a \in Nat, e \in Nat :
          /\ a = s.lo /\ e = Upto(s) /\ a <= b /\ b <= e
          /\ RecordedBy(c) = Run(a, b)
  BY <1>1, UptoType DEF RanTo
<1>4. PICK x : x = RecordedBy(c) /\ x = Run(a, b)
  BY <1>2
<1>3. x \in Seq(Nat) /\ Len(x) = b - a /\ \A k \in 1 .. b - a : x[k] = a + k
  <2>1. IsRun(x, a, b)
    BY <1>1, <1>2, <1>4, RunIs
  <2>. QED BY <2>1 DEF IsRun
<1>. QED BY <1>1, <1>2, <1>3, <1>4 DEF EndsBy

LEMMA BegunRuns ==
  ASSUME connections \in Seq(Connections), NEW c \in 1 .. Len(connections),
         NEW s, Begins(s, connections[c])
  PROVE  KeepsTo(RecordedBy(c), s.lo, Upto(s))
<1>1. PICK r, q : r = connections[c] /\ q = r.recorded
  OBVIOUS
<1>2. q \in Seq(Records)
  <2>1. r \in Connections
    BY <1>1, ElementOfSeq
  <2>. QED BY <1>1, <2>1 DEF Connections
<1>3. PICK h \in Nat, n \in Nat, a \in Nat, e \in Nat :
          h = Len(q) /\ n = s.sent /\ a = s.lo /\ e = Upto(s) /\ DOMAIN q = 1 .. h
  BY <1>2, LenProperties, UptoType DEF Begins
<1>4. s \in Stories /\ \A k \in 1 .. h : k <= n => Is(q[k], Item(s, k))
  BY <1>1, <1>3 DEF Begins
<1>5. PICK j \in Nat : j <= h /\ j <= n /\ (j = h \/ j = n)
  <2>1. h <= n \/ n <= h
    OBVIOUS
  <2>. QED BY <2>1
<1>6. \A k \in 1 .. j : Is(q[k], Item(s, k))
  BY <1>4, <1>5
<1>7. PICK b : b = After(s, j)
  OBVIOUS
<1>8. b \in Nat /\ a <= b /\ (j = n => b = e)
  <2>1. b \in Nat /\ a <= b
    BY <1>3, <1>4, <1>5, <1>7, AfterGrows
  <2>. QED BY <1>3, <1>7, <2>1 DEF Upto
<1>9. PICK w, x : w = Run(a, b) /\ x = RecordedBy(c)
  OBVIOUS
<1>10. FlattenSeq(DataOf(q, j)) = w
  BY <1>3, <1>4, <1>6, <1>7, <1>9, DataRun
<1>11. x = FlattenSeq(DataOf(q, h))
  BY <1>1, <1>3, <1>9 DEF RecordedBy, DataOf
<1>12. w \in Seq(Nat) /\ Len(w) = b - a /\ \A k \in 1 .. b - a : w[k] = a + k
  <2>1. IsRun(w, a, b)
    BY <1>8, <1>9, RunIs
  <2>. QED BY <2>1 DEF IsRun
<1>13. CASE j = h
  <2>1. x = w
    BY <1>10, <1>11, <1>13
  <2>. QED BY <1>3, <1>8, <1>9, <1>12, <2>1 DEF KeepsTo
<1>14. CASE j = n
  <2>1. PICK y : Joins(w, y, x)
    BY <1>5, <1>10, <1>11, DataExtends
  <2>2. y \in Seq(Nat) /\ x = w \o y
    BY <2>1 DEF Joins
  <2>3. /\ x \in Seq(Nat) /\ Len(x) = Len(w) + Len(y)
        /\ \A k \in 1 .. Len(w) : x[k] = w[k]
    <3>1. /\ w \o y \in Seq(Nat) /\ Len(w \o y) = Len(w) + Len(y)
          /\ \A k \in 1 .. Len(w) + Len(y) :
                (w \o y)[k] = IF k <= Len(w) THEN w[k] ELSE y[k - Len(w)]
      BY <1>12, <2>2, ConcatProperties
    <3>2. Len(w) \in Nat /\ Len(y) \in Nat
      BY <1>12, <2>2, LenProperties
    <3>. QED BY <2>2, <3>1, <3>2
  <2>4. ASSUME NEW k \in 1 .. Len(x), a + k <= e PROVE x[k] = a + k
    <3>1. Len(x) \in Nat
      BY <2>3, LenProperties
    <3>2. k \in 1 .. b - a
      BY <1>8, <1>14, <2>4, <3>1
    <3>. QED BY <1>12, <2>3, <3>2
  <2>. QED BY <1>3, <1>9, <2>3, <2>4 DEF KeepsTo
<1>. QED BY <1>5, <1>13, <1>14

(* Whatever the disk cuts short, and whatever is sent of it and behind it: *)
(* of the messages before it every session records those that its          *)
(* connection carried, first and in order, and none that another session   *)
(* records.                                                                *)
THEOREM DamageStaysLocal == Spec => []DamageIsLocal
<1>1. IInv /\ Delivered => DamageIsLocal
  <2>. SUFFICES ASSUME IInv, Delivered, damage # 0
                PROVE  \A c \in DOMAIN connections :
                          /\ \A k \in DOMAIN RecordedBy(c) :
                                first[c] + k < damage => RecordedBy(c)[k] = first[c] + k
                          /\ \A d \in c + 1 .. Current :
                                first[d] < damage => first[c] + Len(RecordedBy(c)) <= first[d]
    BY DEF DamageIsLocal
  <2>1. /\ connections \in Seq(Connections) /\ first \in Seq(Nat)
        /\ Len(first) = Len(connections) /\ damage \in Nat
    BY ScriptLength DEF IInv, QueueInv, ConnectionTypes, PhoneTypes
  <2>2. PICK n \in Nat : n = Len(connections) /\ DOMAIN connections = 1 .. n /\ n = Current
    BY <2>1, LenProperties DEF Current
  <2>3. \A c \in 1 .. n : first[c] \in Nat
    BY <2>1, <2>2, ElementOfSeq
  <2>. DEFINE Local(c, x) ==
                 /\ \A k \in DOMAIN x : first[c] + k < damage => x[k] = first[c] + k
                 /\ \A d \in c + 1 .. n : first[d] < damage => first[c] + Len(x) <= first[d]
  <2>4. ASSUME NEW c \in 1 .. n, NEW s, s.lo = first[c], Carries(s, connections[c]),
               \A d \in c + 1 .. n : first[d] < damage => Upto(s) <= first[d],
               NEW x, x = RecordedBy(c)
        PROVE  Local(c, x)
    <3>1. EndsBy(x, s.lo, Upto(s)) /\ s \in Stories
      BY <2>1, <2>2, <2>4, CarriedRuns
    <3>2. PICK a \in Nat, e \in Nat : a = first[c] /\ a = s.lo /\ e = Upto(s)
      BY <2>3, <2>4, <3>1, UptoType
    <3>3. x \in Seq(Nat) /\ a + Len(x) <= e /\ \A k \in 1 .. Len(x) : x[k] = a + k
      BY <3>1, <3>2 DEF EndsBy
    <3>4. DOMAIN x = 1 .. Len(x) /\ Len(x) \in Nat
      BY <3>3, LenProperties
    <3>5. ASSUME NEW d \in c + 1 .. n, first[d] < damage PROVE a + Len(x) <= first[d]
      <4>1. d \in 1 .. n /\ e <= first[d]
        BY <2>4, <3>2, <3>5
      <4>. QED BY <2>3, <3>3, <3>4, <4>1
    <3>. QED BY <3>2, <3>3, <3>4, <3>5
  <2>5. ASSUME NEW c \in 1 .. n, NEW x, x = RecordedBy(c) PROVE Local(c, x)
    <3>1. CASE Sound
      <4>1. PICK story : Told(sent, story)
        BY <3>1 DEF Delivered, Tells
      <4>2. PICK s : s = story[c]
        OBVIOUS
      <4>3. Carries(s, connections[c]) /\ s.lo = first[c]
        BY <2>2, <4>1, <4>2 DEF Told
      <4>4. ASSUME NEW d \in c + 1 .. n PROVE Upto(s) <= first[d]
        <5>1. d \in 1 .. n /\ c < d
          OBVIOUS
        <5>. QED BY <2>2, <4>1, <4>2, <5>1 DEF Told
      <4>. HIDE DEF Local
      <4>. QED BY <2>4, <2>5, <4>3, <4>4
    <3>2. CASE ~Sound /\ first[c] < damage
      <4>1. PICK s : Follows(c, s)
        BY <2>2, <3>2 DEF Delivered, Strays
      <4>2. /\ s.lo = first[c]
            /\ Carries(s, connections[c]) \/ (Upto(s) = damage - 1 /\ Begins(s, connections[c]))
            /\ \A d \in c + 1 .. n : first[d] < damage =>
                  Carries(s, connections[c]) /\ Upto(s) <= first[d]
        BY <2>2, <4>1 DEF Follows
      <4>3. CASE Carries(s, connections[c])
        <5>. HIDE DEF Local
        <5>. QED BY <2>4, <2>5, <4>2, <4>3
      <4>4. CASE ~Carries(s, connections[c])
        <5>1. KeepsTo(x, first[c], damage - 1)
          BY <2>1, <2>2, <2>5, <4>2, <4>4, BegunRuns
        <5>2. PICK a \in Nat : a = first[c]
          BY <2>3
        <5>3. /\ DOMAIN x = 1 .. Len(x) /\ Len(x) \in Nat
              /\ \A k \in 1 .. Len(x) : a + k <= damage - 1 => x[k] = a + k
          BY <5>1, <5>2, LenProperties DEF KeepsTo
        <5>4. \A k \in DOMAIN x : a + k < damage => x[k] = a + k
          BY <2>1, <5>2, <5>3
        <5>. QED BY <4>2, <4>4, <5>2, <5>4
      <4>. QED BY <4>3, <4>4
    <3>3. CASE ~Sound /\ ~(first[c] < damage)
      <4>1. Strays
        BY <3>3 DEF Delivered
      <4>2. \A d \in c + 1 .. n : ~(first[d] < damage)
        BY <2>2, <3>3, <4>1 DEF Strays
      <4>3. PICK a \in Nat, e \in Nat : a = first[c] /\ e = damage /\ ~(a < e)
        BY <2>1, <2>3, <3>3
      <4>4. \A k \in DOMAIN x : k \in Nat
        <5>1. x \in Seq(Nat)
          <6>1. PICK q, h : q = connections[c].recorded /\ h = Len(q)
            OBVIOUS
          <6>2. q \in Seq(Records)
            <7>1. connections[c] \in Connections
              BY <2>1, <2>2, ElementOfSeq
            <7>. QED BY <6>1, <7>1 DEF Connections
          <6>3. h \in Nat /\ DOMAIN q = 1 .. h
            BY <6>1, <6>2, LenProperties
          <6>4. x = FlattenSeq(DataOf(q, h))
            BY <2>5, <6>1, <6>3 DEF RecordedBy, DataOf
          <6>. QED BY <6>3, <6>4, DataOfType, FlattenType
        <5>. QED BY <5>1, LenProperties
      <4>5. \A k \in DOMAIN x : ~(a + k < e)
        BY <4>3, <4>4
      <4>. QED BY <4>2, <4>3, <4>5
    <3>. QED BY <3>1, <3>2, <3>3
  <2>6. \A c \in 1 .. n : Local(c, RecordedBy(c))
    <3>. HIDE DEF Local
    <3>. QED BY <2>5
  <2>. QED BY <2>2, <2>6
<1>. QED BY <1>1, DeliveredAlways, PTL
=============================================================================
