---------------------------- MODULE StreamProofs ----------------------------
(***************************************************************************)
(* The two ends that read a stream message by message.  The decoder        *)
(* (MessageDecode.tla), for any base, limits and length of the stream: in  *)
(* whatever pieces the bytes come it gives the messages of the whole, and  *)
(* its buffer stays small.  The bench client (BenchClient.tla), for any    *)
(* connections, requests, depth and faults: what it calls a PASS is one.   *)
(*                                                                         *)
(* Both compute by recursion, the decoder in its loop and in the reference *)
(* it is compared with, the client in the fold over the answers it has     *)
(* read.  What such a definition computes is proved by induction over the  *)
(* naturals, stated for sets; Recursion gives the function there is, and   *)
(* the definition, which chooses one, must then be it.                     *)
(***************************************************************************)
EXTENDS MessageDecode, BenchClient, FiniteSetTheorems, SequenceTheorems,
        NaturalsInduction, WellFoundedInduction, TLAPS

-----------------------------------------------------------------------------
(* Induction and recursion over the naturals.                              *)

\* Induction over the naturals, as a fact about sets: a least number that is not in S
\* would follow one that is.
LEMMA InductionOnNat ==
  ASSUME NEW S \in SUBSET Nat, 0 \in S, \A n \in S : n + 1 \in S
  PROVE  S = Nat
<1> DEFINE R == OpToRel(<, Nat)
<1>1. \A m, n \in Nat : m < n => <<m, n>> \in R
  BY DEF OpToRel
<1>2. IsWellFoundedOn(R, Nat)
  BY NatLessThanWellFounded
<1> HIDE DEF R
<1> SUFFICES ASSUME Nat \ S # {} PROVE FALSE
  OBVIOUS
<1>3. PICK n \in Nat \ S : \A m \in Nat \ S : ~(<<m, n>> \in R)
  <2>1. Nat \ S \subseteq Nat
    OBVIOUS
  <2> QED
    BY <1>2, <2>1, WFMin
<1>4. n # 0 /\ n - 1 \in Nat /\ n - 1 < n
  BY <1>3
<1>5. n - 1 \in S
  BY <1>1, <1>3, <1>4
<1>6. (n - 1) + 1 = n
  BY <1>3
<1> QED
  BY <1>3, <1>5, <1>6

\* f is v0 with the steps taken one after the other.
Iterates(f, v0, step) == f[0] = v0 /\ \A n \in Nat : f[n + 1] = step[n][f[n]]

\* A recursion over the naturals has a solution: the solutions up to each n agree.
LEMMA Recursion ==
  ASSUME NEW V, NEW v0 \in V, NEW step \in [Nat -> [V -> V]]
  PROVE  \E f \in [Nat -> V] : Iterates(f, v0, step)
<1> DEFINE G(n) == {g \in [0..n -> V] : g[0] = v0 /\ \A i \in 0..(n - 1) : g[i + 1] = step[i][g[i]]}
<1> DEFINE S == {n \in Nat : G(n) # {}}
<1>1. S = Nat
  <2>1. 0 \in S
    <3>1. [i \in 0..0 |-> v0] \in G(0)
      OBVIOUS
    <3> QED BY <3>1
  <2>2. ASSUME NEW n \in S PROVE n + 1 \in S
    <3>1. PICK g \in G(n) : TRUE
      BY <2>2
    <3> DEFINE h == [i \in 0..(n + 1) |-> IF i = n + 1 THEN step[n][g[n]] ELSE g[i]]
    <3>2. n \in Nat /\ g \in [0..n -> V] /\ g[n] \in V
      BY <3>1
    <3>3. step[n][g[n]] \in V
      BY <3>2
    <3>4. h \in [0..(n + 1) -> V]
      BY <3>2, <3>3
    <3>5. h[0] = v0
      BY <3>1, <3>2
    <3>6. ASSUME NEW i \in 0..n PROVE h[i + 1] = step[i][h[i]]
      <4>1. CASE i = n
        BY <4>1, <3>2
      <4>2. CASE i # n
        <5>1. i \in 0..(n-1) /\ i + 1 \in 0..n /\ i + 1 # n + 1
          BY <4>2, <3>2
        <5>2. g[i + 1] = step[i][g[i]]
          BY <5>1, <3>1
        <5> QED BY <5>1, <5>2, <3>2
      <4> QED BY <4>1, <4>2
    <3>7. n + 1 \in Nat /\ (n + 1) - 1 = n
      BY <3>2
    <3> HIDE DEF h
    <3>8. h \in G(n + 1)
      BY <3>4, <3>5, <3>6, <3>7
    <3> QED BY <3>7, <3>8
  <2>3. S \in SUBSET Nat
    OBVIOUS
  <2> HIDE DEF S
  <2> QED BY <2>1, <2>2, <2>3, InductionOnNat
<1> DEFINE c == [n \in Nat |-> CHOOSE g \in G(n) : TRUE]
<1>2. \A n \in Nat : c[n] \in G(n)
  BY <1>1
<1> HIDE DEF c
<1>3. ASSUME NEW n \in Nat
      PROVE  \A i \in 0..n : c[n][i] = c[n + 1][i]
  <2> DEFINE T == {i \in Nat : i <= n => c[n][i] = c[n + 1][i]}
  <2>1. 0 \in T
    BY <1>2, n + 1 \in Nat
  <2>2. ASSUME NEW i \in T PROVE i + 1 \in T
    <3> SUFFICES ASSUME i + 1 <= n PROVE c[n][i + 1] = c[n + 1][i + 1]
      OBVIOUS
    <3>1. i \in 0..(n - 1) /\ i \in 0..((n + 1) - 1) /\ c[n][i] = c[n + 1][i] /\ n + 1 \in Nat
      BY <2>2
    <3>2. c[n][i + 1] = step[i][c[n][i]]
      BY <3>1, <1>2
    <3>3. c[n + 1][i + 1] = step[i][c[n + 1][i]]
      BY <3>1, <1>2
    <3> QED BY <3>1, <3>2, <3>3
  <2>3. T \in SUBSET Nat
    OBVIOUS
  <2>4. T = Nat
    <3> HIDE DEF T
    <3> QED BY <2>1, <2>2, <2>3, InductionOnNat
  <2> QED BY <2>4
<1> DEFINE f == [n \in Nat |-> c[n][n]]
<1>4. f \in [Nat -> V]
  BY <1>2
<1>5. f[0] = v0
  BY <1>2
<1>6. ASSUME NEW n \in Nat PROVE f[n + 1] = step[n][f[n]]
  <2>1. n + 1 \in Nat /\ n \in 0..((n + 1) - 1) /\ n \in 0..n
    OBVIOUS
  <2>2. c[n + 1][n + 1] = step[n][c[n + 1][n]]
    BY <2>1, <1>2
  <2> QED BY <2>1, <2>2, <1>3
<1>7. Iterates(f, v0, step)
  BY <1>5, <1>6 DEF Iterates
<1> HIDE DEF f
<1> QED BY <1>4, <1>7

-----------------------------------------------------------------------------
(* The decoder: what Frames says of a stream.                              *)

\* What the reference says of a stream.
Result == [msgs : Seq(Seq(Bytes)), broken : BOOLEAN]

\* The length in the head of a frame at the beginning of s.
MsgLenOf(s) == s[1] * Base + s[2]

\* The definition of Frames, of one frame.
Turn(f, s) ==
    IF Len(s) < HeadSize THEN [msgs |-> <<>>, broken |-> FALSE]
    ELSE IF MsgLenOf(s) > MaxLen THEN [msgs |-> <<>>, broken |-> TRUE]
    ELSE IF Len(s) < HeadSize + MsgLenOf(s) THEN [msgs |-> <<>>, broken |-> FALSE]
    ELSE [f[SubSeq(s, HeadSize + MsgLenOf(s) + 1, Len(s))] EXCEPT
             !.msgs = <<SubSeq(s, HeadSize + 1, HeadSize + MsgLenOf(s))>> \o @]

\* A head is a length.
LEMMA HeadOk ==
  ASSUME NEW s \in Seq(Bytes), Len(s) >= HeadSize
  PROVE  MsgLenOf(s) \in Nat
<1>1. s[1] \in Bytes /\ s[2] \in Bytes
  BY ElementOfSeq DEF HeadSize
<1>2. \A a, b \in Nat : a * b \in Nat
  OBVIOUS
<1> QED
  BY <1>1, <1>2, ScalesAssumption DEF Bytes, MsgLenOf

\* What is behind the first k elements.
LEMMA TailPart ==
  ASSUME NEW S, NEW s \in Seq(S), NEW k \in 0..Len(s)
  PROVE  /\ SubSeq(s, k + 1, Len(s)) \in Seq(S)
         /\ Len(SubSeq(s, k + 1, Len(s))) = Len(s) - k
         /\ \A i \in 1..(Len(s) - k) : SubSeq(s, k + 1, Len(s))[i] = s[k + i]
<1>1. Len(s) \in Nat /\ \A i \in (k + 1)..Len(s) : s[i] \in S
  BY ElementOfSeq, LenProperties
<1>2. k + 1 \in Int /\ Len(s) \in Int
  BY <1>1
<1> QED
  BY <1>1, <1>2, SubSeqProperties

\* What is between two places of a sequence.
LEMMA MiddlePart ==
  ASSUME NEW S, NEW s \in Seq(S), NEW k \in 0..Len(s), NEW n \in k..Len(s)
  PROVE  /\ SubSeq(s, k + 1, n) \in Seq(S)
         /\ Len(SubSeq(s, k + 1, n)) = n - k
         /\ \A i \in 1..(n - k) : SubSeq(s, k + 1, n)[i] = s[k + i]
<1>1. Len(s) \in Nat /\ \A i \in (k + 1)..n : s[i] \in S
  BY ElementOfSeq, LenProperties
<1>2. k + 1 \in Int /\ n \in Int
  BY <1>1
<1> QED
  BY <1>1, <1>2, SubSeqProperties

\* One frame more is a result if the rest has one.
LEMMA TurnType ==
  ASSUME NEW f \in [Seq(Bytes) -> Result], NEW s \in Seq(Bytes)
  PROVE  Turn(f, s) \in Result
<1>1. CASE Len(s) < HeadSize \/ MsgLenOf(s) > MaxLen \/ Len(s) < HeadSize + MsgLenOf(s)
  BY <1>1, EmptySeq DEF Turn, Result
<1>2. CASE ~(Len(s) < HeadSize \/ MsgLenOf(s) > MaxLen \/ Len(s) < HeadSize + MsgLenOf(s))
  <2>1. MsgLenOf(s) \in Nat /\ Len(s) \in Nat
    BY <1>2, HeadOk, LenProperties DEF HeadSize
  <2>2. SubSeq(s, HeadSize + MsgLenOf(s) + 1, Len(s)) \in Seq(Bytes)
    BY <2>1, <1>2, TailPart, HeadSize + MsgLenOf(s) \in 0..Len(s) DEF HeadSize
  <2>3. SubSeq(s, HeadSize + 1, HeadSize + MsgLenOf(s)) \in Seq(Bytes)
    BY <2>1, <1>2, MiddlePart, HeadSize + MsgLenOf(s) \in HeadSize..Len(s), HeadSize \in 0..Len(s) DEF HeadSize
  <2> DEFINE r == f[SubSeq(s, HeadSize + MsgLenOf(s) + 1, Len(s))]
             m == SubSeq(s, HeadSize + 1, HeadSize + MsgLenOf(s))
  <2>4. r \in Result /\ r.msgs \in Seq(Seq(Bytes))
    BY <2>2 DEF Result
  <2>5. <<m>> \o r.msgs \in Seq(Seq(Bytes))
    BY <2>3, <2>4, ConcatProperties
  <2>6. Turn(f, s) = [r EXCEPT !.msgs = <<m>> \o @]
    BY <1>2 DEF Turn
  <2> HIDE DEF r, m
  <2> QED
    BY <2>4, <2>5, <2>6 DEF Result
<1> QED
  BY <1>1, <1>2

\* A turn looks only at what f has for shorter streams.
LEMMA TurnLocal ==
  ASSUME NEW f, NEW g, NEW s \in Seq(Bytes),
         \A t \in Seq(Bytes) : Len(t) < Len(s) => f[t] = g[t]
  PROVE  Turn(f, s) = Turn(g, s)
<1> SUFFICES ASSUME ~(Len(s) < HeadSize \/ MsgLenOf(s) > MaxLen \/ Len(s) < HeadSize + MsgLenOf(s))
             PROVE  Turn(f, s) = Turn(g, s)
  BY DEF Turn
<1>1. MsgLenOf(s) \in Nat /\ Len(s) \in Nat
  BY HeadOk, LenProperties DEF HeadSize
<1> DEFINE t == SubSeq(s, HeadSize + MsgLenOf(s) + 1, Len(s))
<1>2. t \in Seq(Bytes) /\ Len(t) < Len(s)
  BY <1>1, TailPart, HeadSize + MsgLenOf(s) \in 0..Len(s) DEF HeadSize
<1>3. f[t] = g[t]
  BY <1>2
<1> QED
  BY <1>3 DEF Turn

\* The recursion of Frames has a solution, and so Frames is what its definition says.
LEMMA FramesDef ==
  /\ Frames \in [Seq(Bytes) -> Result]
  /\ \A s \in Seq(Bytes) : Frames[s] = Turn(Frames, s)
<1> DEFINE V == [Seq(Bytes) -> Result]
           v0 == [s \in Seq(Bytes) |-> [msgs |-> <<>>, broken |-> FALSE]]
           step == [n \in Nat |-> [f \in V |-> [s \in Seq(Bytes) |-> Turn(f, s)]]]
<1>1. v0 \in V
  BY EmptySeq DEF Result
<1>2. step \in [Nat -> [V -> V]]
  <2>1. \A f \in V : [s \in Seq(Bytes) |-> Turn(f, s)] \in V
    BY TurnType
  <2> HIDE DEF V
  <2> QED BY <2>1
<1>3. PICK A \in [Nat -> V] : A[0] = v0 /\ \A n \in Nat : A[n + 1] = step[n][A[n]]
  <2> HIDE DEF V, v0, step
  <2>1. PICK A \in [Nat -> V] : Iterates(A, v0, step)
    BY <1>1, <1>2, Recursion
  <2> QED BY <2>1 DEF Iterates
<1>4. \A n \in Nat : A[n + 1] = [s \in Seq(Bytes) |-> Turn(A[n], s)]
  BY <1>3
<1>5. \A n \in Nat : \A s \in Seq(Bytes) : Len(s) < n => A[n][s] = A[n + 1][s]
  <2> DEFINE T == {n \in Nat : \A s \in Seq(Bytes) : Len(s) < n => A[n][s] = A[n + 1][s]}
  <2>1. 0 \in T
    BY LenProperties
  <2>2. ASSUME NEW n \in T PROVE n + 1 \in T
    <3>1. n \in Nat /\ n + 1 \in Nat
      BY <2>2
    <3>2. ASSUME NEW s \in Seq(Bytes), Len(s) < n + 1
          PROVE  A[n + 1][s] = A[n + 1 + 1][s]
      <4>1. \A t \in Seq(Bytes) : Len(t) < Len(s) => A[n][t] = A[n + 1][t]
        BY <2>2, <3>2, LenProperties
      <4>2. Turn(A[n], s) = Turn(A[n + 1], s)
        BY <4>1, TurnLocal
      <4>3. A[n + 1][s] = Turn(A[n], s) /\ A[n + 1 + 1][s] = Turn(A[n + 1], s)
        <5> HIDE DEF T
        <5> QED BY <3>1, <1>4
      <4> QED BY <4>2, <4>3
    <3> QED BY <3>1, <3>2
  <2>3. T \in SUBSET Nat
    OBVIOUS
  <2>4. T = Nat
    <3> HIDE DEF T
    <3> QED BY <2>1, <2>2, <2>3, InductionOnNat
  <2> QED BY <2>4
<1>6. \A s \in Seq(Bytes) : \A n \in Nat : A[Len(s) + 1][s] = A[Len(s) + 1 + n][s]
  <2> TAKE s \in Seq(Bytes)
  <2> DEFINE T == {n \in Nat : A[Len(s) + 1][s] = A[Len(s) + 1 + n][s]}
  <2>0. Len(s) \in Nat
    BY LenProperties
  <2>1. 0 \in T
    BY <2>0
  <2>2. ASSUME NEW n \in T PROVE n + 1 \in T
    <3>1. n \in Nat /\ Len(s) + 1 + n \in Nat /\ Len(s) < Len(s) + 1 + n
      BY <2>0, <2>2
    <3>2. A[Len(s) + 1 + n][s] = A[(Len(s) + 1 + n) + 1][s]
      BY <3>1, <1>5
    <3>3. (Len(s) + 1 + n) + 1 = Len(s) + 1 + (n + 1)
      BY <3>1, <2>0
    <3> QED BY <3>1, <3>2, <3>3, <2>2
  <2>3. T \in SUBSET Nat
    OBVIOUS
  <2>4. T = Nat
    <3> HIDE DEF T
    <3> QED BY <2>1, <2>2, <2>3, InductionOnNat
  <2> QED BY <2>4
<1> DEFINE F == [s \in Seq(Bytes) |-> A[Len(s) + 1][s]]
<1>7. F = [s \in Seq(Bytes) |-> Turn(F, s)]
  <2>1. ASSUME NEW s \in Seq(Bytes) PROVE F[s] = Turn(F, s)
    <3>1. Len(s) \in Nat
      BY LenProperties
    <3>2. F[s] = Turn(A[Len(s)], s)
      BY <3>1, <1>4
    <3>3. ASSUME NEW t \in Seq(Bytes), Len(t) < Len(s)
          PROVE  A[Len(s)][t] = F[t]
      <4>1. Len(t) \in Nat /\ Len(s) - (Len(t) + 1) \in Nat
        BY <3>1, <3>3, LenProperties
      <4>2. A[Len(t) + 1][t] = A[Len(t) + 1 + (Len(s) - (Len(t) + 1))][t]
        BY <4>1, <1>6
      <4>3. Len(t) + 1 + (Len(s) - (Len(t) + 1)) = Len(s)
        BY <4>1, <3>1
      <4> QED BY <4>2, <4>3
    <3>4. Turn(A[Len(s)], s) = Turn(F, s)
      <4> HIDE DEF F
      <4> QED BY <3>3, TurnLocal
    <3> QED BY <3>2, <3>4
  <2> QED BY <2>1
<1>8. Frames = [s \in Seq(Bytes) |-> Turn(Frames, s)]
  <2> HIDE DEF F
  <2>1. \E f : f = [s \in Seq(Bytes) |-> Turn(f, s)]
    BY <1>7
  <2>2. Frames = CHOOSE f : f = [s \in Seq(Bytes) |-> Turn(f, s)]
    BY Zenon DEF Frames, Turn, MsgLenOf
  <2> QED BY <2>1, <2>2
<1>9. \A n \in Nat : \A s \in Seq(Bytes) : Len(s) < n => Frames[s] \in Result
  <2> DEFINE T == {n \in Nat : \A s \in Seq(Bytes) : Len(s) < n => Frames[s] \in Result}
  <2>1. 0 \in T
    BY LenProperties
  <2>2. ASSUME NEW n \in T PROVE n + 1 \in T
    <3>1. n \in Nat /\ n + 1 \in Nat
      BY <2>2
    <3>2. ASSUME NEW s \in Seq(Bytes), Len(s) < n + 1
          PROVE  Frames[s] \in Result
      <4> DEFINE g == [t \in Seq(Bytes) |-> IF Len(t) < Len(s) THEN Frames[t]
                                           ELSE [msgs |-> <<>>, broken |-> FALSE]]
      <4>1. \A t \in Seq(Bytes) : Len(t) < Len(s) => Frames[t] \in Result
        BY <2>2, <3>2, LenProperties
      <4>2. g \in [Seq(Bytes) -> Result]
        BY <4>1, EmptySeq DEF Result
      <4>3. \A t \in Seq(Bytes) : Len(t) < Len(s) => Frames[t] = g[t]
        OBVIOUS
      <4> HIDE DEF g
      <4>4. Turn(Frames, s) = Turn(g, s)
        BY <4>3, TurnLocal
      <4>5. Frames[s] = Turn(Frames, s)
        BY <1>8
      <4> QED BY <4>2, <4>4, <4>5, TurnType
    <3> QED BY <3>1, <3>2
  <2>3. T \in SUBSET Nat
    OBVIOUS
  <2>4. T = Nat
    <3> HIDE DEF T
    <3> QED BY <2>1, <2>2, <2>3, InductionOnNat
  <2> QED BY <2>4
<1>10. \A s \in Seq(Bytes) : Frames[s] \in Result
  <2> TAKE s \in Seq(Bytes)
  <2>1. Len(s) + 1 \in Nat /\ Len(s) < Len(s) + 1
    BY LenProperties
  <2> QED BY <2>1, <1>9
<1> QED
  BY <1>8, <1>10

-----------------------------------------------------------------------------
(* What comes behind a stream.                                             *)

\* What is behind the first k elements of a stream, when more comes.
LEMMA TailOfConcat ==
  ASSUME NEW S, NEW s \in Seq(S), NEW x \in Seq(S), NEW k \in 0..Len(s)
  PROVE  SubSeq(s \o x, k + 1, Len(s \o x)) = SubSeq(s, k + 1, Len(s)) \o x
<1>1. s \o x \in Seq(S) /\ Len(s \o x) = Len(s) + Len(x) /\ Len(s) \in Nat /\ Len(x) \in Nat
  BY ConcatProperties, LenProperties
<1> DEFINE l == SubSeq(s \o x, k + 1, Len(s \o x))
           a == SubSeq(s, k + 1, Len(s))
<1>2. /\ l \in Seq(S) /\ Len(l) = Len(s) + Len(x) - k
      /\ \A i \in 1..(Len(s) + Len(x) - k) : l[i] = (s \o x)[k + i]
  BY <1>1, TailPart
<1>3. /\ a \in Seq(S) /\ Len(a) = Len(s) - k
      /\ \A i \in 1..(Len(s) - k) : a[i] = s[k + i]
  BY TailPart
<1>4. /\ a \o x \in Seq(S) /\ Len(a \o x) = Len(s) - k + Len(x)
      /\ \A i \in 1..(Len(s) - k + Len(x)) :
            (a \o x)[i] = IF i <= Len(s) - k THEN a[i] ELSE x[i - (Len(s) - k)]
  <2> HIDE DEF a, l
  <2>1. /\ a \o x \in Seq(S) /\ Len(a \o x) = Len(a) + Len(x)
        /\ \A i \in 1..(Len(a) + Len(x)) :
              (a \o x)[i] = IF i <= Len(a) THEN a[i] ELSE x[i - Len(a)]
    BY <1>3, ConcatProperties
  <2> QED
    BY <2>1, <1>3
<1>5. \A i \in 1..(Len(s) + Len(x)) : (s \o x)[i] = IF i <= Len(s) THEN s[i] ELSE x[i - Len(s)]
  BY ConcatProperties
<1>6. Len(l) = Len(a \o x)
  BY <1>1, <1>2, <1>4
<1>7. ASSUME NEW i \in 1..Len(l) PROVE l[i] = (a \o x)[i]
  <2> HIDE DEF l, a
  <2>1. i \in 1..(Len(s) + Len(x) - k) /\ i \in 1..(Len(s) - k + Len(x)) /\ k + i \in 1..(Len(s) + Len(x))
    BY <1>1, <1>2, <1>7
  <2>2. l[i] = IF k + i <= Len(s) THEN s[k + i] ELSE x[k + i - Len(s)]
    BY <2>1, <1>2, <1>5
  <2>3. CASE i <= Len(s) - k
    <3>1. i \in 1..(Len(s) - k) /\ k + i <= Len(s)
      BY <2>3, <1>1, <2>1
    <3> QED BY <3>1, <2>1, <2>2, <2>3, <1>3, <1>4
  <2>4. CASE ~(i <= Len(s) - k)
    <3>1. ~(k + i <= Len(s)) /\ k + i - Len(s) = i - (Len(s) - k)
      BY <2>4, <1>1, <2>1
    <3> QED BY <3>1, <2>1, <2>2, <2>4, <1>4
  <2> QED BY <2>3, <2>4
<1> HIDE DEF l, a
<1>8. l = a \o x
  BY <1>2, <1>4, <1>6, <1>7, SeqEqual
<1> QED
  BY <1>8 DEF l, a

\* A part of a stream stays what it is when more comes.
LEMMA MiddleOfConcat ==
  ASSUME NEW S, NEW s \in Seq(S), NEW x \in Seq(S), NEW k \in 0..Len(s), NEW n \in k..Len(s)
  PROVE  SubSeq(s \o x, k + 1, n) = SubSeq(s, k + 1, n)
<1>1. s \o x \in Seq(S) /\ Len(s \o x) = Len(s) + Len(x) /\ Len(s) \in Nat /\ Len(x) \in Nat
  BY ConcatProperties, LenProperties
<1>2. k \in 0..Len(s \o x) /\ n \in k..Len(s \o x)
  BY <1>1
<1> DEFINE l == SubSeq(s \o x, k + 1, n)
           a == SubSeq(s, k + 1, n)
<1>3. /\ l \in Seq(S) /\ Len(l) = n - k
      /\ \A i \in 1..(n - k) : l[i] = (s \o x)[k + i]
  BY <1>1, <1>2, MiddlePart
<1>4. /\ a \in Seq(S) /\ Len(a) = n - k
      /\ \A i \in 1..(n - k) : a[i] = s[k + i]
  BY MiddlePart
<1>5. \A i \in 1..(n - k) : (s \o x)[k + i] = s[k + i]
  <2> TAKE i \in 1..(n - k)
  <2>1. k + i \in 1..(Len(s) + Len(x)) /\ k + i <= Len(s)
    BY <1>1
  <2> QED BY <2>1, ConcatProperties
<1> HIDE DEF l, a
<1>6. l = a
  BY <1>3, <1>4, <1>5, SeqEqual
<1> QED
  BY <1>6 DEF l, a

\* A whole frame at the beginning of a stream is decoded, whatever comes behind it.
LEMMA FramesFirst ==
  ASSUME NEW s \in Seq(Bytes), Len(s) >= HeadSize,
         MsgLenOf(s) <= MaxLen, Len(s) >= HeadSize + MsgLenOf(s),
         NEW x \in Seq(Bytes)
  PROVE  LET m == SubSeq(s, HeadSize + 1, HeadSize + MsgLenOf(s))
             r == Frames[SubSeq(s, HeadSize + MsgLenOf(s) + 1, Len(s)) \o x]
         IN  /\ Frames[s \o x].msgs = <<m>> \o r.msgs
             /\ Frames[s \o x].broken = r.broken
<1>1. s \o x \in Seq(Bytes) /\ Len(s \o x) = Len(s) + Len(x) /\ Len(s) \in Nat /\ Len(x) \in Nat
  BY ConcatProperties, LenProperties
<1>2. MsgLenOf(s) \in Nat
  BY HeadOk
<1>3. MsgLenOf(s \o x) = MsgLenOf(s)
  <2>1. 1 \in 1..Len(s) /\ 2 \in 1..Len(s) /\ 1 \in 1..(Len(s) + Len(x)) /\ 2 \in 1..(Len(s) + Len(x))
    BY <1>1 DEF HeadSize
  <2>2. (s \o x)[1] = s[1] /\ (s \o x)[2] = s[2]
    BY <2>1, ConcatProperties
  <2> QED BY <2>2 DEF MsgLenOf
<1> DEFINE n == HeadSize + MsgLenOf(s)
<1>4. n \in 0..Len(s) /\ n \in HeadSize..Len(s) /\ HeadSize \in 0..Len(s)
  BY <1>1, <1>2 DEF HeadSize
<1>5. SubSeq(s \o x, n + 1, Len(s \o x)) = SubSeq(s, n + 1, Len(s)) \o x
  BY <1>4, TailOfConcat
<1>6. SubSeq(s \o x, HeadSize + 1, n) = SubSeq(s, HeadSize + 1, n)
  BY <1>4, MiddleOfConcat
<1> DEFINE r == Frames[SubSeq(s, n + 1, Len(s)) \o x]
<1>7. r \in Result
  <2>1. SubSeq(s, n + 1, Len(s)) \in Seq(Bytes)
    BY <1>4, TailPart
  <2>2. SubSeq(s, n + 1, Len(s)) \o x \in Seq(Bytes)
    BY <2>1, ConcatProperties
  <2> QED BY <2>2, FramesDef
<1>8. Frames[s \o x] = Turn(Frames, s \o x)
  BY <1>1, FramesDef
<1>9. ~(Len(s \o x) < HeadSize) /\ ~(MsgLenOf(s \o x) > MaxLen) /\ ~(Len(s \o x) < HeadSize + MsgLenOf(s \o x))
  BY <1>1, <1>2, <1>3, ScalesAssumption DEF HeadSize
<1>10. Turn(Frames, s \o x) = [r EXCEPT !.msgs = <<SubSeq(s, HeadSize + 1, n)>> \o @]
  BY <1>3, <1>5, <1>6, <1>9 DEF Turn
<1> HIDE DEF r
<1>11. /\ Frames[s \o x].msgs = <<SubSeq(s, HeadSize + 1, n)>> \o r.msgs
       /\ Frames[s \o x].broken = r.broken
  BY <1>7, <1>8, <1>10 DEF Result
<1> QED
  BY <1>11 DEF r

\* A length that is too large breaks a stream for good.
LEMMA FramesBroken ==
  ASSUME NEW s \in Seq(Bytes), Len(s) >= HeadSize, MsgLenOf(s) > MaxLen, NEW x \in Seq(Bytes)
  PROVE  Frames[s \o x] = [msgs |-> <<>>, broken |-> TRUE]
<1>1. s \o x \in Seq(Bytes) /\ Len(s \o x) = Len(s) + Len(x) /\ Len(s) \in Nat /\ Len(x) \in Nat
  BY ConcatProperties, LenProperties
<1>2. MsgLenOf(s \o x) = MsgLenOf(s)
  <2>1. 1 \in 1..Len(s) /\ 2 \in 1..Len(s) /\ 1 \in 1..(Len(s) + Len(x)) /\ 2 \in 1..(Len(s) + Len(x))
    BY <1>1 DEF HeadSize
  <2>2. (s \o x)[1] = s[1] /\ (s \o x)[2] = s[2]
    BY <2>1, ConcatProperties
  <2> QED BY <2>2 DEF MsgLenOf
<1>3. ~(Len(s \o x) < HeadSize)
  BY <1>1 DEF HeadSize
<1>4. Frames[s \o x] = Turn(Frames, s \o x)
  BY <1>1, FramesDef
<1> QED
  BY <1>2, <1>3, <1>4 DEF Turn

\* Less than a frame is nothing yet.
LEMMA FramesNone ==
  ASSUME NEW s \in Seq(Bytes),
         Len(s) < HeadSize \/ (MsgLenOf(s) <= MaxLen /\ Len(s) < HeadSize + MsgLenOf(s))
  PROVE  Frames[s] = [msgs |-> <<>>, broken |-> FALSE]
<1>1. Frames[s] = Turn(Frames, s)
  BY FramesDef
<1>2. CASE Len(s) < HeadSize
  BY <1>1, <1>2 DEF Turn
<1>3. CASE ~(Len(s) < HeadSize)
  <2>1. MsgLenOf(s) \in Nat
    BY <1>3, HeadOk, LenProperties DEF HeadSize
  <2> QED BY <1>1, <1>3, <2>1, ScalesAssumption DEF Turn
<1> QED
  BY <1>2, <1>3

-----------------------------------------------------------------------------
(* The loop of feed.                                                       *)

\* The decoders that feed works on.
Decoders == [buf : Seq(Bytes), idx : Nat, msg : Seq(Seq(Bytes)), error : BOOLEAN]

\* The bytes behind idx.
Unread(d) == SubSeq(d.buf, d.idx + 1, Len(d.buf))

\* The definition of Loop, of one turn.
LoopTurn(g, n, d) ==
    LET c == Compact(d)
    IN  IF Available(c) < HeadSize THEN c
        ELSE IF TooLong(c) THEN Decoder(<<>>, 0, c.msg, TRUE)
        ELSE IF Available(c) - HeadSize < MsgLen(c) \/ n = 0 THEN c
        ELSE g[Frame(c)]

\* Cutting off the consumed bytes leaves what is unread as it was.
LEMMA CompactWell ==
  ASSUME NEW d \in Decoders
  PROVE  /\ Compact(d) \in Decoders
         /\ Compact(d).msg = d.msg /\ Compact(d).error = d.error
         /\ Compact(d).idx <= Consumed
         /\ d.idx <= Len(d.buf) => Compact(d).idx <= Len(Compact(d).buf) /\ Unread(Compact(d)) = Unread(d)
<1>1. /\ d.buf \in Seq(Bytes) /\ d.idx \in Nat /\ d.msg \in Seq(Seq(Bytes)) /\ d.error \in BOOLEAN
      /\ Len(d.buf) \in Nat
  BY LenProperties DEF Decoders
<1>2. CASE d.idx > Consumed
  <2> DEFINE u == Unread(d)
             c == [d EXCEPT !.buf = u, !.idx = 0]
  <2>1. Compact(d) = c
    BY <1>2 DEF Compact, Unread
  <2>2. u \in Seq(Bytes)
    <3>1. CASE d.idx <= Len(d.buf)
      BY <1>1, <3>1, TailPart, d.idx \in 0..Len(d.buf) DEF Unread
    <3>2. CASE d.idx > Len(d.buf)
      <4>1. u = <<>>
        BY <1>1, <3>2, SubSeqEmpty, d.idx + 1 \in Int, Len(d.buf) \in Int, Len(d.buf) < d.idx + 1 DEF Unread
      <4> HIDE DEF u
      <4> QED BY <4>1, EmptySeq
    <3> QED BY <3>1, <3>2, <1>1
  <2> HIDE DEF u
  <2>3. c \in Decoders /\ c.msg = d.msg /\ c.error = d.error /\ c.idx = 0 /\ c.buf = u
    BY <1>1, <2>2 DEF Decoders
  <2> HIDE DEF c
  <2>4. Unread(c) = u
    <3>1. SubSeq(u, 1, Len(u)) = u
      BY <2>2, SubSeqFull
    <3> QED BY <2>3, <3>1 DEF Unread
  <2>5. Len(u) \in Nat
    BY <2>2, LenProperties
  <2> QED
    BY <2>1, <2>3, <2>4, <2>5, ScalesAssumption DEF u
<1>3. CASE ~(d.idx > Consumed)
  BY <1>1, <1>3, ScalesAssumption DEF Compact
<1> QED
  BY <1>2, <1>3

\* What the decoder sees of its buffer is what lies behind idx.
LEMMA SeenIsUnread ==
  ASSUME NEW d \in Decoders, d.idx <= Len(d.buf)
  PROVE  /\ Unread(d) \in Seq(Bytes)
         /\ Len(Unread(d)) = Available(d) /\ Available(d) \in Nat
         /\ Available(d) >= HeadSize => MsgLen(d) = MsgLenOf(Unread(d))
<1>1. d.buf \in Seq(Bytes) /\ d.idx \in Nat /\ Len(d.buf) \in Nat /\ d.idx \in 0..Len(d.buf)
  BY LenProperties DEF Decoders
<1>2. /\ Unread(d) \in Seq(Bytes)
      /\ Len(Unread(d)) = Len(d.buf) - d.idx
      /\ \A i \in 1..(Len(d.buf) - d.idx) : Unread(d)[i] = d.buf[d.idx + i]
  BY <1>1, TailPart DEF Unread
<1>3. ASSUME Available(d) >= HeadSize PROVE MsgLen(d) = MsgLenOf(Unread(d))
  <2>1. 1 \in 1..(Len(d.buf) - d.idx) /\ 2 \in 1..(Len(d.buf) - d.idx)
    BY <1>1, <1>3 DEF Available, HeadSize
  <2> QED BY <2>1, <1>2 DEF MsgLen, MsgLenOf
<1> QED
  BY <1>1, <1>2, <1>3 DEF Available

\* A frame that is taken from the buffer is the first of the unread bytes.
LEMMA FrameWell ==
  ASSUME NEW c \in Decoders, c.idx <= Len(c.buf),
         Available(c) >= HeadSize, Available(c) - HeadSize >= MsgLen(c)
  PROVE  LET s == Unread(c)
             n == HeadSize + MsgLenOf(s)
         IN  /\ Frame(c) \in Decoders
             /\ Frame(c).idx <= Len(Frame(c).buf)
             /\ Frame(c).error = c.error
             /\ Frame(c).msg = Append(c.msg, SubSeq(s, HeadSize + 1, n))
             /\ Unread(Frame(c)) = SubSeq(s, n + 1, Len(s))
             /\ Len(Unread(Frame(c))) < Len(s)
             /\ SubSeq(s, HeadSize + 1, n) \in Seq(Bytes)
<1> DEFINE s == Unread(c)
           n == HeadSize + MsgLenOf(s)
           m == SubSeq(s, HeadSize + 1, n)
<1>1. /\ c.buf \in Seq(Bytes) /\ c.idx \in Nat /\ c.msg \in Seq(Seq(Bytes)) /\ c.error \in BOOLEAN
      /\ Len(c.buf) \in Nat /\ c.idx \in 0..Len(c.buf)
  BY LenProperties DEF Decoders
<1>2. /\ s \in Seq(Bytes) /\ Len(s) = Len(c.buf) - c.idx /\ MsgLen(c) = MsgLenOf(s)
      /\ \A i \in 1..(Len(c.buf) - c.idx) : s[i] = c.buf[c.idx + i]
  BY <1>1, SeenIsUnread, TailPart DEF Available, Unread
<1>3. MsgLenOf(s) \in Nat /\ Len(s) >= n /\ n \in Nat /\ Len(s) \in Nat /\ n >= HeadSize
  <2>1. Len(s) >= HeadSize
    BY <1>1, <1>2 DEF Available, HeadSize
  <2>2. MsgLenOf(s) \in Nat
    BY <1>2, <2>1, HeadOk
  <2> HIDE DEF s
  <2> QED BY <1>1, <1>2, <2>1, <2>2 DEF Available, HeadSize
<1> HIDE DEF s
<1>4. n \in 0..Len(s) /\ HeadSize \in 0..Len(s) /\ n \in HeadSize..Len(s)
  BY <1>3 DEF HeadSize
<1>5. /\ m \in Seq(Bytes) /\ Len(m) = n - HeadSize
      /\ \A i \in 1..(n - HeadSize) : m[i] = s[HeadSize + i]
  BY <1>2, <1>4, MiddlePart
<1> DEFINE first == c.idx + HeadSize + 1
           last == c.idx + HeadSize + MsgLen(c)
<1>6. last = c.idx + n /\ last \in Nat /\ last <= Len(c.buf) /\ first = c.idx + HeadSize + 1
  <2>1. MsgLen(c) \in Nat /\ MsgLen(c) = MsgLenOf(s)
    BY <1>2, <1>3
  <2>2. c.idx \in Nat /\ HeadSize \in Nat
    BY <1>1 DEF HeadSize
  <2>3. last = c.idx + n /\ last \in Nat
    BY <2>1, <2>2
  <2>4. n <= Len(c.buf) - c.idx
    BY <1>2, <1>3
  <2> HIDE DEF last, n
  <2> QED BY <1>1, <1>3, <2>2, <2>3, <2>4
<1>7. SubSeq(c.buf, first, last) = m
  <2> DEFINE k == c.idx + HeadSize
             b == SubSeq(c.buf, k + 1, last)
  <2>1. k \in 0..Len(c.buf) /\ last \in k..Len(c.buf) /\ first = k + 1
    <3>1. \A x, y, z \in Nat : y >= 2 /\ x + y <= z
             => x + 2 \in 0..z /\ x + y \in (x + 2)..z
      OBVIOUS
    <3>2. c.idx + n <= Len(c.buf) /\ n >= 2 /\ HeadSize = 2
      BY <1>3, <1>6 DEF HeadSize
    <3> HIDE DEF n, last
    <3>3. c.idx + 2 \in 0..Len(c.buf) /\ c.idx + n \in (c.idx + 2)..Len(c.buf)
      BY <1>1, <1>3, <3>1, <3>2
    <3> QED BY <1>6, <3>2, <3>3, Zenon
  <2>2. /\ b \in Seq(Bytes) /\ Len(b) = last - k
        /\ \A i \in 1..(last - k) : b[i] = c.buf[k + i]
    <3>1. c.buf \in Seq(Bytes)
      BY <1>1
    <3> HIDE DEF k, last
    <3> QED BY <2>1, <3>1, MiddlePart
  <2>3. last - k = n - HeadSize
    BY <1>1, <1>3, <1>6 DEF HeadSize
  <2>4. \A i \in 1..(n - HeadSize) : s[HeadSize + i] = c.buf[k + i]
    <3> TAKE i \in 1..(n - HeadSize)
    <3>1. HeadSize + i \in 1..(Len(c.buf) - c.idx) /\ c.idx + (HeadSize + i) = k + i
      BY <1>1, <1>2, <1>3 DEF HeadSize
    <3> QED BY <3>1, <1>2
  <2> HIDE DEF b, m, k, last
  <2>5. b = m
    BY <1>5, <2>2, <2>3, <2>4, SeqEqual
  <2> QED BY <2>5, <2>1 DEF b, k
<1>8. /\ Frame(c) = [c EXCEPT !.msg = Append(@, m), !.idx = last]
  BY <1>7 DEF Frame
<1>9. Append(c.msg, m) \in Seq(Seq(Bytes))
  BY <1>1, <1>5, AppendProperties
<1>10. /\ Frame(c) \in Decoders
       /\ Frame(c).idx = last /\ Frame(c).buf = c.buf /\ Frame(c).error = c.error
       /\ Frame(c).msg = Append(c.msg, m)
  <2> HIDE DEF m, last
  <2> QED BY <1>1, <1>6, <1>8, <1>9 DEF Decoders
<1>11. Unread(Frame(c)) = SubSeq(s, n + 1, Len(s)) /\ Len(Unread(Frame(c))) = Len(s) - n
  <2> DEFINE u == SubSeq(c.buf, last + 1, Len(c.buf))
             v == SubSeq(s, n + 1, Len(s))
  <2>1. last \in 0..Len(c.buf)
    BY <1>1, <1>6
  <2>2. /\ u \in Seq(Bytes) /\ Len(u) = Len(c.buf) - last
        /\ \A i \in 1..(Len(c.buf) - last) : u[i] = c.buf[last + i]
    BY <1>1, <2>1, TailPart
  <2>3. /\ v \in Seq(Bytes) /\ Len(v) = Len(s) - n
        /\ \A i \in 1..(Len(s) - n) : v[i] = s[n + i]
    BY <1>2, <1>4, TailPart
  <2>4. Len(c.buf) - last = Len(s) - n
    BY <1>1, <1>2, <1>3, <1>6
  <2> HIDE DEF u, v, last, n
  <2>5. \A i \in 1..(Len(s) - n) : s[n + i] = c.buf[last + i]
    <3> TAKE i \in 1..(Len(s) - n)
    <3>1. n + i \in 1..(Len(c.buf) - c.idx) /\ c.idx + (n + i) = last + i
      BY <1>1, <1>2, <1>3, <1>6, SMTT(30)
    <3> QED BY <3>1, <1>2
  <2>6. u = v
    BY <2>2, <2>3, <2>4, <2>5, SeqEqual
  <2> QED BY <2>3, <2>6, <1>10 DEF u, v, Unread
<1>12. Len(Unread(Frame(c))) < Len(s)
  BY <1>3, <1>11 DEF HeadSize
<1> QED
  BY <1>5, <1>6, <1>10, <1>11, <1>12 DEF s

\* A turn makes a decoder of a decoder.
LEMMA LoopTurnType ==
  ASSUME NEW g \in [Decoders -> Decoders], NEW n, NEW d \in Decoders
  PROVE  LoopTurn(g, n, d) \in Decoders
<1> DEFINE c == Compact(d)
<1>1. c \in Decoders
  BY CompactWell
<1>2. /\ Available(c) < HeadSize => LoopTurn(g, n, d) = c
      /\ ~(Available(c) < HeadSize) /\ TooLong(c) =>
            LoopTurn(g, n, d) = Decoder(<<>>, 0, c.msg, TRUE)
      /\ ~(Available(c) < HeadSize) /\ ~TooLong(c) /\ (Available(c) - HeadSize < MsgLen(c) \/ n = 0) =>
            LoopTurn(g, n, d) = c
      /\ ~(Available(c) < HeadSize) /\ ~TooLong(c) /\ ~(Available(c) - HeadSize < MsgLen(c)) /\ n # 0 =>
            LoopTurn(g, n, d) = g[Frame(c)]
  BY DEF LoopTurn
<1> HIDE DEF c
<1>3. Decoder(<<>>, 0, c.msg, TRUE) \in Decoders
  BY <1>1, EmptySeq DEF Decoder, Decoders
<1>4. c.idx \in Nat /\ Len(c.buf) \in Nat
  BY <1>1, LenProperties DEF Decoders
<1>5. CASE c.idx <= Len(c.buf)
  <2>1. Available(c) \in Nat /\ (Available(c) >= HeadSize => MsgLen(c) \in Nat)
    BY <1>1, <1>5, SeenIsUnread, HeadOk
  <2>2. ASSUME Available(c) >= HeadSize, Available(c) - HeadSize >= MsgLen(c)
        PROVE  g[Frame(c)] \in Decoders
    BY <1>1, <1>5, <2>2, FrameWell
  <2>3. ~(Available(c) < HeadSize) => Available(c) >= HeadSize
    BY <2>1 DEF HeadSize
  <2>4. ~(Available(c) < HeadSize) /\ ~(Available(c) - HeadSize < MsgLen(c)) => Available(c) - HeadSize >= MsgLen(c)
    BY <2>1 DEF HeadSize
  <2> QED
    BY <1>1, <1>2, <1>3, <2>2, <2>3, <2>4, Zenon
<1>6. CASE ~(c.idx <= Len(c.buf))
  BY <1>1, <1>2, <1>4, <1>6 DEF Available, HeadSize
<1> QED
  BY <1>5, <1>6

\* Loop is what its definition says, for any number of turns.
LEMMA LoopDef ==
  /\ Loop \in [Nat -> [Decoders -> Decoders]]
  /\ \A n \in Nat : \A d \in Decoders : Loop[n][d] = LoopTurn(Loop[n - 1], n, d)
<1> DEFINE V == [Decoders -> Decoders]
           v0 == [d \in Decoders |-> LoopTurn([e \in Decoders |-> e], 0, d)]
           step == [n \in Nat |-> [g \in V |-> [d \in Decoders |-> LoopTurn(g, n + 1, d)]]]
<1>1. v0 \in V
  BY LoopTurnType
<1>2. step \in [Nat -> [V -> V]]
  <2>1. \A n \in Nat : \A g \in V : [d \in Decoders |-> LoopTurn(g, n + 1, d)] \in V
    BY LoopTurnType
  <2> HIDE DEF V
  <2> QED BY <2>1
<1>3. PICK L \in [Nat -> V] : L[0] = v0 /\ \A n \in Nat : L[n + 1] = step[n][L[n]]
  <2> HIDE DEF V, v0, step
  <2>1. PICK L \in [Nat -> V] : Iterates(L, v0, step)
    BY <1>1, <1>2, Recursion
  <2> QED BY <2>1 DEF Iterates
<1>4. L = [n \in Nat |-> [d \in Decoders |-> LoopTurn(L[n - 1], n, d)]]
  <2>1. ASSUME NEW n \in Nat PROVE L[n] = [d \in Decoders |-> LoopTurn(L[n - 1], n, d)]
    <3>1. CASE n = 0
      <4>1. \A d \in Decoders : LoopTurn([e \in Decoders |-> e], 0, d) = LoopTurn(L[n - 1], 0, d)
        BY Zenon DEF LoopTurn
      <4> QED BY <3>1, <4>1, <1>3
    <3>2. CASE n # 0
      <4>1. n - 1 \in Nat /\ (n - 1) + 1 = n
        BY <3>2
      <4>2. L[(n - 1) + 1] = step[n - 1][L[n - 1]]
        BY <4>1, <1>3
      <4>3. L[n - 1] \in V
        BY <4>1, <1>3
      <4>4. step[n - 1][L[n - 1]] = [d \in Decoders |-> LoopTurn(L[n - 1], (n - 1) + 1, d)]
        <5> HIDE DEF V
        <5> QED BY <4>1, <4>3
      <4> QED BY <4>1, <4>2, <4>4
    <3> QED BY <3>1, <3>2
  <2> HIDE DEF V
  <2>2. L \in [Nat -> V]
    BY <1>3
  <2>3. DOMAIN L = Nat /\ L = [n \in Nat |-> L[n]]
    BY <2>2
  <2> QED BY <2>1, <2>3
<1>5. Loop = CHOOSE f : f = [n \in Nat |-> [d \in Decoders |-> LoopTurn(f[n - 1], n, d)]]
  BY Zenon DEF Loop, LoopTurn, Decoders
<1>6. Loop = [n \in Nat |-> [d \in Decoders |-> LoopTurn(Loop[n - 1], n, d)]]
  <2>1. \E f : f = [n \in Nat |-> [d \in Decoders |-> LoopTurn(f[n - 1], n, d)]]
    BY <1>4
  <2> QED BY <1>5, <2>1
<1>7. \A n \in Nat : Loop[n] \in [Decoders -> Decoders]
  <2> DEFINE T == {n \in Nat : Loop[n] \in [Decoders -> Decoders]}
  <2>1. 0 \in T
    <3>1. \A d \in Decoders : LoopTurn(Loop[0 - 1], 0, d) = LoopTurn([e \in Decoders |-> e], 0, d)
      BY Zenon DEF LoopTurn
    <3>2. \A d \in Decoders : LoopTurn(Loop[0 - 1], 0, d) \in Decoders
      BY <3>1, LoopTurnType
    <3>3. Loop[0] = [d \in Decoders |-> LoopTurn(Loop[0 - 1], 0, d)]
      BY <1>6
    <3> QED BY <3>2, <3>3
  <2>2. ASSUME NEW n \in T PROVE n + 1 \in T
    <3>1. n \in Nat /\ n + 1 \in Nat /\ (n + 1) - 1 = n /\ Loop[n] \in [Decoders -> Decoders]
      BY <2>2
    <3>2. Loop[n + 1] = [d \in Decoders |-> LoopTurn(Loop[n], n + 1, d)]
      BY <3>1, <1>6
    <3>3. \A d \in Decoders : LoopTurn(Loop[n], n + 1, d) \in Decoders
      BY <3>1, LoopTurnType
    <3> QED BY <3>1, <3>2, <3>3
  <2>3. T \in SUBSET Nat
    OBVIOUS
  <2>4. T = Nat
    <3> HIDE DEF T
    <3> QED BY <2>1, <2>2, <2>3, InductionOnNat
  <2> QED BY <2>4
<1>8. \A n \in Nat : \A d \in Decoders : Loop[n][d] = LoopTurn(Loop[n - 1], n, d)
  BY <1>6
<1> QED
  <2>1. Loop \in [Nat -> [Decoders -> Decoders]]
    <3>1. DOMAIN Loop = Nat /\ Loop = [n \in Nat |-> Loop[n]]
      BY <1>6
    <3> QED BY <3>1, <1>7
  <2> QED BY <2>1, <1>8

-----------------------------------------------------------------------------
\* The frames of a stream whose beginning has been decoded to these messages and
\* of which this is left.
After(msgs, left) == [msgs |-> msgs \o Frames[left].msgs, broken |-> Frames[left].broken]

\* What the loop makes of a decoder: r has decoded what d had not, no less, no more,
\* whatever follows.
Decoded(d, r) ==
    /\ r \in Decoders /\ r.idx <= Len(r.buf)
    /\ Len(r.buf) < Consumed + HeadSize + MaxLen
    /\ ~r.error => /\ Frames[Unread(r)] = [msgs |-> <<>>, broken |-> FALSE]
                   /\ Len(Unread(r)) <= Len(Unread(d))
    /\ \A x \in Seq(Bytes) :
          After(d.msg, Unread(d) \o x) =
             IF r.error THEN [msgs |-> r.msg, broken |-> TRUE]
             ELSE After(r.msg, Unread(r) \o x)

\* A turn that ends the loop.
LEMMA LastTurn ==
  ASSUME NEW d \in Decoders, d.idx <= Len(d.buf), ~d.error,
         LET c == Compact(d)
         IN  Available(c) < HeadSize
             \/ (~TooLong(c) /\ Available(c) - HeadSize < MsgLen(c))
  PROVE  Decoded(d, Compact(d))
<1> DEFINE c == Compact(d)
<1>1. /\ c \in Decoders /\ c.msg = d.msg /\ c.error = d.error /\ c.idx <= Consumed
      /\ c.idx <= Len(c.buf) /\ Unread(c) = Unread(d)
  BY CompactWell
<1> HIDE DEF c
<1>2. /\ Unread(c) \in Seq(Bytes) /\ Len(Unread(c)) = Available(c) /\ Available(c) \in Nat
      /\ Available(c) >= HeadSize => MsgLen(c) = MsgLenOf(Unread(c)) /\ MsgLen(c) \in Nat
  BY <1>1, SeenIsUnread, HeadOk
<1>3. Available(c) < HeadSize
      \/ (MsgLen(c) <= MaxLen /\ Available(c) >= HeadSize /\ Available(c) - HeadSize < MsgLen(c))
  BY <1>2, ScalesAssumption DEF c, TooLong, HeadSize
<1>4. Frames[Unread(c)] = [msgs |-> <<>>, broken |-> FALSE]
  <2>1. Len(Unread(c)) < HeadSize
        \/ (MsgLenOf(Unread(c)) <= MaxLen /\ Len(Unread(c)) < HeadSize + MsgLenOf(Unread(c)))
    BY <1>2, <1>3 DEF HeadSize
  <2> QED BY <1>2, <2>1, FramesNone
<1>5. Len(c.buf) < Consumed + HeadSize + MaxLen
  <2>1. c.idx \in Nat /\ Len(c.buf) \in Nat /\ Available(c) = Len(c.buf) - c.idx
    BY <1>1, LenProperties DEF Decoders, Available
  <2> QED BY <2>1, <1>1, <1>2, <1>3, ScalesAssumption DEF HeadSize
<1>6. Len(Unread(c)) <= Len(Unread(d))
  BY <1>1, <1>2
<1> QED
  BY <1>1, <1>4, <1>5, <1>6 DEF Decoded, c

\* Concatenation is associative.
LEMMA ThreeParts ==
  ASSUME NEW S, NEW a \in Seq(S), NEW b \in Seq(S), NEW e \in Seq(S)
  PROVE  a \o (b \o e) = (a \o b) \o e
<1>1. (a \o b) \o e = a \o (b \o e)
  BY ConcatAssociative
<1> QED
  BY <1>1

\* The same of messages and of bytes, as sequences that exist.
LEMMA MsgParts == \A a, b, e \in Seq(Seq(Bytes)) : a \o (b \o e) = (a \o b) \o e
BY ThreeParts, SMTT(30)

\* The same of bytes.
LEMMA ByteParts == \A a, b, e \in Seq(Bytes) : a \o (b \o e) = (a \o b) \o e
BY ThreeParts, Z3

\* n turns decode n unread bytes: all whole frames of them are taken, what is left is
\* less than a frame, and the buffer is small.
LEMMA LoopDecodes ==
  \A n \in Nat : \A d \in Decoders :
     d.idx <= Len(d.buf) /\ ~d.error /\ Len(Unread(d)) <= n => Decoded(d, Loop[n][d])
<1> DEFINE Good(n) == \A d \in Decoders :
              d.idx <= Len(d.buf) /\ ~d.error /\ Len(Unread(d)) <= n => Decoded(d, Loop[n][d])
           T == {n \in Nat : Good(n)}
<1>1. ASSUME NEW n \in Nat, n > 0 => Good(n - 1) PROVE Good(n)
  <2> SUFFICES ASSUME NEW d \in Decoders, d.idx <= Len(d.buf), ~d.error, Len(Unread(d)) <= n
               PROVE  Decoded(d, Loop[n][d])
    OBVIOUS
  <2> DEFINE c == Compact(d)
             s == Unread(d)
  <2>1. /\ c \in Decoders /\ c.msg = d.msg /\ c.error = d.error /\ c.idx <= Consumed
        /\ c.idx <= Len(c.buf) /\ Unread(c) = s
    BY CompactWell
  <2>2. /\ Loop[n][d] = LoopTurn(Loop[n - 1], n, d)
    BY LoopDef
  <2>3. /\ Available(c) < HeadSize => Loop[n][d] = c
        /\ ~(Available(c) < HeadSize) /\ TooLong(c) =>
              Loop[n][d] = Decoder(<<>>, 0, c.msg, TRUE)
        /\ ~(Available(c) < HeadSize) /\ ~TooLong(c) /\ (Available(c) - HeadSize < MsgLen(c) \/ n = 0) =>
              Loop[n][d] = c
        /\ ~(Available(c) < HeadSize) /\ ~TooLong(c) /\ ~(Available(c) - HeadSize < MsgLen(c)) /\ n # 0 =>
              Loop[n][d] = Loop[n - 1][Frame(c)]
    BY <2>2 DEF LoopTurn
  <2> HIDE DEF c
  <2>4. /\ s \in Seq(Bytes) /\ Len(s) = Available(c) /\ Available(c) \in Nat
        /\ Available(c) >= HeadSize => MsgLen(c) = MsgLenOf(s) /\ MsgLen(c) \in Nat
    BY <2>1, SeenIsUnread, HeadOk
  <2> HIDE DEF s
  <2>5. CASE Available(c) < HeadSize
    <3>1. Loop[n][d] = c
      BY <2>3, <2>5
    <3>2. Decoded(d, c)
      BY <2>5, LastTurn DEF c
    <3> QED BY <3>1, <3>2
  <2>6. CASE ~(Available(c) < HeadSize) /\ TooLong(c)
    <3> DEFINE r == Decoder(<<>>, 0, c.msg, TRUE)
    <3>1. Loop[n][d] = r
      BY <2>3, <2>6
    <3>2. r \in Decoders /\ r.idx = 0 /\ Len(r.buf) = 0 /\ r.error = TRUE /\ r.msg = d.msg
      BY <2>1, EmptySeq DEF Decoder, Decoders
    <3> HIDE DEF r
    <3>3. ASSUME NEW x \in Seq(Bytes)
          PROVE  After(d.msg, s \o x) = [msgs |-> r.msg, broken |-> TRUE]
      <4>1. Len(s) >= HeadSize /\ MsgLenOf(s) > MaxLen
        BY <2>4, <2>6 DEF TooLong, HeadSize
      <4>2. Frames[s \o x] = [msgs |-> <<>>, broken |-> TRUE]
        BY <2>4, <4>1, FramesBroken
      <4>3. d.msg \in Seq(Seq(Bytes))
        BY DEF Decoders
      <4>4. d.msg \o <<>> = d.msg
        BY <4>3, ConcatEmptySeq
      <4> QED BY <3>2, <4>2, <4>4 DEF After
    <3>4. 0 < Consumed + HeadSize + MaxLen
      BY ScalesAssumption DEF HeadSize
    <3>5. r \in Decoders /\ r.idx <= Len(r.buf) /\ Len(r.buf) < Consumed + HeadSize + MaxLen
      BY <3>2, <3>4
    <3>6. \A x \in Seq(Bytes) :
             After(d.msg, s \o x) = IF r.error THEN [msgs |-> r.msg, broken |-> TRUE]
                                   ELSE After(r.msg, Unread(r) \o x)
      BY <3>2, <3>3
    <3>7. Decoded(d, r)
      BY <3>2, <3>5, <3>6, Zenon DEF Decoded, s
    <3> QED BY <3>1, <3>7
  <2>7. CASE ~(Available(c) < HeadSize) /\ ~TooLong(c) /\ Available(c) - HeadSize < MsgLen(c)
    <3>1. Loop[n][d] = c
      BY <2>3, <2>7
    <3>2. Decoded(d, c)
      BY <2>7, LastTurn DEF c
    <3> QED BY <3>1, <3>2
  <2>8. CASE ~(Available(c) < HeadSize) /\ ~TooLong(c) /\ ~(Available(c) - HeadSize < MsgLen(c))
    <3>1. Available(c) >= HeadSize /\ Available(c) - HeadSize >= MsgLen(c) /\ MsgLen(c) <= MaxLen
      BY <2>4, <2>8, ScalesAssumption DEF HeadSize, TooLong
    <3> DEFINE k == HeadSize + MsgLenOf(s)
               m == SubSeq(s, HeadSize + 1, k)
               f == Frame(c)
    <3>2. /\ f \in Decoders /\ f.idx <= Len(f.buf) /\ f.error = c.error
          /\ f.msg = Append(c.msg, m)
          /\ Unread(f) = SubSeq(s, k + 1, Len(s))
          /\ Len(Unread(f)) < Len(s)
          /\ m \in Seq(Bytes)
      BY <2>1, <3>1, FrameWell
    <3> HIDE DEF f
    <3>3. Unread(f) \in Seq(Bytes) /\ Len(Unread(f)) \in Nat
      BY <3>2, SeenIsUnread, LenProperties
    <3>4. n # 0 /\ n - 1 \in Nat /\ Len(Unread(f)) <= n - 1
      BY <2>4, <3>2, <3>3 DEF s
    <3>5. Loop[n][d] = Loop[n - 1][f]
      BY <2>3, <2>8, <3>4 DEF f
    <3> DEFINE r == Loop[n - 1][f]
    <3>6. Decoded(f, r)
      <4>1. Good(n - 1)
        BY <1>1, <3>4
      <4> QED BY <4>1, <3>2, <3>4, <2>1
    <3> HIDE DEF r
    <3>7. ASSUME NEW x \in Seq(Bytes)
          PROVE  After(d.msg, s \o x) = After(f.msg, Unread(f) \o x)
      <4> DEFINE u == Frames[Unread(f) \o x]
      <4>1. Len(s) >= HeadSize /\ MsgLenOf(s) <= MaxLen /\ Len(s) >= HeadSize + MsgLenOf(s)
        BY <2>4, <3>1 DEF HeadSize
      <4>2. Frames[s \o x].msgs = <<m>> \o u.msgs /\ Frames[s \o x].broken = u.broken
        BY <2>4, <3>2, <4>1, FramesFirst, ZenonT(30)
      <4>3. u.msgs \in Seq(Seq(Bytes))
        <5>1. Unread(f) \o x \in Seq(Bytes)
          BY <3>3, ConcatProperties
        <5> QED BY <5>1, FramesDef DEF Result
      <4> HIDE DEF u, m
      <4>4. d.msg \in Seq(Seq(Bytes)) /\ <<m>> \in Seq(Seq(Bytes))
        BY <3>2 DEF Decoders
      <4>5. f.msg = d.msg \o <<m>>
        BY <4>4, <3>2, <2>1, AppendIsConcat
      <4>6. d.msg \o (<<m>> \o u.msgs) = (d.msg \o <<m>>) \o u.msgs
        BY <4>3, <4>4, MsgParts
      <4> QED BY <4>2, <4>5, <4>6 DEF After, u
    <3>8. Decoded(d, r)
      <4>1. ~r.error => Len(Unread(r)) <= Len(s)
        <5>1. ~r.error => Unread(r) \in Seq(Bytes) /\ Len(Unread(r)) \in Nat
          BY <3>6, SeenIsUnread, LenProperties DEF Decoded
        <5> QED BY <3>2, <3>3, <3>6, <5>1, <2>4 DEF Decoded
      <4> QED BY <3>6, <3>7, <4>1 DEF Decoded, s
    <3> QED BY <3>5, <3>8 DEF r
  <2> QED BY <2>5, <2>6, <2>7, <2>8
<1>2. 0 \in T
  <2> HIDE DEF Good
  <2> QED BY <1>1
<1>3. ASSUME NEW n \in T PROVE n + 1 \in T
  <2>1. n + 1 \in Nat /\ (n + 1) - 1 = n /\ Good(n)
    BY <1>3
  <2>2. Good(n + 1)
    <3> HIDE DEF Good
    <3> QED BY <1>1, <2>1
  <2> HIDE DEF Good
  <2> QED BY <2>1, <2>2
<1>4. T \in SUBSET Nat
  OBVIOUS
<1>5. T = Nat
  <2> HIDE DEF T
  <2> QED BY <1>2, <1>3, <1>4, InductionOnNat
<1> QED
  BY <1>5

-----------------------------------------------------------------------------
(* feed and take.                                                          *)

\* What has been taken and what can be are the messages of the stream so far, and
\* will be the first ones of any stream that begins with it.
DecodeInv ==
    /\ stream \in Seq(Bytes) /\ Len(stream) <= MaxStream
    /\ Inputbuf \in Seq(Bytes) /\ idx \in Nat /\ idx <= Len(Inputbuf)
    /\ msg \in Seq(Seq(Bytes)) /\ taken \in Seq(Seq(Bytes)) /\ error \in BOOLEAN
    /\ Len(Inputbuf) < Consumed + HeadSize + MaxLen
    /\ LET left == SubSeq(Inputbuf, idx + 1, Len(Inputbuf))
       IN  /\ ~error => /\ Frames[left] = [msgs |-> <<>>, broken |-> FALSE]
                        /\ Len(left) <= Len(stream)
           /\ \A x \in Seq(Bytes) :
                 Frames[stream \o x] =
                    IF error THEN [msgs |-> taken \o msg, broken |-> TRUE]
                    ELSE After(taken \o msg, left \o x)

\* A new decoder has read nothing.
LEMMA InitDecoded == DecodeInit => DecodeInv
<1> SUFFICES ASSUME DecodeInit PROVE DecodeInv
  OBVIOUS
<1>1. /\ <<>> \in Seq(Bytes) /\ <<>> \in Seq(Seq(Bytes)) /\ Len(<<>>) = 0
  BY EmptySeq
<1>2. SubSeq(<<>>, 0 + 1, Len(<<>>)) = <<>>
  BY <1>1, SubSeqEmpty
<1>3. Frames[<<>>] = [msgs |-> <<>>, broken |-> FALSE]
  <2>1. \A s \in Seq(Bytes) : Len(s) < HeadSize => Frames[s] = [msgs |-> <<>>, broken |-> FALSE]
    BY FramesNone
  <2>2. Len(<<>>) < HeadSize
    BY <1>1 DEF HeadSize
  <2> QED BY <1>1, <2>1, <2>2, Zenon
<1>4. ASSUME NEW x \in Seq(Bytes)
      PROVE  Frames[<<>> \o x] = After(<<>> \o <<>>, <<>> \o x)
  <2>1. <<>> \o x = x /\ <<>> \o <<>> = <<>>
    BY ConcatEmptySeq, <1>1
  <2>2. Frames[x] \in Result
    BY FramesDef
  <2>3. <<>> \o Frames[x].msgs = Frames[x].msgs
    BY <2>2, ConcatEmptySeq DEF Result
  <2>4. Frames[x] = [msgs |-> Frames[x].msgs, broken |-> Frames[x].broken]
    BY <2>2 DEF Result
  <2> QED BY <2>1, <2>3, <2>4 DEF After
<1>5. /\ stream = <<>> /\ Inputbuf = <<>> /\ idx = 0 /\ msg = <<>> /\ error = FALSE /\ taken = <<>>
  BY DEF DecodeInit
<1>6. Len(<<>>) <= MaxStream /\ 0 <= Len(<<>>) /\ Len(<<>>) < Consumed + HeadSize + MaxLen
  BY <1>1, ScalesAssumption DEF HeadSize
<1>7. 0 \in Nat /\ FALSE \in BOOLEAN /\ Len(<<>>) <= Len(<<>>)
  BY <1>1
<1> QED
  BY <1>1, <1>2, <1>3, <1>4, <1>5, <1>6, <1>7, Zenon DEF DecodeInv

\* feed keeps the decoder in step with the stream, whatever the piece.
LEMMA FeedDecoded ==
  ASSUME DecodeInv, NEW data \in Seq(Bytes), Feed(data)
  PROVE  DecodeInv'
<1> DEFINE left == SubSeq(Inputbuf, idx + 1, Len(Inputbuf))
<1>1. /\ stream \in Seq(Bytes) /\ Len(stream) <= MaxStream
      /\ Inputbuf \in Seq(Bytes) /\ idx \in Nat /\ idx <= Len(Inputbuf)
      /\ msg \in Seq(Seq(Bytes)) /\ taken \in Seq(Seq(Bytes)) /\ error \in BOOLEAN
      /\ Len(Inputbuf) < Consumed + HeadSize + MaxLen
  BY DEF DecodeInv
<1>2. /\ ~error => /\ Frames[left] = [msgs |-> <<>>, broken |-> FALSE]
                   /\ Len(left) <= Len(stream)
      /\ \A x \in Seq(Bytes) :
            Frames[stream \o x] = IF error THEN [msgs |-> taken \o msg, broken |-> TRUE]
                                  ELSE After(taken \o msg, left \o x)
  BY DEF DecodeInv
<1>3. /\ Len(stream) + Len(data) <= MaxStream
      /\ stream' = stream \o data /\ taken' = taken
  BY DEF Feed
<1>4. /\ stream \o data \in Seq(Bytes) /\ Len(stream \o data) = Len(stream) + Len(data)
      /\ Len(stream) \in Nat /\ Len(data) \in Nat /\ Len(Inputbuf) \in Nat
  BY <1>1, ConcatProperties, LenProperties
<1>5. /\ left \in Seq(Bytes) /\ Len(left) = Len(Inputbuf) - idx
  BY <1>1, <1>4, idx \in 0..Len(Inputbuf), TailPart
<1>6. ASSUME NEW x \in Seq(Bytes)
      PROVE  /\ data \o x \in Seq(Bytes)
             /\ (stream \o data) \o x = stream \o (data \o x)
             /\ (left \o data) \o x = left \o (data \o x)
  <2> HIDE DEF left
  <2>1. data \o x \in Seq(Bytes)
    BY ConcatProperties
  <2>2. stream \o (data \o x) = (stream \o data) \o x
    BY <1>1, ByteParts
  <2>3. left \o (data \o x) = (left \o data) \o x
    BY <1>5, ByteParts
  <2> QED BY <2>1, <2>2, <2>3
<1>7. CASE error
  <2>1. Inputbuf' = Inputbuf /\ idx' = idx /\ msg' = msg /\ error' = error
    BY <1>7 DEF Feed
  <2>2. ASSUME NEW x \in Seq(Bytes)
        PROVE  Frames[(stream \o data) \o x] = [msgs |-> taken \o msg, broken |-> TRUE]
    BY <1>2, <1>6, <1>7
  <2>3. Len(stream \o data) <= MaxStream
    BY <1>3, <1>4
  <2> QED
    BY <1>1, <1>3, <1>4, <1>7, <2>1, <2>2, <2>3 DEF DecodeInv
<1>8. CASE ~error
  <2> DEFINE d == Decoder(Inputbuf \o data, idx, msg, FALSE)
             r == Loop[MaxStream][d]
  <2>1. Inputbuf' = r.buf /\ idx' = r.idx /\ msg' = r.msg /\ error' = r.error
    BY <1>8 DEF Feed
  <2>2. Inputbuf \o data \in Seq(Bytes) /\ Len(Inputbuf \o data) = Len(Inputbuf) + Len(data)
    BY <1>1, ConcatProperties
  <2>3. /\ d \in Decoders /\ d.buf = Inputbuf \o data /\ d.idx = idx /\ d.msg = msg /\ ~d.error
    BY <1>1, <2>2 DEF Decoder, Decoders
  <2>4. Unread(d) = left \o data
    <3>1. SubSeq(Inputbuf \o data, idx + 1, Len(Inputbuf \o data)) = left \o data
      BY <1>1, <1>4, idx \in 0..Len(Inputbuf), TailOfConcat
    <3> HIDE DEF d
    <3> QED BY <2>3, <3>1 DEF Unread
  <2>5. Len(left \o data) = Len(left) + Len(data) /\ Len(left) \in Nat
    BY <1>5, ConcatProperties, LenProperties
  <2> HIDE DEF d, left
  <2>6. d.idx <= Len(d.buf) /\ Len(Unread(d)) <= MaxStream
    BY <1>1, <1>2, <1>3, <1>4, <1>8, <2>2, <2>3, <2>4, <2>5, ScalesAssumption
  <2>7. Decoded(d, r)
    BY <2>3, <2>6, ScalesAssumption, LoopDecodes
  <2> HIDE DEF r
  <2>8. /\ r \in Decoders /\ r.idx <= Len(r.buf)
        /\ Len(r.buf) < Consumed + HeadSize + MaxLen
        /\ ~r.error => /\ Frames[Unread(r)] = [msgs |-> <<>>, broken |-> FALSE]
                       /\ Len(Unread(r)) <= Len(Unread(d))
        /\ \A x \in Seq(Bytes) :
              After(msg, (left \o data) \o x) =
                 IF r.error THEN [msgs |-> r.msg, broken |-> TRUE]
                 ELSE After(r.msg, Unread(r) \o x)
    BY <2>3, <2>4, <2>7, Zenon DEF Decoded
  <2>9. r.buf \in Seq(Bytes) /\ r.idx \in Nat /\ r.msg \in Seq(Seq(Bytes)) /\ r.error \in BOOLEAN
    BY <2>8 DEF Decoders
  <2>10. ~r.error => Len(Unread(r)) <= Len(stream \o data)
    <3>1. Unread(r) \in Seq(Bytes) /\ Len(Unread(r)) \in Nat
      BY <2>8, SeenIsUnread, LenProperties
    <3> QED BY <1>2, <1>4, <1>8, <2>4, <2>5, <2>8, <3>1
  <2>11. ASSUME NEW x \in Seq(Bytes)
         PROVE  Frames[(stream \o data) \o x] =
                   IF r.error THEN [msgs |-> taken \o r.msg, broken |-> TRUE]
                   ELSE After(taken \o r.msg, Unread(r) \o x)
    <3> DEFINE u == Frames[(left \o data) \o x]
    <3>1. Frames[(stream \o data) \o x] = After(taken \o msg, (left \o data) \o x)
      BY <1>2, <1>6, <1>8
    <3>2. (left \o data) \o x \in Seq(Bytes)
      BY <1>5, ConcatProperties DEF left
    <3>3. u \in Result
      BY <3>2, FramesDef
    <3>4. After(taken \o msg, (left \o data) \o x)
             = [msgs |-> taken \o (msg \o u.msgs), broken |-> u.broken]
      <4>1. (taken \o msg) \o u.msgs = taken \o (msg \o u.msgs)
        <5>1. u.msgs \in Seq(Seq(Bytes))
          BY <3>3 DEF Result
        <5> HIDE DEF u
        <5> QED BY <1>1, <5>1, MsgParts
      <4> QED BY <4>1, Zenon DEF After
    <3>5. After(msg, (left \o data) \o x) = [msgs |-> msg \o u.msgs, broken |-> u.broken]
      BY DEF After
    <3> DEFINE a == After(msg, (left \o data) \o x)
    <3>6. Frames[(stream \o data) \o x] = [msgs |-> taken \o a.msgs, broken |-> a.broken]
      <4>1. a.msgs = msg \o u.msgs /\ a.broken = u.broken
        BY <3>5
      <4> HIDE DEF a, u
      <4> QED BY <3>1, <3>4, <4>1, Zenon
    <3>7. CASE r.error
      <4>1. a = [msgs |-> r.msg, broken |-> TRUE]
        BY <2>8, <3>7, Zenon
      <4>2. a.msgs = r.msg /\ a.broken = TRUE
        BY <4>1
      <4> HIDE DEF a
      <4> QED BY <3>6, <3>7, <4>2, Zenon
    <3>8. CASE ~r.error
      <4> DEFINE v == Frames[Unread(r) \o x]
      <4>1. a = After(r.msg, Unread(r) \o x)
        BY <2>8, <3>8, Zenon
      <4>2. a.msgs = r.msg \o v.msgs /\ a.broken = v.broken
        BY <4>1 DEF After
      <4>3. v.msgs \in Seq(Seq(Bytes))
        <5>1. Unread(r) \o x \in Seq(Bytes)
          BY <2>8, SeenIsUnread, ConcatProperties
        <5> QED BY <5>1, FramesDef DEF Result
      <4> HIDE DEF a, v
      <4>4. taken \o (r.msg \o v.msgs) = (taken \o r.msg) \o v.msgs
        BY <1>1, <2>9, <4>3, MsgParts
      <4>5. Frames[(stream \o data) \o x] = [msgs |-> (taken \o r.msg) \o v.msgs, broken |-> v.broken]
        BY <3>6, <4>2, <4>4, Zenon
      <4> QED BY <3>8, <4>5, Zenon DEF After, v
    <3> QED BY <3>7, <3>8
  <2>12. Len(stream \o data) <= MaxStream
    BY <1>3, <1>4
  <2>13. Unread(r) = SubSeq(r.buf, r.idx + 1, Len(r.buf))
    BY DEF Unread
  <2> QED
    BY <1>1, <1>3, <1>4, <2>1, <2>8, <2>9, <2>10, <2>11, <2>12, <2>13, Zenon DEF DecodeInv
<1> QED
  BY <1>1, <1>7, <1>8

\* take moves the messages and changes nothing else.
LEMMA TakeDecoded == DecodeInv /\ Take => DecodeInv'
<1> SUFFICES ASSUME DecodeInv, Take PROVE DecodeInv'
  OBVIOUS
<1>1. msg \in Seq(Seq(Bytes)) /\ taken \in Seq(Seq(Bytes))
  BY DEF DecodeInv
<1>2. /\ taken' = taken \o msg /\ msg' = <<>> /\ stream' = stream
      /\ Inputbuf' = Inputbuf /\ idx' = idx /\ error' = error
  BY DEF Take
<1>3. taken \o msg \in Seq(Seq(Bytes)) /\ (taken \o msg) \o <<>> = taken \o msg
  BY <1>1, ConcatProperties, ConcatEmptySeq
<1>4. <<>> \in Seq(Seq(Bytes))
  BY EmptySeq
<1> QED
  BY <1>2, <1>3, <1>4, Zenon DEF DecodeInv

\* Every step keeps the invariant.
LEMMA StepDecoded == DecodeInv /\ [DecodeNext]_decodeVars => DecodeInv'
<1> SUFFICES ASSUME DecodeInv, [DecodeNext]_decodeVars PROVE DecodeInv'
  OBVIOUS
<1>1. ASSUME NEW n \in 1..MaxStream, NEW data \in [1..n -> Bytes], Feed(data) PROVE DecodeInv'
  <2>1. data \in Seq(Bytes)
    BY ScalesAssumption, n \in Nat, SeqDef
  <2> QED BY <1>1, <2>1, FeedDecoded
<1>2. CASE UNCHANGED decodeVars
  BY <1>2, Zenon DEF decodeVars, DecodeInv
<1> QED
  BY <1>1, <1>2, TakeDecoded DEF DecodeNext

\* What the invariant says of the stream as it is.
LEMMA DecodedNow == DecodeInv => ChunkingIrrelevant
<1> SUFFICES ASSUME DecodeInv PROVE ChunkingIrrelevant
  OBVIOUS
<1> DEFINE left == SubSeq(Inputbuf, idx + 1, Len(Inputbuf))
           had == taken \o msg
<1>1. /\ stream \in Seq(Bytes) /\ msg \in Seq(Seq(Bytes)) /\ taken \in Seq(Seq(Bytes))
      /\ Inputbuf \in Seq(Bytes) /\ idx \in Nat /\ idx <= Len(Inputbuf) /\ error \in BOOLEAN
  BY DEF DecodeInv
<1>2. /\ ~error => Frames[left] = [msgs |-> <<>>, broken |-> FALSE]
      /\ \A x \in Seq(Bytes) :
            Frames[stream \o x] = IF error THEN [msgs |-> had, broken |-> TRUE]
                                  ELSE After(had, left \o x)
  BY DEF DecodeInv
<1>3. stream \o <<>> = stream /\ <<>> \in Seq(Bytes)
  BY <1>1, ConcatEmptySeq, EmptySeq
<1>4. left \o <<>> = left /\ had \o <<>> = had
  <2>1. left \in Seq(Bytes)
    BY <1>1, LenProperties, idx \in 0..Len(Inputbuf), TailPart
  <2>2. had \in Seq(Seq(Bytes))
    BY <1>1, ConcatProperties
  <2> HIDE DEF left, had
  <2> QED BY <2>1, <2>2, ConcatEmptySeq
<1> HIDE DEF left, had
<1>5. Frames[stream \o <<>>] = IF error THEN [msgs |-> had, broken |-> TRUE]
                              ELSE After(had, left \o <<>>)
  BY <1>2, <1>3, Zenon
<1>6. ~error => After(had, left \o <<>>) = [msgs |-> had, broken |-> FALSE]
  <2>1. ~error => Frames[left].msgs = <<>> /\ Frames[left].broken = FALSE
    BY <1>2
  <2> QED BY <1>4, <2>1 DEF After
<1>7. Frames[stream] = [msgs |-> had, broken |-> error]
  BY <1>1, <1>3, <1>5, <1>6
<1> QED
  BY <1>7 DEF ChunkingIrrelevant, had

\* feed and take (Message.cpp:11-57): in whatever pieces the bytes come and whenever
\* take is called, the messages are those of the whole stream, and the decoder breaks
\* exactly if the stream does.
THEOREM DecoderRight == DecodeSpec => []ChunkingIrrelevant
<1>1. DecodeSpec => []DecodeInv
  BY InitDecoded, StepDecoded, PTL DEF DecodeSpec
<1> QED
  BY <1>1, DecodedNow, PTL

\* compact (Message.cpp:18-25) keeps what feed leaves below the consumed limit and one
\* longest frame, however long the stream.
THEOREM DecoderBounded == DecodeSpec => []BufferBounded
<1>1. DecodeInv => BufferBounded
  BY DEF DecodeInv, BufferBounded
<1> QED
  BY <1>1, InitDecoded, StepDecoded, PTL DEF DecodeSpec

-----------------------------------------------------------------------------
(* The bench client: answers taken one after the other.                    *)

\* The answers a client may get.
Replies == [id : Nat, intact : BOOLEAN]

\* What a handler makes of x while it takes answers.
From(x) ==
    [k : [st : {x.k.st}, ev : {x.k.ev}, next_id : {x.k.next_id}, done_cnt : Nat,
          inflight : {i \in Int : i <= x.k.inflight}, pending : SUBSET x.k.pending,
          outbuf : {x.k.outbuf}, up : {x.k.up}, down : {x.k.down}, peer : {x.k.peer}],
     t : [received : Nat, extra : Nat, errors : {x.t.errors}, tampered : Nat],
     took : {x.took}, fail : {x.fail}]

\* An answer taken leaves a handler of x with less under way.
LEMMA TakeType ==
  ASSUME NEW x, NEW y \in From(x), NEW a \in Replies, x.k.inflight \in Int
  PROVE  TakeAnswer(y, a) \in From(x)
<1>1. CASE a.id \notin y.k.pending
  <2>1. TakeAnswer(y, a) = [y EXCEPT !.t.extra = @ + 1]
    BY <1>1 DEF TakeAnswer
  <2> QED BY <2>1 DEF From
<1>2. CASE a.id \in y.k.pending
  <2>1. TakeAnswer(y, a) =
           [y EXCEPT !.k.pending = @ \ {a.id}, !.k.inflight = @ - 1,
                   !.k.done_cnt = @ + 1, !.t.received = @ + 1,
                   !.t.tampered = IF Check /\ ~a.intact THEN @ + 1 ELSE @]
    BY <1>2 DEF TakeAnswer
  <2> DEFINE y1 == [y EXCEPT !.k.pending = @ \ {a.id}]
             y2 == [y1 EXCEPT !.k.inflight = y.k.inflight - 1]
             y3 == [y2 EXCEPT !.k.done_cnt = y.k.done_cnt + 1]
             y4 == [y3 EXCEPT !.t.received = y.t.received + 1]
             y5 == [y4 EXCEPT !.t.tampered = IF Check /\ ~a.intact THEN y.t.tampered + 1 ELSE y.t.tampered]
  <2>2. y1 \in From(x)
    BY DEF From
  <2>3. y2 \in From(x)
    <3> HIDE DEF y1
    <3>1. y.k.inflight - 1 \in Int /\ y.k.inflight - 1 <= x.k.inflight
      BY <2>2 DEF From
    <3> QED BY <2>2, <3>1 DEF From
  <2>4. y3 \in From(x)
    <3> HIDE DEF y2
    <3> QED BY <2>3 DEF From
  <2>5. y4 \in From(x)
    <3> HIDE DEF y3
    <3> QED BY <2>4 DEF From
  <2>6. y5 \in From(x)
    <3> HIDE DEF y4
    <3> QED BY <2>5 DEF From
  <2>7. TakeAnswer(y, a) = y5
    BY <2>1, Zenon
  <2> QED BY <2>6, <2>7, Zenon
<1> QED BY <1>1, <1>2

\* The greatest of a set of places.
LEMMA MaxOf ==
  ASSUME NEW n \in Nat, NEW D \in SUBSET (1..n), D # {}
  PROVE  Max(D) \in D /\ \A y \in D : Max(D) >= y
<1> DEFINE P(k) == \A E \in SUBSET (1..k) : E # {} => \E m \in E : \A y \in E : m >= y
           T == {k \in Nat : P(k)}
<1>1. 0 \in T
  BY 1..0 = {}
<1>2. ASSUME NEW k \in T PROVE k + 1 \in T
  <2>1. ASSUME NEW E \in SUBSET (1..(k + 1)), E # {}
        PROVE  \E m \in E : \A y \in E : m >= y
    <3>1. CASE k + 1 \in E
      <4>1. \A y \in E : k + 1 >= y
        BY <1>2
      <4> QED BY <3>1, <4>1
    <3>2. CASE k + 1 \notin E
      <4>1. E \in SUBSET (1..k)
        BY <1>2, <3>2
      <4> QED BY <1>2, <2>1, <4>1
    <3> QED BY <3>1, <3>2
  <2> QED BY <1>2, <2>1
<1>3. T \in SUBSET Nat
  OBVIOUS
<1>4. n \in T
  <2> HIDE DEF T
  <2>1. T = Nat
    BY <1>1, <1>2, <1>3, InductionOnNat
  <2> QED BY <2>1
<1>5. \E m \in D : \A y \in D : m >= y
  BY <1>4
<1> QED
  BY <1>5, Zenon DEF Max

\* The definition of the fold, of the last place of D.
FoldTurn(f, x, s, D) == IF D = {} THEN x ELSE TakeAnswer(f[D \ {Max(D)}], s[Max(D)])

\* The handler x when it has taken the answers s.
AllTaken(x, s) == FoldLeft(TakeAnswer, x, s)

\* f answers for every set of places.
IsFold(f, x, s) == f = [D \in SUBSET DOMAIN s |-> FoldTurn(f, x, s, D)]

\* There is such an f.
FoldExists(x, s) == \E f : IsFold(f, x, s)

\* g is such an f, and the fold is what it has for all places.
FoldGives(x, s, g) == AllTaken(x, s) = g[DOMAIN s] /\ IsFold(g, x, s)

\* If there is such an f, the fold is computed by one.
LEMMA FoldDef ==
  ASSUME NEW x, NEW s, FoldExists(x, s)
  PROVE  \E g : FoldGives(x, s, g)
<1>1. \E f : f = [D \in SUBSET DOMAIN s |-> FoldTurn(f, x, s, D)]
  BY DEF FoldExists, IsFold
<1> DEFINE g == CHOOSE g : g = [D \in SUBSET DOMAIN s |-> FoldTurn(g, x, s, D)]
<1>2. g = [D \in SUBSET DOMAIN s |-> FoldTurn(g, x, s, D)]
  BY <1>1, Zenon
<1>3. AllTaken(x, s) = g[DOMAIN s]
  BY Zenon DEF FoldLeft, MapThenFoldSet, FoldTurn, AllTaken
<1> QED
  BY <1>2, <1>3 DEF FoldGives, IsFold

\* There is such an f: it settles on the places up to k after k steps.
LEMMA FoldFixpoint ==
  ASSUME NEW x, x.k.inflight \in Int, x \in From(x), NEW s \in Seq(Replies)
  PROVE  FoldExists(x, s)
<1> DEFINE n == Len(s)
           S == SUBSET (1..n)
           V == [S -> From(x)]
           v0 == [D \in S |-> x]
           step == [k \in Nat |-> [g \in V |-> [D \in S |->
                       IF k + 1 \in D THEN TakeAnswer(g[D \ {k + 1}], s[k + 1]) ELSE g[D]]]]
<1>0. n \in Nat /\ DOMAIN s = 1..n /\ \A i \in 1..n : s[i] \in Replies
  BY LenProperties, ElementOfSeq
<1>1. v0 \in V
  OBVIOUS
<1>2. step \in [Nat -> [V -> V]]
  <2>1. ASSUME NEW k \in Nat, NEW g \in V, NEW D \in S
        PROVE  (IF k + 1 \in D THEN TakeAnswer(g[D \ {k + 1}], s[k + 1]) ELSE g[D]) \in From(x)
    <3>1. CASE k + 1 \in D
      <4>1. D \ {k + 1} \in S /\ k + 1 \in 1..n
        BY <3>1
      <4>2. g[D \ {k + 1}] \in From(x) /\ s[k + 1] \in Replies
        BY <1>0, <4>1
      <4> QED BY <3>1, <4>2, TakeType
    <3> QED BY <3>1
  <2> HIDE DEF S
  <2> QED BY <2>1
<1>3. PICK G \in [Nat -> V] : G[0] = v0 /\ \A k \in Nat : G[k + 1] = step[k][G[k]]
  <2> HIDE DEF V, v0, step, S, n
  <2>1. PICK A \in [Nat -> V] : Iterates(A, v0, step)
    BY <1>1, <1>2, Recursion
  <2> QED BY <2>1 DEF Iterates
<1>4. \A k \in Nat : \A D \in S :
         G[k + 1][D] = IF k + 1 \in D THEN TakeAnswer(G[k][D \ {k + 1}], s[k + 1]) ELSE G[k][D]
  <2> TAKE k \in Nat
  <2>1. G[k] \in V /\ G[k + 1] = step[k][G[k]]
    BY <1>3
  <2> HIDE DEF S
  <2> QED BY <2>1
<1> HIDE DEF S
<1>5. \A j, k \in Nat : \A D \in S : D \subseteq 1..j => G[j + k][D] = G[j][D]
  <2> TAKE j \in Nat
  <2> DEFINE T == {k \in Nat : \A D \in S : D \subseteq 1..j => G[j + k][D] = G[j][D]}
  <2>1. 0 \in T
    OBVIOUS
  <2>2. ASSUME NEW k \in T PROVE k + 1 \in T
    <3>1. k \in Nat /\ j + k \in Nat /\ j + (k + 1) = (j + k) + 1
      BY <2>2
    <3>2. ASSUME NEW D \in S, D \subseteq 1..j PROVE G[j + (k + 1)][D] = G[j][D]
      <4>1. (j + k) + 1 \notin D
        BY <3>1, <3>2
      <4>2. G[(j + k) + 1][D] = G[j + k][D]
        BY <1>4, <3>1, <4>1
      <4>3. G[j + k][D] = G[j][D]
        BY <2>2, <3>2
      <4> QED BY <3>1, <4>2, <4>3
    <3> QED BY <3>1, <3>2
  <2>3. T \in SUBSET Nat
    OBVIOUS
  <2>4. T = Nat
    <3> HIDE DEF T
    <3> QED BY <2>1, <2>2, <2>3, InductionOnNat
  <2> QED BY <2>4
<1> DEFINE F == [D \in S |-> G[n][D]]
<1>6. ASSUME NEW D \in S PROVE F[D] = FoldTurn(F, x, s, D)
  <2>1. CASE D = {}
    <3>1. G[0 + n][D] = G[0][D]
      BY <1>0, <1>5, <2>1
    <3>2. G[0][D] = x
      BY <1>3
    <3>3. 0 + n = n
      BY <1>0
    <3> QED BY <2>1, <3>1, <3>2, <3>3 DEF FoldTurn
  <2>2. CASE D # {}
    <3> DEFINE m == Max(D)
    <3>1. m \in D /\ \A y \in D : m >= y
      BY <1>0, <2>2, MaxOf DEF S
    <3> HIDE DEF m
    <3>2. m \in 1..n /\ m - 1 \in Nat /\ (m - 1) + 1 = m /\ n - m \in Nat /\ m + (n - m) = n
          /\ n - (m - 1) \in Nat /\ (m - 1) + (n - (m - 1)) = n /\ m \in Nat
      BY <1>0, <3>1 DEF S
    <3>3. D \subseteq 1..m /\ D \ {m} \subseteq 1..(m - 1) /\ D \ {m} \in S
      BY <3>1, <3>2 DEF S
    <3> HIDE DEF n, F
    <3>4. G[n][D] = G[m][D]
      <4>1. G[m + (n - m)][D] = G[m][D]
        BY <1>5, <3>2, <3>3
      <4> QED BY <3>2, <4>1
    <3>5. G[m][D] = TakeAnswer(G[m - 1][D \ {m}], s[m])
      <4>1. G[(m - 1) + 1][D] = TakeAnswer(G[m - 1][D \ {(m - 1) + 1}], s[(m - 1) + 1])
        <5>1. (m - 1) + 1 \in D
          BY <3>1, <3>2
        <5> QED BY <1>4, <3>2, <5>1
      <4> QED BY <3>2, <4>1
    <3>6. G[n][D \ {m}] = G[m - 1][D \ {m}]
      <4>1. G[(m - 1) + (n - (m - 1))][D \ {m}] = G[m - 1][D \ {m}]
        BY <1>5, <3>2, <3>3
      <4> QED BY <3>2, <4>1
    <3>7. F[D] = TakeAnswer(F[D \ {m}], s[m])
      BY <3>3, <3>4, <3>5, <3>6 DEF F
    <3> QED BY <2>2, <3>7 DEF FoldTurn, m
  <2> QED BY <2>1, <2>2
<1>7. F = [D \in S |-> FoldTurn(F, x, s, D)]
  BY <1>6
<1>8. S = SUBSET DOMAIN s
  BY <1>0 DEF S
<1> HIDE DEF F
<1> QED BY <1>7, <1>8, Zenon DEF FoldExists, IsFold

\* The handlers between x and the end of s, one answer after the other.
TakenSteps(A, x, s) ==
    /\ A \in [0..Len(s) -> From(x)]
    /\ A[0] = x
    /\ \A j \in 1..Len(s) : A[j] = TakeAnswer(A[j - 1], s[j])
    /\ AllTaken(x, s) = A[Len(s)]

\* The answers are taken one after the other.
LEMMA TakenInOrder ==
  ASSUME NEW x, x.k.inflight \in Int, x \in From(x), NEW s \in Seq(Replies)
  PROVE  \E A : TakenSteps(A, x, s)
<1>0. PICK g : FoldGives(x, s, g)
  BY FoldFixpoint, FoldDef
<1>1. /\ AllTaken(x, s) = g[DOMAIN s]
      /\ g = [D \in SUBSET DOMAIN s |-> FoldTurn(g, x, s, D)]
  BY <1>0 DEF FoldGives, IsFold
<1>2. Len(s) \in Nat /\ DOMAIN s = 1..Len(s) /\ \A i \in 1..Len(s) : s[i] \in Replies
  BY LenProperties, ElementOfSeq
<1> DEFINE A == [j \in 0..Len(s) |-> g[1..j]]
<1>3. \A D \in SUBSET (1..Len(s)) : g[D] = FoldTurn(g, x, s, D)
  BY <1>1, <1>2
<1>4. A[0] = x
  <2>1. 1..0 = {} /\ 0 \in 0..Len(s)
    BY <1>2
  <2>2. g[{}] = x
    BY <1>3 DEF FoldTurn
  <2> QED BY <2>1, <2>2
<1>5. ASSUME NEW j \in 1..Len(s) PROVE A[j] = TakeAnswer(A[j - 1], s[j])
  <2>1. 1..j \in SUBSET (1..Len(s)) /\ j \in 1..j /\ j \in Nat
    BY <1>2
  <2>2. Max(1..j) \in 1..j /\ \A y \in 1..j : Max(1..j) >= y
    BY <2>1, 1..j # {}, 1..j \in SUBSET (1..j), MaxOf
  <2>3. Max(1..j) = j
    BY <2>1, <2>2
  <2>4. (1..j) \ {j} = 1..(j - 1) /\ j - 1 \in 0..Len(s) /\ j \in 0..Len(s)
    BY <1>2
  <2>5. g[1..j] = TakeAnswer(g[1..(j - 1)], s[j])
    BY <1>3, <2>1, <2>3, <2>4 DEF FoldTurn
  <2> QED BY <2>4, <2>5
<1>6. A \in [0..Len(s) -> From(x)]
  <2> DEFINE T == {j \in Nat : j <= Len(s) => A[j] \in From(x)}
  <2> HIDE DEF A
  <2>1. 0 \in T
    BY <1>4
  <2>2. ASSUME NEW j \in T PROVE j + 1 \in T
    <3>1. CASE j + 1 <= Len(s)
      <4>1. j + 1 \in 1..Len(s) /\ (j + 1) - 1 = j /\ A[j] \in From(x)
        BY <1>2, <2>2, <3>1
      <4>2. A[j + 1] = TakeAnswer(A[j], s[j + 1])
        BY <1>5, <4>1
      <4>3. TakeAnswer(A[j], s[j + 1]) \in From(x)
        BY <4>1, <1>2, TakeType
      <4> QED BY <2>2, <4>2, <4>3
    <3> QED BY <3>1, <2>2
  <2>3. T \in SUBSET Nat
    OBVIOUS
  <2>4. T = Nat
    <3> HIDE DEF T
    <3> QED BY <2>1, <2>2, <2>3, InductionOnNat
  <2>5. \A j \in 0..Len(s) : A[j] \in From(x)
    BY <2>4, <1>2
  <2> QED BY <2>5 DEF A
<1>7. AllTaken(x, s) = A[Len(s)]
  BY <1>1, <1>2
<1> HIDE DEF A
<1>8. TakenSteps(A, x, s)
  BY <1>4, <1>5, <1>6, <1>7 DEF TakenSteps
<1> QED
  BY <1>8

\* What one answer changes.
LEMMA TakeOne ==
  ASSUME NEW x, NEW y \in From(x), NEW a \in Replies
  PROVE  LET r == TakeAnswer(y, a)
         IN  \/ r.t.extra = y.t.extra + 1 /\ r.t.tampered = y.t.tampered
             \/ /\ a.id \in y.k.pending /\ r.k.pending = y.k.pending \ {a.id}
                /\ r.t.extra = y.t.extra /\ r.t.received = y.t.received + 1
                /\ r.t.tampered >= y.t.tampered
                /\ Check /\ ~a.intact => r.t.tampered = y.t.tampered + 1
<1>1. CASE a.id \notin y.k.pending
  BY <1>1 DEF TakeAnswer, From
<1>2. CASE a.id \in y.k.pending
  <2> DEFINE k1 == [y.k EXCEPT !.pending = @ \ {a.id}, !.inflight = @ - 1, !.done_cnt = @ + 1]
             t1 == [y.t EXCEPT !.received = @ + 1,
                               !.tampered = IF Check /\ ~a.intact THEN @ + 1 ELSE @]
             r == TakeAnswer(y, a)
  <2>1. r.k = k1 /\ r.t = t1
    BY <1>2 DEF TakeAnswer, From
  <2>2. k1.pending = y.k.pending \ {a.id}
    BY DEF From
  <2>3. /\ t1.extra = y.t.extra /\ t1.received = y.t.received + 1
        /\ t1.tampered = IF Check /\ ~a.intact THEN y.t.tampered + 1 ELSE y.t.tampered
        /\ y.t.tampered \in Nat
    BY DEF From
  <2> HIDE DEF k1, t1, r
  <2> QED BY <1>2, <2>1, <2>2, <2>3 DEF r
<1> QED BY <1>1, <1>2

\* What taking the answers s has made of x, when nothing is extra.
TakenWell(x, s, r) ==
    /\ \A i \in 1..Len(s) : s[i].id \in x.k.pending /\ s[i].id \notin r.k.pending
    /\ \A i, j \in 1..Len(s) : s[i].id = s[j].id => i = j
    /\ r.t.received = x.t.received + Len(s)
    /\ Check /\ r.t.tampered = 0 => \A i \in 1..Len(s) : s[i].intact

\* Taking answers when none of them turns out to be extra.
LEMMA AllTakenWell ==
  ASSUME NEW x, x.k.inflight \in Int, x \in From(x), NEW s \in Seq(Replies)
  PROVE  LET r == AllTaken(x, s)
         IN  /\ r \in From(x)
             /\ r.t.extra >= x.t.extra /\ r.t.tampered >= x.t.tampered
             /\ r.t.extra = 0 => TakenWell(x, s, r)
<1>0. PICK A : TakenSteps(A, x, s)
  BY TakenInOrder
<1>1. /\ A \in [0..Len(s) -> From(x)]
      /\ A[0] = x
      /\ \A j \in 1..Len(s) : A[j] = TakeAnswer(A[j - 1], s[j])
      /\ AllTaken(x, s) = A[Len(s)]
  BY <1>0 DEF TakenSteps
<1>2. Len(s) \in Nat /\ \A i \in 1..Len(s) : s[i] \in Replies
  BY LenProperties, ElementOfSeq
<1>3. x.t.received \in Nat /\ x.t.extra \in Nat /\ x.t.tampered \in Nat
  BY DEF From
<1> DEFINE Good(j) ==
       /\ A[j].t.extra >= x.t.extra /\ A[j].t.tampered >= x.t.tampered
       /\ A[j].k.pending \subseteq x.k.pending
       /\ A[j].t.extra = 0 =>
             /\ \A i \in 1..j : s[i].id \in x.k.pending /\ s[i].id \notin A[j].k.pending
             /\ \A i, l \in 1..j : s[i].id = s[l].id => i = l
             /\ A[j].t.received = x.t.received + j
             /\ Check /\ A[j].t.tampered = 0 => \A i \in 1..j : s[i].intact
           T == {j \in Nat : j <= Len(s) => Good(j)}
<1>4. 0 \in T
  BY <1>1, <1>3, 1..0 = {}
<1>5. ASSUME NEW j \in T PROVE j + 1 \in T
  <2> SUFFICES ASSUME j + 1 <= Len(s) PROVE Good(j + 1)
    BY <1>5
  <2>1. j \in Nat /\ j + 1 \in 1..Len(s) /\ j \in 0..Len(s) /\ (j + 1) - 1 = j /\ Good(j)
    BY <1>2, <1>5
  <2> DEFINE y == A[j]
             a == s[j + 1]
             r == TakeAnswer(y, a)
  <2>2. A[j + 1] = r /\ y \in From(x) /\ a \in Replies
    BY <1>1, <1>2, <2>1
  <2>3. \/ r.t.extra = y.t.extra + 1 /\ r.t.tampered = y.t.tampered
        \/ /\ a.id \in y.k.pending /\ r.k.pending = y.k.pending \ {a.id}
           /\ r.t.extra = y.t.extra /\ r.t.received = y.t.received + 1
           /\ r.t.tampered >= y.t.tampered
           /\ Check /\ ~a.intact => r.t.tampered = y.t.tampered + 1
    BY <2>2, TakeOne
  <2>4. r \in From(x)
    BY <2>2, TakeType
  <2>5. /\ r.t.extra \in Nat /\ r.t.tampered \in Nat /\ r.k.pending \subseteq x.k.pending
        /\ y.t.extra \in Nat /\ y.t.tampered \in Nat /\ y.t.received \in Nat
    BY <2>2, <2>4 DEF From
  <2>6. \A i \in 1..(j + 1) : i \in 1..j \/ i = j + 1
    BY <2>1
  <2>7. /\ y.t.extra >= x.t.extra /\ y.t.tampered >= x.t.tampered
        /\ y.k.pending \subseteq x.k.pending
        /\ y.t.extra = 0 =>
             /\ \A i \in 1..j : s[i].id \in x.k.pending /\ s[i].id \notin y.k.pending
             /\ \A i, l \in 1..j : s[i].id = s[l].id => i = l
             /\ y.t.received = x.t.received + j
             /\ Check /\ y.t.tampered = 0 => \A i \in 1..j : s[i].intact
    BY <2>1
  <2> HIDE DEF y, r
  <2>8. /\ r.t.extra >= x.t.extra /\ r.t.tampered >= x.t.tampered
    <3>1. \A l, m, n \in Nat : m >= n /\ (l >= m \/ l = m + 1) => l >= n
      OBVIOUS
    <3>2. r.t.extra = y.t.extra + 1 \/ r.t.extra >= y.t.extra
      BY <2>3, <2>5
    <3>3. r.t.tampered >= y.t.tampered
      BY <2>3, <2>5
    <3> QED BY <1>3, <2>5, <2>7, <3>1, <3>2, <3>3, Zenon
  <2>9. ASSUME r.t.extra = 0
        PROVE  /\ \A i \in 1..(j + 1) : s[i].id \in x.k.pending /\ s[i].id \notin r.k.pending
               /\ \A i, l \in 1..(j + 1) : s[i].id = s[l].id => i = l
               /\ r.t.received = x.t.received + (j + 1)
               /\ Check /\ r.t.tampered = 0 => \A i \in 1..(j + 1) : s[i].intact
    <3>1. /\ a.id \in y.k.pending /\ r.k.pending = y.k.pending \ {a.id}
          /\ y.t.extra = 0 /\ r.t.received = y.t.received + 1
          /\ r.t.tampered >= y.t.tampered
          /\ Check /\ ~a.intact => r.t.tampered = y.t.tampered + 1
      BY <2>3, <2>5, <2>9
    <3>2. /\ \A i \in 1..j : s[i].id \in x.k.pending /\ s[i].id \notin y.k.pending
          /\ \A i, l \in 1..j : s[i].id = s[l].id => i = l
          /\ y.t.received = x.t.received + j
          /\ Check /\ y.t.tampered = 0 => \A i \in 1..j : s[i].intact
      BY <2>7, <3>1
    <3>3. \A i \in 1..(j + 1) : s[i].id \in x.k.pending /\ s[i].id \notin r.k.pending
      BY <2>6, <2>7, <3>1, <3>2
    <3>4. \A i, l \in 1..(j + 1) : s[i].id = s[l].id => i = l
      BY <2>6, <3>1, <3>2
    <3>5. r.t.received = x.t.received + (j + 1)
      <4>1. \A l, m \in Nat : (l + m) + 1 = l + (m + 1)
        OBVIOUS
      <4>2. r.t.received = (x.t.received + j) + 1
        BY <3>1, <3>2, Zenon
      <4> QED BY <1>3, <2>1, <4>1, <4>2, Zenon
    <3>6. Check /\ r.t.tampered = 0 => y.t.tampered = 0 /\ a.intact
      BY <2>5, <3>1
    <3>7. Check /\ r.t.tampered = 0 => \A i \in 1..(j + 1) : s[i].intact
      BY <2>6, <3>2, <3>6
    <3> QED BY <3>3, <3>4, <3>5, <3>7
  <2> QED BY <2>2, <2>5, <2>8, <2>9
<1>6. T \in SUBSET Nat
  OBVIOUS
<1>7. T = Nat
  <2> HIDE DEF T
  <2> QED BY <1>4, <1>5, <1>6, InductionOnNat
<1>8. Good(Len(s))
  BY <1>2, <1>7
<1>9. A[Len(s)] \in From(x)
  BY <1>1, <1>2
<1> QED
  BY <1>1, <1>8, <1>9 DEF TakenWell

-----------------------------------------------------------------------------
(* The bench client: a connection.                                         *)

\* The cells of requests, with any number.
Pieces == [id : Nat, last : BOOLEAN]

\* The connections by type.
Konns == [st : {"connecting", "open", "gone"}, ev : SUBSET {"in", "out"},
          next_id : 0..PerConn, done_cnt : Nat,
          inflight : {i \in Int : i <= Depth}, pending : SUBSET Ids,
          outbuf : Seq(Pieces), up : Seq(Pieces), down : Seq(Replies),
          peer : {"up", "fin", "reset"}]

\* A connection as it can be.
WellKept(k) == /\ k \in Konns
               /\ Len(k.up) <= Room
               /\ \A id \in k.pending : id < k.next_id

\* What the steps of a connection leave of its requests.
GoesOn(k, l) == /\ l.st = k.st
                /\ l.next_id >= k.next_id
                /\ \A id \in l.pending : id < k.next_id => id \in k.pending

\* What goes on goes on.
LEMMA GoesOnFurther ==
  ASSUME NEW k \in Konns, NEW l \in Konns, NEW m \in Konns, GoesOn(k, l), GoesOn(l, m)
  PROVE  GoesOn(k, m)
<1>1. k.next_id \in Nat /\ l.next_id \in Nat /\ m.next_id \in Nat /\ m.pending \subseteq Nat
  BY ArgsAssumption DEF Konns, Ids
<1>2. \A i, a, b, c \in Nat : a <= b /\ b <= c => a <= c /\ (i < a => i < b)
  OBVIOUS
<1> QED
  BY <1>1, <1>2 DEF GoesOn

\* The lesser of two numbers.
LEMMA MinTwo ==
  ASSUME NEW a \in Int, NEW b \in Int
  PROVE  Min({a, b}) \in {a, b} /\ Min({a, b}) <= a /\ Min({a, b}) <= b
<1>1. \E x \in {a, b} : \A y \in {a, b} : x <= y
  BY a <= b \/ b <= a
<1>2. Min({a, b}) \in {a, b} /\ \A y \in {a, b} : Min({a, b}) <= y
  BY <1>1, Zenon DEF Min
<1> QED
  BY <1>2

\* set_events changes no request.
LEMMA SetEventsKept ==
  ASSUME NEW k, WellKept(k)
  PROVE  WellKept(SetEvents(k)) /\ GoesOn(k, SetEvents(k)) /\ SetEvents(k).pending = k.pending
<1> DEFINE e == IF k.outbuf = <<>> THEN {"in"} ELSE {"in", "out"}
<1>1. SetEvents(k) = [k EXCEPT !.ev = e] /\ e \in SUBSET {"in", "out"}
  BY DEF SetEvents
<1>2. k \in Konns /\ k.next_id \in Int
  BY ArgsAssumption DEF WellKept, Konns
<1> HIDE DEF e
<1>3. [k EXCEPT !.ev = e] \in Konns
  BY <1>1, <1>2 DEF Konns
<1>4. /\ [k EXCEPT !.ev = e].up = k.up /\ [k EXCEPT !.ev = e].pending = k.pending
      /\ [k EXCEPT !.ev = e].next_id = k.next_id /\ [k EXCEPT !.ev = e].st = k.st
  BY <1>2 DEF Konns
<1> QED
  BY <1>1, <1>2, <1>3, <1>4 DEF WellKept, GoesOn

\* flush_out moves cells into the socket and forgets no request.
LEMMA FlushOutKept ==
  ASSUME NEW k, WellKept(k)
  PROVE  WellKept(FlushOut(k)) /\ GoesOn(k, FlushOut(k)) /\ FlushOut(k).pending = k.pending
<1> DEFINE n == Min({Room - Len(k.up), Len(k.outbuf)})
           a == SubSeq(k.outbuf, 1, n)
           b == SubSeq(k.outbuf, n + 1, Len(k.outbuf))
           k1 == [k EXCEPT !.up = k.up \o a]
           k2 == [k1 EXCEPT !.outbuf = b]
<1>1. /\ k \in Konns /\ k.next_id \in Int /\ k.up \in Seq(Pieces) /\ k.outbuf \in Seq(Pieces)
      /\ Len(k.up) \in Nat /\ Len(k.outbuf) \in Nat /\ Len(k.up) <= Room /\ Room \in Nat
  BY ArgsAssumption, LenProperties DEF WellKept, Konns
<1>2. n \in 0..Len(k.outbuf) /\ n <= Room - Len(k.up)
  <2> DEFINE u == Room - Len(k.up)
             v == Len(k.outbuf)
  <2>1. u \in Int /\ v \in Int /\ u >= 0 /\ v >= 0
    BY <1>1
  <2>2. n = Min({u, v})
    OBVIOUS
  <2> HIDE DEF u, v, n
  <2>3. n \in {u, v} /\ n <= u /\ n <= v
    BY <2>1, <2>2, MinTwo
  <2> QED BY <2>1, <2>3 DEF u, v
<1> HIDE DEF n
<1>3. a \in Seq(Pieces) /\ Len(a) = n
  <2>1. \A i \in 1..n : k.outbuf[i] \in Pieces
    BY <1>1, <1>2, ElementOfSeq
  <2> QED BY <1>2, <2>1, SubSeqProperties
<1>4. b \in Seq(Pieces)
  <2>1. \A i \in (n + 1)..Len(k.outbuf) : k.outbuf[i] \in Pieces
    BY <1>1, <1>2, ElementOfSeq
  <2>2. n + 1 \in Int
    BY <1>2
  <2> QED BY <1>1, <2>1, <2>2, SubSeqProperties
<1>5. k.up \o a \in Seq(Pieces) /\ Len(k.up \o a) <= Room
  <2>1. k.up \o a \in Seq(Pieces) /\ Len(k.up \o a) = Len(k.up) + Len(a)
    BY <1>1, <1>3, ConcatProperties
  <2> HIDE DEF a
  <2> QED BY <1>1, <1>2, <1>3, <2>1
<1>6. FlushOut(k) = k2
  BY Zenon DEF FlushOut, n
<1> HIDE DEF a, b
<1>7. k1 \in Konns /\ k1.up = k.up \o a /\ k1.pending = k.pending /\ k1.next_id = k.next_id /\ k1.st = k.st
  BY <1>1, <1>5 DEF Konns
<1> HIDE DEF k1
<1>8. k2 \in Konns /\ k2.up = k1.up /\ k2.pending = k1.pending /\ k2.next_id = k1.next_id /\ k2.st = k1.st
  BY <1>7, <1>4 DEF Konns
<1> HIDE DEF k2
<1> QED
  BY <1>1, <1>5, <1>6, <1>7, <1>8 DEF WellKept, GoesOn

\* n new requests, as cells.
LEMMA EncodeType ==
  ASSUME NEW id \in Nat, NEW n \in Nat
  PROVE  Encode(id, n) \in Seq(Pieces)
<1>1. \A i \in 1..(2 * n) : [id |-> id + (i - 1) \div 2, last |-> i % 2 = 0] \in Pieces
  <2> TAKE i \in 1..(2 * n)
  <2>1. i - 1 \in Nat /\ (i - 1) \div 2 \in Nat
    OBVIOUS
  <2>2. id + (i - 1) \div 2 \in Nat /\ (i % 2 = 0) \in BOOLEAN
    BY <2>1
  <2> QED BY <2>2 DEF Pieces
<1>2. 2 * n \in Nat
  OBVIOUS
<1> QED
  BY <1>1, <1>2, SeqDef DEF Encode

\* New requests have new numbers.
LEMMA FillKept ==
  ASSUME NEW k, WellKept(k)
  PROVE  WellKept(Fill(k)) /\ GoesOn(k, Fill(k))
<1> DEFINE n == Min({PerConn - k.next_id, Depth - k.inflight})
           ids == k.next_id..(k.next_id + n - 1)
           k1 == [k EXCEPT !.next_id = k.next_id + n]
           k2 == [k1 EXCEPT !.inflight = k.inflight + n]
           k3 == [k2 EXCEPT !.pending = k.pending \cup ids]
           k4 == [k3 EXCEPT !.outbuf = k.outbuf \o Encode(k.next_id, n)]
<1>1. /\ k \in Konns /\ k.next_id \in 0..PerConn /\ k.outbuf \in Seq(Pieces)
      /\ k.inflight \in Int /\ k.inflight <= Depth /\ PerConn \in Nat /\ Depth \in Nat
      /\ k.pending \subseteq Ids /\ \A id \in k.pending : id < k.next_id
      /\ Len(k.up) <= Room
  BY ArgsAssumption DEF WellKept, Konns
<1>2. n \in Nat /\ n <= PerConn - k.next_id /\ n <= Depth - k.inflight
  <2> DEFINE u == PerConn - k.next_id
             v == Depth - k.inflight
  <2>1. u \in Int /\ v \in Int /\ u >= 0 /\ v >= 0
    BY <1>1
  <2>2. n = Min({u, v})
    OBVIOUS
  <2> HIDE DEF u, v, n
  <2>3. n \in {u, v} /\ n <= u /\ n <= v
    BY <2>1, <2>2, MinTwo
  <2> QED BY <2>1, <2>3 DEF u, v
<1> HIDE DEF n
<1>3. k.next_id + n \in 0..PerConn /\ k.inflight + n \in {i \in Int : i <= Depth}
  BY <1>1, <1>2, SMTT(30)
<1>4. k.pending \cup ids \in SUBSET Ids
  BY <1>1, <1>2 DEF Ids
<1>5. k.outbuf \o Encode(k.next_id, n) \in Seq(Pieces)
  <2>1. k.next_id \in Nat
    BY <1>1
  <2>2. Encode(k.next_id, n) \in Seq(Pieces)
    BY <1>2, <2>1, EncodeType
  <2> QED BY <1>1, <2>2, ConcatProperties
<1>6. Fill(k) = k4
  BY Zenon DEF Fill, n
<1>7. \A id \in k.pending \cup ids : id < k.next_id + n /\ (id < k.next_id => id \in k.pending)
  BY <1>1, <1>2 DEF Ids
<1> HIDE DEF ids
<1>8. k1 \in Konns /\ k1.up = k.up /\ k1.next_id = k.next_id + n /\ k1.st = k.st
  BY <1>1, <1>3 DEF Konns
<1> HIDE DEF k1
<1>9. k2 \in Konns /\ k2.up = k1.up /\ k2.next_id = k1.next_id /\ k2.st = k1.st
  BY <1>8, <1>3 DEF Konns
<1> HIDE DEF k2
<1>10. k3 \in Konns /\ k3.up = k2.up /\ k3.next_id = k2.next_id /\ k3.st = k2.st
       /\ k3.pending = k.pending \cup ids
  BY <1>9, <1>4 DEF Konns
<1> HIDE DEF k3
<1>11. k4 \in Konns /\ k4.up = k3.up /\ k4.next_id = k3.next_id /\ k4.st = k3.st
       /\ k4.pending = k3.pending
  BY <1>10, <1>5 DEF Konns
<1> HIDE DEF k4
<1>12. k.next_id + n >= k.next_id
  BY <1>1, <1>2
<1> QED
  BY <1>1, <1>6, <1>7, <1>8, <1>9, <1>10, <1>11, <1>12 DEF WellKept, GoesOn

\* pump_send fills and flushes.
LEMMA PumpSendKept ==
  ASSUME NEW k, WellKept(k)
  PROVE  WellKept(PumpSend(k)) /\ GoesOn(k, PumpSend(k))
<1>1. WellKept(Fill(k)) /\ GoesOn(k, Fill(k))
  BY FillKept
<1>2. WellKept(FlushOut(Fill(k))) /\ GoesOn(Fill(k), FlushOut(Fill(k)))
  BY <1>1, FlushOutKept
<1>3. WellKept(PumpSend(k)) /\ GoesOn(FlushOut(Fill(k)), PumpSend(k))
  BY <1>2, SetEventsKept DEF PumpSend
<1>4. GoesOn(k, FlushOut(Fill(k)))
  BY <1>1, <1>2, GoesOnFurther DEF WellKept
<1> QED
  BY <1>2, <1>3, <1>4, GoesOnFurther DEF WellKept

-----------------------------------------------------------------------------
(* The bench client: a turn of the loop over the events.                   *)

\* The totals by type.
Totals == [received : Nat, extra : Nat, errors : Nat, tampered : Nat]

\* The handlers by type.
Handlers == [k : Konns, t : Totals, took : Seq(Replies), fail : BOOLEAN]

\* What a handler has made of the connection k and the totals t so far.
Handled(k, t, x) ==
    /\ x \in Handlers /\ WellKept(x.k) /\ GoesOn(k, x.k)
    /\ x.t.extra >= t.extra /\ x.t.tampered >= t.tampered
    /\ x.t.extra = 0 =>
          /\ \A i \in 1..Len(x.took) : x.took[i].id \in k.pending /\ x.took[i].id \notin x.k.pending
          /\ \A i, j \in 1..Len(x.took) : x.took[i].id = x.took[j].id => i = j
          /\ x.t.received = t.received + Len(x.took)
          /\ Check /\ x.t.tampered = 0 => \A i \in 1..Len(x.took) : x.took[i].intact

\* EPOLLOUT takes no answer.
LEMMA AfterOutHandled ==
  ASSUME NEW k, NEW e, WellKept(k), total \in Totals
  PROVE  LET x == AfterOut(k, e)
         IN  Handled(k, total, x) /\ x.took = <<>> /\ x.t = total /\ x.k.pending = k.pending
<1> DEFINE fail == "hup" \in e \/ ("out" \in e /\ SendFails(k))
           l == IF "out" \in e /\ ~fail THEN SetEvents(FlushOut(k)) ELSE k
           x == AfterOut(k, e)
<1>1. x = [k |-> l, t |-> total, took |-> <<>>, fail |-> fail]
  BY Zenon DEF AfterOut
<1>2. fail \in BOOLEAN
  BY DEF SendFails
<1>3. WellKept(l) /\ GoesOn(k, l) /\ l.pending = k.pending
  <2>1. WellKept(FlushOut(k)) /\ GoesOn(k, FlushOut(k)) /\ FlushOut(k).pending = k.pending
    BY FlushOutKept
  <2>2. /\ WellKept(SetEvents(FlushOut(k))) /\ GoesOn(FlushOut(k), SetEvents(FlushOut(k)))
        /\ SetEvents(FlushOut(k)).pending = k.pending
    BY <2>1, SetEventsKept
  <2>3. GoesOn(k, SetEvents(FlushOut(k)))
    BY <2>1, <2>2, GoesOnFurther DEF WellKept
  <2>4. GoesOn(k, k)
    BY ArgsAssumption DEF GoesOn, WellKept, Konns
  <2> QED BY <2>1, <2>2, <2>3, <2>4
<1> HIDE DEF l, fail, x
<1>4. x.k = l /\ x.t = total /\ x.took = <<>> /\ x.fail = fail
  BY <1>1
<1>5. x \in Handlers
  <2>1. l \in Konns /\ <<>> \in Seq(Replies)
    BY <1>3, EmptySeq DEF WellKept
  <2> QED BY <1>1, <1>2, <2>1 DEF Handlers
<1>6. Len(<<>>) = 0 /\ 1..0 = {} /\ total.received + 0 = total.received
      /\ total.extra >= total.extra /\ total.tampered >= total.tampered
  BY EmptySeq DEF Totals
<1> QED
  BY <1>3, <1>4, <1>5, <1>6 DEF Handled, x

\* A handler is one that has taken nothing more.
LEMMA FromSelf ==
  ASSUME NEW x \in Handlers
  PROVE  x.k.inflight \in Int /\ x \in From(x)
<1>1. x.k \in Konns /\ x.t \in Totals /\ x.took \in Seq(Replies) /\ x.fail \in BOOLEAN
  BY DEF Handlers
<1>2. x.k.inflight \in Int /\ x.k.done_cnt \in Nat /\ x.k.inflight \in {i \in Int : i <= x.k.inflight}
  BY <1>1 DEF Konns
<1>3. x.k \in [st : {x.k.st}, ev : {x.k.ev}, next_id : {x.k.next_id}, done_cnt : Nat,
          inflight : {i \in Int : i <= x.k.inflight}, pending : SUBSET x.k.pending,
          outbuf : {x.k.outbuf}, up : {x.k.up}, down : {x.k.down}, peer : {x.k.peer}]
  BY <1>1, <1>2 DEF Konns
<1>4. x.t \in [received : Nat, extra : Nat, errors : {x.t.errors}, tampered : Nat]
  BY <1>1 DEF Totals
<1> QED
  BY <1>2, <1>3, <1>4 DEF From, Handlers

\* What comes of a handler is one.
LEMMA FromHandlers ==
  ASSUME NEW x \in Handlers, NEW r \in From(x)
  PROVE  /\ r.k \in Konns /\ r.t \in Totals /\ r.k.st = x.k.st /\ r.k.next_id = x.k.next_id
         /\ r.k.up = x.k.up /\ r.k.pending \subseteq x.k.pending
         /\ r.took \in Seq(Replies) /\ r.fail \in BOOLEAN
<1>1. x.k \in Konns /\ x.t \in Totals /\ x.took \in Seq(Replies) /\ x.fail \in BOOLEAN
  BY DEF Handlers
<1>2. /\ r.k \in [st : {x.k.st}, ev : {x.k.ev}, next_id : {x.k.next_id}, done_cnt : Nat,
          inflight : {i \in Int : i <= x.k.inflight}, pending : SUBSET x.k.pending,
          outbuf : {x.k.outbuf}, up : {x.k.up}, down : {x.k.down}, peer : {x.k.peer}]
      /\ r.t \in [received : Nat, extra : Nat, errors : {x.t.errors}, tampered : Nat]
      /\ r.took = x.took /\ r.fail = x.fail
  BY DEF From
<1>3. {i \in Int : i <= x.k.inflight} \subseteq {i \in Int : i <= Depth}
  <2>1. x.k.inflight \in Int /\ x.k.inflight <= Depth /\ Depth \in Int
    BY <1>1, ArgsAssumption DEF Konns
  <2> QED BY <2>1
<1>4. x.k.pending \subseteq Ids
  BY <1>1 DEF Konns
<1>5. r.k \in Konns
  <2>1. /\ r.k.inflight \in {i \in Int : i <= Depth} /\ r.k.pending \in SUBSET Ids
    BY <1>2, <1>3, <1>4
  <2>2. /\ r.k.st = x.k.st /\ r.k.ev = x.k.ev /\ r.k.next_id = x.k.next_id /\ r.k.done_cnt \in Nat
        /\ r.k.outbuf = x.k.outbuf /\ r.k.up = x.k.up /\ r.k.down = x.k.down /\ r.k.peer = x.k.peer
    BY <1>2
  <2>3. r.k = [st |-> r.k.st, ev |-> r.k.ev, next_id |-> r.k.next_id, done_cnt |-> r.k.done_cnt,
               inflight |-> r.k.inflight, pending |-> r.k.pending, outbuf |-> r.k.outbuf,
               up |-> r.k.up, down |-> r.k.down, peer |-> r.k.peer]
    BY <1>2
  <2>4. /\ x.k.st \in {"connecting", "open", "gone"} /\ x.k.ev \in SUBSET {"in", "out"}
        /\ x.k.next_id \in 0..PerConn /\ x.k.outbuf \in Seq(Pieces) /\ x.k.up \in Seq(Pieces)
        /\ x.k.down \in Seq(Replies) /\ x.k.peer \in {"up", "fin", "reset"}
    BY <1>1 DEF Konns
  <2> QED BY <2>1, <2>2, <2>3, <2>4 DEF Konns
<1>6. r.t \in Totals
  BY <1>1, <1>2 DEF Totals
<1> QED
  BY <1>1, <1>2, <1>5, <1>6

\* The answers read are counted, each to its request.
LEMMA ReceivedHandled ==
  ASSUME NEW k, total \in Totals, NEW x, WellKept(k), Handled(k, total, x),
         x.took = <<>>, x.t = total, x.k.pending = k.pending,
         NEW n \in 0..Len(x.k.down), NEW z \in Received(x, n)
  PROVE  Handled(k, total, z)
<1> DEFINE x1 == [x EXCEPT !.k.down = SubSeq(@, n + 1, Len(@))]
           s == SubSeq(x.k.down, 1, n)
           r == AllTaken(x1, s)
<1>1. x \in Handlers /\ WellKept(x.k) /\ GoesOn(k, x.k) /\ x.k \in Konns /\ x.t \in Totals
  BY DEF Handled, Handlers
<1>2. x.k.down \in Seq(Replies) /\ Len(x.k.down) \in Nat
  BY <1>1, LenProperties DEF Konns
<1>3. s \in Seq(Replies) /\ SubSeq(x.k.down, n + 1, Len(x.k.down)) \in Seq(Replies)
  <2>1. /\ \A i \in 1..n : x.k.down[i] \in Replies
        /\ \A i \in (n + 1)..Len(x.k.down) : x.k.down[i] \in Replies
    BY <1>2, ElementOfSeq
  <2>2. n + 1 \in Int /\ n \in Int /\ 1 \in Int /\ Len(x.k.down) \in Int
    BY <1>2
  <2> QED BY <2>1, <2>2, SubSeqProperties
<1> HIDE DEF s
<1>4. /\ x1 \in Handlers /\ x1.t = x.t /\ x1.took = x.took /\ x1.fail = x.fail /\ x1.k \in Konns
      /\ x1.k.pending = x.k.pending /\ x1.k.next_id = x.k.next_id /\ x1.k.st = x.k.st
      /\ x1.k.up = x.k.up
  BY <1>1, <1>3 DEF Handlers, Konns
<1> HIDE DEF x1
<1>5. x1.k.inflight \in Int /\ x1 \in From(x1)
  BY <1>4, FromSelf
<1>6. /\ r \in From(x1)
      /\ r.t.extra >= x1.t.extra /\ r.t.tampered >= x1.t.tampered
      /\ r.t.extra = 0 => TakenWell(x1, s, r)
  BY <1>3, <1>5, AllTakenWell
<1>7. PICK f \in BOOLEAN : z = [[r EXCEPT !.took = s] EXCEPT !.fail = f]
  <2>1. Took(x, n) = [r EXCEPT !.took = s]
    BY Zenon DEF Took, AllTaken, x1, s
  <2> HIDE DEF r
  <2>2. \E f \in BOOLEAN : z = [Took(x, n) EXCEPT !.fail = f]
    BY Zenon DEF Received
  <2> QED BY <2>1, <2>2, Zenon
<1> HIDE DEF r
<1>8. /\ r.k \in Konns /\ r.t \in Totals /\ r.k.st = x1.k.st /\ r.k.next_id = x1.k.next_id
      /\ r.k.up = x1.k.up /\ r.k.pending \subseteq x1.k.pending
      /\ r.took \in Seq(Replies) /\ r.fail \in BOOLEAN
  BY <1>4, <1>6, FromHandlers
<1>9. z \in Handlers /\ z.k = r.k /\ z.t = r.t /\ z.took = s
  <2>1. DOMAIN r = {"k", "t", "took", "fail"} /\ r = [k |-> r.k, t |-> r.t, took |-> r.took, fail |-> r.fail]
    BY <1>6 DEF From
  <2>2. r \in Handlers
    BY <1>8, <2>1 DEF Handlers
  <2> QED BY <1>3, <1>7, <2>2 DEF Handlers
<1>10. WellKept(r.k)
  BY <1>1, <1>4, <1>8 DEF WellKept
<1>11. GoesOn(k, r.k)
  <2>1. GoesOn(x.k, r.k)
    <3>1. \A i \in Nat : i >= i
      OBVIOUS
    <3>2. x.k.next_id \in Nat
      BY <1>1, ArgsAssumption DEF Konns
    <3> QED BY <1>4, <1>8, <3>1, <3>2 DEF GoesOn
  <2>2. k \in Konns
    BY DEF WellKept
  <2> QED BY <1>1, <1>8, <2>1, <2>2, GoesOnFurther
<1>12. ASSUME r.t.extra = 0
       PROVE  /\ \A i \in 1..Len(s) : s[i].id \in k.pending /\ s[i].id \notin r.k.pending
              /\ \A i, j \in 1..Len(s) : s[i].id = s[j].id => i = j
              /\ r.t.received = total.received + Len(s)
              /\ Check /\ r.t.tampered = 0 => \A i \in 1..Len(s) : s[i].intact
  <2>1. TakenWell(x1, s, r)
    BY <1>6, <1>12
  <2> QED BY <1>4, <2>1 DEF TakenWell
<1>13. r.t.extra >= total.extra /\ r.t.tampered >= total.tampered
  BY <1>4, <1>6
<1> HIDE DEF s
<1> QED
  BY <1>9, <1>10, <1>11, <1>12, <1>13 DEF Handled

\* New requests after the answers.
LEMMA AfterPumpHandled ==
  ASSUME NEW k, total \in Totals, NEW x, WellKept(k), Handled(k, total, x)
  PROVE  Handled(k, total, AfterPump(x))
<1>1. CASE x.fail \/ x.k.done_cnt >= PerConn
  BY <1>1 DEF AfterPump
<1>2. CASE ~(x.fail \/ x.k.done_cnt >= PerConn) /\ SendFails(Fill(x.k))
  <2>1. AfterPump(x) = [x EXCEPT !.fail = TRUE]
    BY <1>2 DEF AfterPump
  <2>2. x \in Handlers
    BY DEF Handled
  <2> DEFINE z == [x EXCEPT !.fail = TRUE]
  <2>3. z \in Handlers /\ z.k = x.k /\ z.t = x.t /\ z.took = x.took
    BY <2>2 DEF Handlers
  <2> HIDE DEF z
  <2>4. Handled(k, total, z)
    BY <2>3 DEF Handled
  <2> QED BY <2>1, <2>4 DEF z
<1>3. CASE ~(x.fail \/ x.k.done_cnt >= PerConn) /\ ~SendFails(Fill(x.k))
  <2> DEFINE l == PumpSend(x.k)
             z == [x EXCEPT !.k = l]
  <2>1. AfterPump(x) = z
    BY <1>3, Zenon DEF AfterPump
  <2>2. x \in Handlers /\ WellKept(x.k) /\ GoesOn(k, x.k) /\ k \in Konns /\ x.k \in Konns
    BY DEF Handled, WellKept
  <2>3. WellKept(l) /\ GoesOn(x.k, l) /\ l \in Konns
    BY <2>2, PumpSendKept DEF WellKept
  <2> HIDE DEF l
  <2>4. GoesOn(k, l)
    BY <2>2, <2>3, GoesOnFurther
  <2>5. z \in Handlers /\ z.k = l /\ z.t = x.t /\ z.took = x.took
    BY <2>2, <2>3 DEF Handlers
  <2> HIDE DEF z
  <2>6. ASSUME x.t.extra = 0, NEW i \in 1..Len(x.took) PROVE x.took[i].id \notin l.pending
    <3>1. x.took[i].id \in k.pending /\ x.took[i].id \notin x.k.pending
      BY <2>6 DEF Handled
    <3>2. x.took[i].id < x.k.next_id
      <4>1. x.took[i].id < k.next_id /\ x.took[i].id \in Nat
        BY <3>1, ArgsAssumption, SMTT(30) DEF WellKept, Konns, Ids
      <4>2. k.next_id <= x.k.next_id /\ k.next_id \in Nat /\ x.k.next_id \in Nat
        BY <2>2, ArgsAssumption DEF GoesOn, Konns
      <4> QED BY <4>1, <4>2
    <3> QED BY <2>3, <3>1, <3>2 DEF GoesOn
  <2>7. Handled(k, total, z)
    BY <2>3, <2>4, <2>5, <2>6 DEF Handled
  <2> QED BY <2>1, <2>7
<1> QED BY <1>1, <1>2, <1>3

-----------------------------------------------------------------------------
(* The bench client: the invariant.                                        *)

\* The variables by type, as far as the proof needs it.
BenchTypes ==
    /\ conn \in [Conns -> Konns] /\ \A c \in Conns : WellKept(conn[c])
    /\ total \in Totals
    /\ held \in [Conns -> SUBSET Nat]
    /\ got \in [Conns -> Seq(Replies)]

\* Who is to be handled is open, and is handled once.
BatchOpen ==
    pc \in {"pump", "handle"} =>
        /\ \A b \in batch : b.c \in Conns /\ conn[b.c].st = "open"
        /\ \A a, b \in batch : a.c = b.c => a = b

\* The requests that have been answered.
Answered(g) == {p \in Conns \X Ids : \E i \in 1..Len(g[p[1]]) : g[p[1]][i].id = p[2]}

\* As long as nothing was extra every answer was that of another request, which is
\* not under way any more and will not be sent again.
AnswersCounted ==
    total.extra = 0 =>
        /\ \A c \in Conns : \A i \in 1..Len(got[c]) : got[c][i].id \in Ids
        /\ \A c \in Conns : \A i, j \in 1..Len(got[c]) : got[c][i].id = got[c][j].id => i = j
        /\ \A c \in Conns : conn[c].st # "gone" =>
              \A i \in 1..Len(got[c]) : /\ got[c][i].id < conn[c].next_id
                                        /\ got[c][i].id \notin conn[c].pending
        /\ total.received = Cardinality(Answered(got))
        /\ Check /\ total.tampered = 0 =>
              \A c \in Conns : \A i \in 1..Len(got[c]) : got[c][i].intact

\* The verdict is the last thing, and it looks at the sums.
VerdictLast ==
    /\ verdict # "none" => pc = "end"
    /\ verdict = "PASS" => /\ total.received = Expected
                           /\ total.extra = 0 /\ total.tampered = 0

\* The invariant.
BenchInv == BenchTypes /\ BatchOpen /\ AnswersCounted /\ VerdictLast

\* A connection that is kept keeps what it knows of its requests.
Follows(k, l) ==
    \/ l.st = "gone"
    \/ /\ k.st # "gone" /\ l.next_id >= k.next_id
       /\ \A id \in l.pending : id < k.next_id => id \in k.pending

\* A connection that changes and takes no answer disturbs no count.
LEMMA ConnChanged ==
  ASSUME BenchTypes, AnswersCounted, NEW c \in Conns, NEW l, WellKept(l), Follows(conn[c], l),
         conn' = [conn EXCEPT ![c] = l], total' = total, got' = got,
         held' \in [Conns -> SUBSET Nat]
  PROVE  BenchTypes' /\ AnswersCounted'
<1>1. /\ conn \in [Conns -> Konns] /\ \A d \in Conns : WellKept(conn[d])
      /\ total \in Totals /\ got \in [Conns -> Seq(Replies)] /\ l \in Konns
  BY DEF BenchTypes, WellKept
<1>2. /\ conn' \in [Conns -> Konns] /\ conn'[c] = l
      /\ \A d \in Conns : d # c => conn'[d] = conn[d]
  BY <1>1
<1>3. \A d \in Conns : WellKept(conn'[d])
  BY <1>1, <1>2
<1>4. BenchTypes'
  <2>1. total' \in Totals /\ got' \in [Conns -> Seq(Replies)]
    BY <1>1
  <2>2. \A d \in Conns : WellKept(conn[d])'
    BY <1>3 DEF WellKept
  <2> QED BY <1>2, <2>1, <2>2 DEF BenchTypes
<1>5. ASSUME total.extra = 0, NEW d \in Conns, conn'[d].st # "gone", NEW i \in 1..Len(got[d])
      PROVE  got[d][i].id < conn'[d].next_id /\ got[d][i].id \notin conn'[d].pending
  <2>1. conn[d].st # "gone"
    BY <1>2, <1>5 DEF Follows
  <2>2. got[d][i].id < conn[d].next_id /\ got[d][i].id \notin conn[d].pending
    BY <1>5, <2>1 DEF AnswersCounted
  <2>3. CASE d # c
    BY <1>2, <2>2, <2>3
  <2>4. CASE d = c
    <3>1. l.next_id >= conn[c].next_id /\ \A id \in l.pending : id < conn[c].next_id => id \in conn[c].pending
      BY <1>2, <1>5, <2>4 DEF Follows
    <3>2. l.next_id \in Nat /\ conn[c].next_id \in Nat /\ got[d][i].id \in Nat
      <4>1. got[d][i] \in Replies
        BY <1>1, ElementOfSeq
      <4>2. l \in Konns /\ conn[c] \in Konns
        BY <1>1
      <4>3. l.next_id \in Nat /\ conn[c].next_id \in Nat
        BY <4>2, ArgsAssumption DEF Konns
      <4> QED BY <4>1, <4>3 DEF Replies
    <3>3. got[d][i].id < l.next_id
      BY <2>2, <2>4, <3>1, <3>2
    <3> QED BY <1>2, <2>2, <2>4, <3>1, <3>3
  <2> QED BY <2>3, <2>4
<1>6. AnswersCounted'
  BY <1>5, Zenon DEF AnswersCounted
<1> QED
  BY <1>4, <1>6

\* What the first n places hold.
Image(f, n) == {f[i] : i \in 1..n}

\* n places that differ hold n things.
LEMMA ImageSize ==
  ASSUME NEW n \in Nat, NEW f, f = [i \in 1..n |-> f[i]],
         \A i, j \in 1..n : f[i] = f[j] => i = j
  PROVE  IsFiniteSet(Image(f, n)) /\ Cardinality(Image(f, n)) = n
<1> DEFINE R == Image(f, n)
<1>1. f \in [1..n -> R]
  BY DEF Image
<1>2. f \in Bijection(1..n, R)
  BY <1>1 DEF Bijection, Injection, Surjection, IsInjective, Image
<1>3. IsFiniteSet(1..n) /\ Cardinality(1..n) = n
  <2>1. 1 \in Int /\ n \in Int /\ (IF 1 > n THEN 0 ELSE n - 1 + 1) = n
    OBVIOUS
  <2> QED BY <2>1, FS_Interval
<1>4. ExistsBijection(1..n, R)
  BY <1>2 DEF ExistsBijection
<1> HIDE DEF R
<1>5. IsFiniteSet(R) /\ Cardinality(R) = n
  BY <1>3, <1>4, FS_Bijection
<1> QED BY <1>5 DEF R

\* There are Expected requests.
LEMMA RequestsFinite ==
  /\ IsFiniteSet(Conns \X Ids) /\ Cardinality(Conns \X Ids) = Expected
<1>1. IsFiniteSet(Ids) /\ Cardinality(Ids) = PerConn
  <2>1. 0 \in Int /\ PerConn - 1 \in Int /\ ~(0 > PerConn - 1) /\ (PerConn - 1) - 0 + 1 = PerConn
    BY ArgsAssumption
  <2> QED BY <2>1, FS_Interval DEF Ids
<1>2. IsFiniteSet(Conns) /\ Cardinality(Conns) \in Nat
  BY ArgsAssumption, FS_CardinalityType
<1>3. IsFiniteSet(Conns \X Ids) /\ Cardinality(Conns \X Ids) = Cardinality(Conns) * Cardinality(Ids)
  BY <1>1, <1>2, FS_Product
<1>4. \A a, b \in Nat : a * b = b * a
  OBVIOUS
<1> QED
  BY <1>1, <1>2, <1>3, <1>4, ArgsAssumption DEF Expected

\* The answers s of c are counted with the others.
LEMMA AnsweredMore ==
  ASSUME got \in [Conns -> Seq(Replies)], NEW c \in Conns, NEW s \in Seq(Replies),
         \A i \in 1..Len(s) : s[i].id \in Ids,
         \A i, j \in 1..Len(s) : s[i].id = s[j].id => i = j,
         \A i \in 1..Len(s) : \A j \in 1..Len(got[c]) : s[i].id # got[c][j].id
  PROVE  Cardinality(Answered([got EXCEPT ![c] = @ \o s]))
            = Cardinality(Answered(got)) + Len(s)
<1> DEFINE g == [got EXCEPT ![c] = @ \o s]
           f == [i \in 1..Len(s) |-> <<c, s[i].id>>]
           N == Image(f, Len(s))
<1>1. /\ Len(s) \in Nat /\ Len(got[c]) \in Nat /\ g[c] = got[c] \o s
      /\ \A d \in Conns : d # c => g[d] = got[d]
      /\ Len(got[c] \o s) = Len(got[c]) + Len(s)
      /\ \A i \in 1..(Len(got[c]) + Len(s)) :
            (got[c] \o s)[i] = IF i <= Len(got[c]) THEN got[c][i] ELSE s[i - Len(got[c])]
  BY LenProperties, ConcatProperties
<1>2. IsFiniteSet(N) /\ Cardinality(N) = Len(s)
  <2>1. \A i, j \in 1..Len(s) : f[i] = f[j] => i = j
    OBVIOUS
  <2>2. f = [i \in 1..Len(s) |-> f[i]]
    OBVIOUS
  <2> HIDE DEF f
  <2> QED BY <1>1, <2>1, <2>2, ImageSize
<1>3. Answered(g) = Answered(got) \cup N
  <2>1. ASSUME NEW p \in Answered(g) PROVE p \in Answered(got) \cup N
    <3>1. PICK i \in 1..Len(g[p[1]]) : g[p[1]][i].id = p[2]
      BY <2>1 DEF Answered
    <3>2. p \in Conns \X Ids /\ p = <<p[1], p[2]>> /\ p[1] \in Conns
      BY <2>1 DEF Answered
    <3>3. CASE p[1] # c
      BY <1>1, <3>1, <3>2, <3>3 DEF Answered
    <3>4. CASE p[1] = c
      <4>1. i \in 1..(Len(got[c]) + Len(s)) /\ (got[c] \o s)[i].id = p[2]
        BY <1>1, <3>1, <3>4
      <4>2. CASE i <= Len(got[c])
        <5>1. i \in 1..Len(got[c]) /\ got[c][i].id = p[2]
          BY <1>1, <4>1, <4>2
        <5> QED BY <3>2, <3>4, <5>1 DEF Answered
      <4>3. CASE ~(i <= Len(got[c]))
        <5>1. i - Len(got[c]) \in 1..Len(s) /\ s[i - Len(got[c])].id = p[2]
          BY <1>1, <4>1, <4>3
        <5> QED BY <3>2, <3>4, <5>1 DEF Image
      <4> QED BY <4>2, <4>3
    <3> QED BY <3>3, <3>4
  <2>2. ASSUME NEW p \in Answered(got) PROVE p \in Answered(g)
    <3>1. PICK i \in 1..Len(got[p[1]]) : got[p[1]][i].id = p[2]
      BY <2>2 DEF Answered
    <3>2. p \in Conns \X Ids /\ p[1] \in Conns
      BY <2>2 DEF Answered
    <3>3. CASE p[1] # c
      BY <1>1, <3>1, <3>2, <3>3 DEF Answered
    <3>4. CASE p[1] = c
      <4>1. i \in 1..(Len(got[c]) + Len(s)) /\ (got[c] \o s)[i] = got[c][i]
        BY <1>1, <3>1, <3>4
      <4> QED BY <1>1, <3>1, <3>2, <3>4, <4>1 DEF Answered
    <3> QED BY <3>3, <3>4
  <2>3. ASSUME NEW i \in 1..Len(s) PROVE f[i] \in Answered(g)
    <3>1. f[i] \in Conns \X Ids /\ f[i][1] = c /\ f[i][2] = s[i].id
      OBVIOUS
    <3>2. /\ Len(got[c]) + i \in 1..(Len(got[c]) + Len(s))
          /\ (got[c] \o s)[Len(got[c]) + i] = s[i]
      <4>1. /\ Len(got[c]) + i \in 1..(Len(got[c]) + Len(s)) /\ ~(Len(got[c]) + i <= Len(got[c]))
            /\ (Len(got[c]) + i) - Len(got[c]) = i
        BY <1>1
      <4> QED BY <1>1, <4>1
    <3> HIDE DEF f, g
    <3> DEFINE p == f[i]
               j == Len(got[c]) + i
    <3>3. p \in Conns \X Ids /\ p[1] = c /\ p[2] = s[i].id
      BY <3>1
    <3>4. j \in 1..Len(g[c]) /\ g[c][j].id = s[i].id
      BY <1>1, <3>2
    <3> HIDE DEF p, j
    <3>5. p \in Answered(g)
      BY <3>3, <3>4 DEF Answered
    <3> QED BY <3>5 DEF p
  <2> HIDE DEF f, g
  <2>4. N \subseteq Answered(g)
    BY <2>3 DEF Image
  <2> HIDE DEF N
  <2> QED BY <2>1, <2>2, <2>4
<1>4. Answered(got) \cap N = {}
  <2>1. ASSUME NEW i \in 1..Len(s) PROVE f[i] \notin Answered(got)
    BY DEF Answered
  <2> HIDE DEF f
  <2> QED BY <2>1 DEF Image
<1>5. IsFiniteSet(Answered(got)) /\ Cardinality(Answered(got)) \in Nat
  <2>1. Answered(got) \in SUBSET (Conns \X Ids)
    BY DEF Answered
  <2> QED BY <2>1, RequestsFinite, FS_Subset, FS_CardinalityType
<1>6. Cardinality(Answered(got) \cap N) = 0
  BY <1>4, FS_EmptySet
<1> HIDE DEF N, g
<1>7. Cardinality(Answered(got) \cup N) = Cardinality(Answered(got)) + Cardinality(N) - 0
  BY <1>2, <1>5, <1>6, FS_Union
<1>8. Cardinality(Answered(g)) = Cardinality(Answered(got)) + Len(s)
  BY <1>1, <1>2, <1>3, <1>5, <1>7
<1> QED
  BY <1>8 DEF g

-----------------------------------------------------------------------------
(* The bench client: the steps.                                            *)

\* A connection that is closed or new has no requests.
LEMMA GoneKept == WellKept(Gone) /\ WellKept(Fresh)
<1>1. <<>> \in Seq(Pieces) /\ <<>> \in Seq(Replies) /\ Len(<<>>) = 0
  BY EmptySeq
<1>2. 0 \in 0..PerConn /\ 0 <= Depth /\ 0 <= Room
  BY ArgsAssumption
<1>3. Fresh \in Konns
  BY <1>1, <1>2 DEF Fresh, Konns
<1>4. Gone \in Konns
  <2> DEFINE a == [Fresh EXCEPT !.st = "gone"]
             b == [a EXCEPT !.ev = {}]
  <2>1. a \in Konns
    BY <1>3 DEF Konns
  <2>2. b \in Konns
    <3> HIDE DEF a
    <3> QED BY <2>1 DEF Konns
  <2>3. Gone = b
    BY Zenon DEF Gone
  <2> QED BY <2>2, <2>3, Zenon
<1> QED
  BY <1>1, <1>2, <1>3, <1>4 DEF WellKept, Gone, Fresh

\* What a handler took is counted when it has settled.
LEMMA Settled ==
  ASSUME BenchTypes, AnswersCounted, NEW c \in Conns, conn[c].st = "open",
         NEW x, Handled(conn[c], total, x), Settle(c, x),
         got' = [got EXCEPT ![c] = @ \o x.took], held' = held
  PROVE  BenchTypes' /\ AnswersCounted'
<1> DEFINE l == IF x.fail \/ (x.k.done_cnt >= PerConn /\ x.k.inflight = 0 /\ x.k.outbuf = <<>>)
                THEN Gone ELSE x.k
           s == x.took
           n == Len(s)
<1>1. /\ conn \in [Conns -> Konns] /\ \A d \in Conns : WellKept(conn[d])
      /\ total \in Totals /\ got \in [Conns -> Seq(Replies)]
  BY DEF BenchTypes
<1>2. /\ x \in Handlers /\ WellKept(x.k) /\ GoesOn(conn[c], x.k) /\ x.t \in Totals
      /\ x.t.extra >= total.extra /\ x.t.tampered >= total.tampered
      /\ s \in Seq(Replies)
  BY DEF Handled, Handlers
<1>3. conn' = [conn EXCEPT ![c] = l]
  BY DEF Settle
<1>4. /\ total' \in Totals /\ total'.received = x.t.received /\ total'.extra = x.t.extra
      /\ total'.tampered = x.t.tampered
  <2>1. total' = IF x.fail THEN [x.t EXCEPT !.errors = @ + 1] ELSE x.t
    BY DEF Settle
  <2> QED BY <1>2, <2>1 DEF Totals
<1>5. WellKept(l) /\ (l.st = "gone" \/ l = x.k)
  <2>1. Gone.st = "gone"
    BY DEF Gone, Fresh
  <2> QED BY <1>2, <2>1, GoneKept
<1> HIDE DEF l, n
<1>6. n \in Nat /\ Len(got[c]) \in Nat /\ \A i \in 1..n : s[i] \in Replies
  BY <1>1, <1>2, LenProperties, ElementOfSeq DEF n
<1> HIDE DEF s
<1>7. /\ got' \in [Conns -> Seq(Replies)] /\ got'[c] = got[c] \o s
      /\ \A d \in Conns : d # c => got'[d] = got[d]
  <2>1. got[c] \o s \in Seq(Replies)
    BY <1>1, <1>2, ConcatProperties
  <2> QED BY <1>1, <2>1 DEF s
<1>8. /\ conn' \in [Conns -> Konns] /\ conn'[c] = l
      /\ \A d \in Conns : d # c => conn'[d] = conn[d]
  BY <1>1, <1>3, <1>5 DEF WellKept
<1>9. BenchTypes'
  <2>1. \A d \in Conns : WellKept(conn'[d])
    BY <1>1, <1>5, <1>8
  <2>2. \A d \in Conns : WellKept(conn[d])'
    BY <2>1 DEF WellKept
  <2>3. held' \in [Conns -> SUBSET Nat]
    BY DEF BenchTypes
  <2> QED BY <1>4, <1>7, <1>8, <2>2, <2>3 DEF BenchTypes
<1>10. ASSUME x.t.extra = 0
       PROVE  /\ total.extra = 0
              /\ \A i \in 1..n : s[i].id \in conn[c].pending /\ s[i].id \notin x.k.pending
              /\ \A i, j \in 1..n : s[i].id = s[j].id => i = j
              /\ x.t.received = total.received + n
              /\ Check /\ x.t.tampered = 0 => total.tampered = 0 /\ \A i \in 1..n : s[i].intact
  <2>1. total.extra = 0
    BY <1>1, <1>2, <1>10 DEF Totals
  <2>2. x.t.tampered = 0 => total.tampered = 0
    BY <1>1, <1>2 DEF Totals
  <2> QED BY <1>10, <2>1, <2>2 DEF Handled, s, n
<1>11. /\ Len(got[c] \o s) = Len(got[c]) + n
       /\ \A i \in 1..(Len(got[c]) + n) :
            (got[c] \o s)[i] = IF i <= Len(got[c]) THEN got[c][i] ELSE s[i - Len(got[c])]
  <2>1. s \in Seq(Replies) /\ got[c] \in Seq(Replies) /\ n = Len(s)
    BY <1>1, <1>2 DEF s, n
  <2> QED BY <2>1, ConcatProperties
<1>12. \A i \in 1..(Len(got[c]) + n) :
          \/ i \in 1..Len(got[c]) /\ (got[c] \o s)[i] = got[c][i]
          \/ i - Len(got[c]) \in 1..n /\ (got[c] \o s)[i] = s[i - Len(got[c])]
  BY <1>6, <1>11
<1>13. ASSUME total'.extra = 0
       PROVE  /\ \A d \in Conns : \A i \in 1..Len(got'[d]) : got'[d][i].id \in Ids
              /\ \A d \in Conns : \A i, j \in 1..Len(got'[d]) : got'[d][i].id = got'[d][j].id => i = j
              /\ \A d \in Conns : conn'[d].st # "gone" =>
                    \A i \in 1..Len(got'[d]) : /\ got'[d][i].id < conn'[d].next_id
                                               /\ got'[d][i].id \notin conn'[d].pending
              /\ total'.received = Cardinality(Answered(got'))
              /\ Check /\ total'.tampered = 0 =>
                    \A d \in Conns : \A i \in 1..Len(got'[d]) : got'[d][i].intact
  <2>1. /\ total.extra = 0
        /\ \A i \in 1..n : s[i].id \in conn[c].pending /\ s[i].id \notin x.k.pending
        /\ \A i, j \in 1..n : s[i].id = s[j].id => i = j
        /\ x.t.received = total.received + n
        /\ Check /\ x.t.tampered = 0 => total.tampered = 0 /\ \A i \in 1..n : s[i].intact
    BY <1>4, <1>10, <1>13
  <2>2. /\ \A d \in Conns : \A i \in 1..Len(got[d]) : got[d][i].id \in Ids
        /\ \A d \in Conns : \A i, j \in 1..Len(got[d]) : got[d][i].id = got[d][j].id => i = j
        /\ \A d \in Conns : conn[d].st # "gone" =>
              \A i \in 1..Len(got[d]) : /\ got[d][i].id < conn[d].next_id
                                        /\ got[d][i].id \notin conn[d].pending
        /\ total.received = Cardinality(Answered(got))
        /\ Check /\ total.tampered = 0 =>
              \A d \in Conns : \A i \in 1..Len(got[d]) : got[d][i].intact
    BY <2>1 DEF AnswersCounted
  <2>3. \A i \in 1..n : s[i].id \in Ids /\ s[i].id < conn[c].next_id
    BY <1>1, <2>1 DEF WellKept, Konns
  <2>4. \A i \in 1..n : \A j \in 1..Len(got[c]) : s[i].id # got[c][j].id
    BY <2>1, <2>2
  <2>5. \A d \in Conns : \A i \in 1..Len(got'[d]) : got'[d][i].id \in Ids
    <3>1. \A i \in 1..Len(got'[c]) : got'[c][i].id \in Ids
      <4>1. Len(got'[c]) = Len(got[c]) + n /\ got'[c] = got[c] \o s
        BY <1>7, <1>11
      <4>2. ASSUME NEW i \in 1..(Len(got[c]) + n) PROVE (got[c] \o s)[i].id \in Ids
        <5>1. CASE i \in 1..Len(got[c]) /\ (got[c] \o s)[i] = got[c][i]
          BY <2>2, <5>1
        <5>2. CASE i - Len(got[c]) \in 1..n /\ (got[c] \o s)[i] = s[i - Len(got[c])]
          BY <2>3, <5>2
        <5> QED BY <1>12, <5>1, <5>2
      <4> QED BY <4>1, <4>2
    <3>2. ASSUME NEW d \in Conns, d # c
          PROVE  \A i \in 1..Len(got'[d]) : got'[d][i].id \in Ids
      BY <1>7, <2>2, <3>2
    <3> QED BY <3>1, <3>2
  <2>6. \A d \in Conns : \A i, j \in 1..Len(got'[d]) : got'[d][i].id = got'[d][j].id => i = j
    <3>1. ASSUME NEW i \in 1..(Len(got[c]) + n), NEW j \in 1..(Len(got[c]) + n),
                 (got[c] \o s)[i].id = (got[c] \o s)[j].id
          PROVE  i = j
      <4>1. CASE i \in 1..Len(got[c]) /\ (got[c] \o s)[i] = got[c][i]
        <5>1. CASE j \in 1..Len(got[c]) /\ (got[c] \o s)[j] = got[c][j]
          BY <2>2, <3>1, <4>1, <5>1
        <5>2. CASE j - Len(got[c]) \in 1..n /\ (got[c] \o s)[j] = s[j - Len(got[c])]
          BY <2>4, <3>1, <4>1, <5>2
        <5> QED BY <1>12, <5>1, <5>2
      <4>2. CASE i - Len(got[c]) \in 1..n /\ (got[c] \o s)[i] = s[i - Len(got[c])]
        <5>1. CASE j \in 1..Len(got[c]) /\ (got[c] \o s)[j] = got[c][j]
          BY <2>4, <3>1, <4>2, <5>1
        <5>2. CASE j - Len(got[c]) \in 1..n /\ (got[c] \o s)[j] = s[j - Len(got[c])]
          <6>1. i - Len(got[c]) = j - Len(got[c])
            BY <2>1, <3>1, <4>2, <5>2
          <6> QED BY <1>6, <6>1
        <5> QED BY <1>12, <5>1, <5>2
      <4> QED BY <1>12, <4>1, <4>2
    <3> QED BY <1>7, <1>11, <2>2, <3>1, SMTT(30)
  <2>7. ASSUME NEW d \in Conns, conn'[d].st # "gone", NEW i \in 1..Len(got'[d])
        PROVE  got'[d][i].id < conn'[d].next_id /\ got'[d][i].id \notin conn'[d].pending
    <3>1. CASE d # c
      BY <1>7, <1>8, <2>2, <2>7, <3>1
    <3>2. CASE d = c
      <4>1. conn'[c] = x.k /\ conn[c].next_id <= x.k.next_id
            /\ (\A id \in x.k.pending : id < conn[c].next_id => id \in conn[c].pending)
        BY <1>2, <1>5, <1>8, <2>7, <3>2 DEF GoesOn
      <4>2. /\ got'[c][i].id < conn[c].next_id /\ got'[c][i].id \notin x.k.pending
        <5>1. CASE i \in 1..Len(got[c]) /\ (got[c] \o s)[i] = got[c][i]
          <6>1. got[c][i].id < conn[c].next_id /\ got[c][i].id \notin conn[c].pending
            BY <2>2, <5>1
          <6> QED BY <1>7, <4>1, <5>1, <6>1
        <5>2. CASE i - Len(got[c]) \in 1..n /\ (got[c] \o s)[i] = s[i - Len(got[c])]
          <6> DEFINE j == i - Len(got[c])
          <6>1. j \in 1..n /\ got'[c][i] = s[j]
            BY <1>7, <5>2
          <6> HIDE DEF j
          <6>2. s[j].id < conn[c].next_id /\ s[j].id \notin x.k.pending
            BY <2>1, <2>3, <6>1
          <6> QED BY <6>1, <6>2
        <5> QED BY <1>7, <1>11, <1>12, <2>7, <3>2, <5>1, <5>2
      <4>3. got'[c][i].id \in Nat /\ conn[c].next_id \in Nat /\ x.k.next_id \in Nat
        <5>1. conn[c] \in Konns /\ x.k \in Konns
          BY <1>1, <1>2 DEF WellKept
        <5>2. got'[c][i].id \in Ids
          BY <2>5, <2>7, <3>2
        <5>3. conn[c].next_id \in 0..PerConn /\ x.k.next_id \in 0..PerConn
          BY <5>1 DEF Konns
        <5>4. PerConn \in Nat /\ Ids \subseteq Nat
          BY ArgsAssumption DEF Ids
        <5>5. \A m \in 0..PerConn : m \in Nat
          BY <5>4
        <5> QED BY <5>2, <5>3, <5>4, <5>5, Zenon
      <4> QED BY <3>2, <4>1, <4>2, <4>3
    <3> QED BY <3>1, <3>2
  <2>8. total'.received = Cardinality(Answered(got'))
    <3>1. Cardinality(Answered([got EXCEPT ![c] = @ \o s])) = Cardinality(Answered(got)) + Len(s)
      <4>1. s \in Seq(Replies) /\ n = Len(s)
        BY <1>2 DEF s, n
      <4> QED BY <1>1, <2>1, <2>3, <2>4, <4>1, AnsweredMore, ZenonT(30)
    <3>2. got' = [got EXCEPT ![c] = @ \o s]
      BY DEF s
    <3> QED BY <1>4, <2>1, <2>2, <3>1, <3>2 DEF n
  <2>9. ASSUME Check, total'.tampered = 0, NEW d \in Conns, NEW i \in 1..Len(got'[d])
        PROVE  got'[d][i].intact
    <3>1. total.tampered = 0 /\ \A j \in 1..n : s[j].intact
      BY <1>4, <2>1, <2>9
    <3>2. \A e \in Conns : \A j \in 1..Len(got[e]) : got[e][j].intact
      BY <2>2, <2>9, <3>1
    <3>3. CASE d # c
      BY <1>7, <2>9, <3>2, <3>3
    <3>4. CASE d = c
      <4>1. /\ Len(got'[c]) = Len(got[c]) + n /\ got'[c] = got[c] \o s
            /\ \A j \in 1..Len(got[c]) : got[c][j].intact
        BY <1>7, <1>11, <3>2
      <4>2. i \in 1..(Len(got[c]) + n)
        BY <2>9, <3>4, <4>1
      <4>3. CASE i \in 1..Len(got[c]) /\ (got[c] \o s)[i] = got[c][i]
        BY <3>4, <4>1, <4>3
      <4>4. CASE i - Len(got[c]) \in 1..n /\ (got[c] \o s)[i] = s[i - Len(got[c])]
        BY <3>1, <3>4, <4>1, <4>4
      <4> QED BY <1>12, <4>2, <4>3, <4>4
    <3> QED BY <3>3, <3>4
  <2> QED BY <2>5, <2>6, <2>7, <2>8, <2>9
<1>14. AnswersCounted'
  BY <1>13, Zenon DEF AnswersCounted
<1> QED
  BY <1>9, <1>14

\* A turn of the loop over the events.
LEMMA HandleKeeps ==
  ASSUME BenchInv, NEW b \in batch, Handle(b)
  PROVE  BenchInv'
<1> DEFINE c == b.c
           k == conn[c]
           x == AfterOut(k, b.e)
<1>1. /\ c \in Conns /\ k.st = "open" /\ BenchTypes /\ AnswersCounted
      /\ WellKept(k) /\ total \in Totals
      /\ \A a \in batch : a.c \in Conns /\ conn[a.c].st = "open"
      /\ \A a, d \in batch : a.c = d.c => a = d
  BY DEF BenchInv, BatchOpen, BenchTypes, Handle
<1>2. PICK y \in {AfterPump(z) : z \in AfterIn(x, b.e)} :
             /\ Settle(c, y)
             /\ got' = [got EXCEPT ![c] = @ \o y.took]
  BY Zenon DEF Handle
<1>3. /\ batch' = batch \ {b} /\ pc' \in {"wait", "handle"} /\ verdict' = verdict /\ held' = held
      /\ pc = "handle"
  BY DEF Handle
<1>4. Handled(k, total, x) /\ x.took = <<>> /\ x.t = total /\ x.k.pending = k.pending
  BY <1>1, AfterOutHandled
<1> HIDE DEF x, k, c
<1>5. \A z \in AfterIn(x, b.e) : Handled(k, total, z)
  <2>1. \A n \in Reads(x) : n \in 0..Len(x.k.down)
    BY DEF Reads
  <2>2. \A n \in Reads(x) : \A z \in Received(x, n) : Handled(k, total, z)
    BY <1>1, <1>4, <2>1, ReceivedHandled
  <2>3. ASSUME NEW z \in AfterIn(x, b.e) PROVE z = x \/ \E n \in Reads(x) : z \in Received(x, n)
    BY Zenon DEF AfterIn
  <2> QED BY <1>4, <2>2, <2>3
<1>6. Handled(k, total, y)
  BY <1>1, <1>2, <1>5, AfterPumpHandled
<1>7. BenchTypes' /\ AnswersCounted'
  BY <1>1, <1>2, <1>3, <1>6, Settled DEF k
<1>8. BatchOpen'
  <2>1. \A d \in Conns : d # c => conn'[d] = conn[d]
    BY <1>1, <1>2 DEF Settle, BenchTypes
  <2>2. \A a \in batch' : a \in batch /\ a.c # c
    BY <1>1, <1>3 DEF c
  <2> QED BY <1>1, <2>1, <2>2 DEF BatchOpen
<1>9. VerdictLast'
  BY <1>3 DEF BenchInv, VerdictLast
<1> QED
  BY <1>7, <1>8, <1>9 DEF BenchInv

\* A step of the server on the socket of one connection, or of the client on it before
\* any answer is taken.
LEMMA SocketKeeps ==
  ASSUME BenchInv, NEW c \in Conns, NEW l, WellKept(l), Follows(conn[c], l),
         l.st = conn[c].st \/ (pc = "connect" /\ pc' = "connect"),
         conn' = [conn EXCEPT ![c] = l], held' \in [Conns -> SUBSET Nat],
         total' = total, got' = got, verdict' = verdict, batch' \subseteq batch,
         pc' = pc \/ (pc = "pump" /\ pc' \in {"pump", "wait"})
  PROVE  BenchInv'
<1>1. BenchTypes' /\ AnswersCounted'
  BY ConnChanged DEF BenchInv
<1>2. conn \in [Conns -> Konns]
  BY DEF BenchInv, BenchTypes
<1>3. BatchOpen'
  <2>1. CASE l.st = conn[c].st
    <3>1. \A d \in Conns : conn'[d].st = conn[d].st
      BY <1>2, <2>1
    <3> QED BY <3>1 DEF BenchInv, BatchOpen
  <2>2. CASE pc' = "connect"
    BY <2>2 DEF BatchOpen
  <2> QED BY <2>1, <2>2
<1>4. VerdictLast'
  BY DEF BenchInv, VerdictLast
<1> QED
  BY <1>1, <1>3, <1>4 DEF BenchInv

\* A step that changes no connection and takes no answer.
LEMMA QuietKeeps ==
  ASSUME BenchInv, conn' = conn, held' = held, total' = total, got' = got, BatchOpen', VerdictLast'
  PROVE  BenchInv'
<1>1. BenchTypes' /\ AnswersCounted'
  BY Zenon DEF BenchInv, BenchTypes, AnswersCounted, WellKept
<1> QED
  BY <1>1 DEF BenchInv

\* A field of a connection that its requests do not depend on.
LEMMA UpChanged ==
  ASSUME NEW k, WellKept(k), NEW u \in Seq(Pieces), Len(u) <= Room
  PROVE  WellKept([k EXCEPT !.up = u]) /\ GoesOn(k, [k EXCEPT !.up = u])
<1> DEFINE l == [k EXCEPT !.up = u]
<1>1. k \in Konns /\ k.next_id \in Int
  BY ArgsAssumption DEF WellKept, Konns
<1>2. l \in Konns /\ l.up = u /\ l.pending = k.pending /\ l.next_id = k.next_id /\ l.st = k.st
  BY <1>1 DEF Konns
<1> HIDE DEF l
<1>3. WellKept(l) /\ GoesOn(k, l)
  BY <1>1, <1>2 DEF WellKept, GoesOn
<1> QED BY <1>3 DEF l

\* What the socket holds for the client.
LEMMA DownChanged ==
  ASSUME NEW k, WellKept(k), NEW u \in Seq(Replies)
  PROVE  WellKept([k EXCEPT !.down = u]) /\ GoesOn(k, [k EXCEPT !.down = u])
<1> DEFINE l == [k EXCEPT !.down = u]
<1>1. k \in Konns /\ k.next_id \in Int
  BY ArgsAssumption DEF WellKept, Konns
<1>2. l \in Konns /\ l.up = k.up /\ l.pending = k.pending /\ l.next_id = k.next_id /\ l.st = k.st
  BY <1>1 DEF Konns
<1> HIDE DEF l
<1>3. WellKept(l) /\ GoesOn(k, l)
  BY <1>1, <1>2 DEF WellKept, GoesOn
<1> QED BY <1>3 DEF l

\* What has been heard of the server.
LEMMA PeerChanged ==
  ASSUME NEW k, WellKept(k), NEW u \in {"up", "fin", "reset"}
  PROVE  WellKept([k EXCEPT !.peer = u]) /\ GoesOn(k, [k EXCEPT !.peer = u])
<1> DEFINE l == [k EXCEPT !.peer = u]
<1>1. k \in Konns /\ k.next_id \in Int
  BY ArgsAssumption DEF WellKept, Konns
<1>2. l \in Konns /\ l.up = k.up /\ l.pending = k.pending /\ l.next_id = k.next_id /\ l.st = k.st
  BY <1>1 DEF Konns
<1> HIDE DEF l
<1>3. WellKept(l) /\ GoesOn(k, l)
  BY <1>1, <1>2 DEF WellKept, GoesOn
<1> QED BY <1>3 DEF l

\* What goes on follows, if it was there.
LEMMA GoesOnFollows ==
  ASSUME NEW k, NEW l, GoesOn(k, l), k.st # "gone"
  PROVE  Follows(k, l) /\ l.st = k.st
BY DEF GoesOn, Follows

\* A connection the server serves is there.
LEMMA ServedConn ==
  ASSUME BenchInv, NEW c \in Conns, Served(c)
  PROVE  /\ WellKept(conn[c]) /\ conn[c].st # "gone" /\ conn \in [Conns -> Konns]
         /\ held \in [Conns -> SUBSET Nat]
BY DEF BenchInv, BenchTypes, Served

\* The server reads.
LEMMA SrvReadKeeps ==
  ASSUME BenchInv, NEW c \in Conns, SrvRead(c)
  PROVE  BenchInv'
<1> DEFINE l == [conn[c] EXCEPT !.up = Tail(conn[c].up)]
<1>1. Served(c) /\ conn[c].up # <<>>
  BY DEF SrvRead
<1>2. /\ WellKept(conn[c]) /\ conn[c].st # "gone" /\ conn \in [Conns -> Konns]
      /\ held \in [Conns -> SUBSET Nat]
  BY <1>1, ServedConn
<1>3. /\ conn[c].up \in Seq(Pieces) /\ Len(conn[c].up) <= Room /\ Len(conn[c].up) \in Nat
  BY <1>2, LenProperties DEF WellKept, Konns
<1>4. /\ Tail(conn[c].up) \in Seq(Pieces) /\ Len(Tail(conn[c].up)) <= Room
      /\ Head(conn[c].up) \in Pieces
  <2>1. Tail(conn[c].up) \in Seq(Pieces) /\ Len(Tail(conn[c].up)) = Len(conn[c].up) - 1
        /\ Head(conn[c].up) \in Pieces
    BY <1>1, <1>3, HeadTailProperties
  <2> QED BY <1>3, <2>1, ArgsAssumption
<1>5. WellKept(l) /\ Follows(conn[c], l) /\ l.st = conn[c].st
  BY <1>2, <1>4, UpChanged, GoesOnFollows
<1>6. conn' = [conn EXCEPT ![c] = l]
  BY <1>2 DEF SrvRead
<1>7. held' \in [Conns -> SUBSET Nat]
  <2>1. {x.id : x \in {y \in {Head(conn[c].up)} : y.last}} \subseteq Nat
    BY <1>4 DEF Pieces
  <2> DEFINE new == {x.id : x \in {y \in {Head(conn[c].up)} : y.last}}
  <2>2. held' = [held EXCEPT ![c] = @ \cup new]
    BY DEF SrvRead
  <2> HIDE DEF new
  <2> QED BY <1>2, <2>1, <2>2 DEF new
<1>8. total' = total /\ got' = got /\ verdict' = verdict /\ batch' = batch /\ pc' = pc
  BY DEF SrvRead
<1> HIDE DEF l
<1> QED
  BY <1>5, <1>6, <1>7, <1>8, SocketKeeps

\* The server sends, be it right or wrong.
LEMMA SrvSendsKeeps ==
  ASSUME BenchInv, NEW c \in Conns, Served(c), NEW a \in Replies, SrvSends(c, a),
         held' \in [Conns -> SUBSET Nat], UNCHANGED <<pc, batch, total, verdict, got>>
  PROVE  BenchInv'
<1> DEFINE l == [conn[c] EXCEPT !.down = Append(conn[c].down, a)]
<1>1. /\ WellKept(conn[c]) /\ conn[c].st # "gone" /\ conn \in [Conns -> Konns]
  BY ServedConn
<1>2. Append(conn[c].down, a) \in Seq(Replies)
  <2>1. conn[c].down \in Seq(Replies)
    BY <1>1 DEF Konns
  <2> QED BY <2>1, AppendProperties
<1>3. WellKept(l) /\ Follows(conn[c], l) /\ l.st = conn[c].st
  BY <1>1, <1>2, DownChanged, GoesOnFollows
<1>4. conn' = [conn EXCEPT ![c] = l]
  BY <1>1 DEF SrvSends
<1> HIDE DEF l
<1> QED
  BY <1>3, <1>4, SocketKeeps

\* The server answers, errs or hangs up.
LEMMA ServerKeeps ==
  ASSUME BenchInv, NEW c \in Conns, SrvAnswer(c) \/ SrvMisbehaves(c) \/ SrvHangsUp(c)
  PROVE  BenchInv'
<1>1. Served(c) /\ UNCHANGED <<pc, batch, total, verdict, got>>
  BY DEF SrvAnswer, SrvMisbehaves, SrvHangsUp
<1>2. /\ WellKept(conn[c]) /\ conn[c].st # "gone" /\ conn \in [Conns -> Konns]
      /\ held \in [Conns -> SUBSET Nat]
  BY <1>1, ServedConn
<1>3. \A id \in held[c] : [held EXCEPT ![c] = @ \ {id}] \in [Conns -> SUBSET Nat]
  BY <1>2
<1>4. \A id \in held[c] : [id |-> id, intact |-> TRUE] \in Replies
  BY <1>2 DEF Replies
<1>5. Answers \cup {Broken} \subseteq Replies
  <2>1. PerConn \in Nat /\ PerConn + 1 \in Nat /\ 0..PerConn \subseteq Nat
    BY ArgsAssumption
  <2>2. Broken \in Replies
    BY <2>1 DEF Broken, Replies
  <2>3. Answers \subseteq Replies
    BY <2>1 DEF Answers, Replies
  <2> QED BY <2>2, <2>3
<1>6. ASSUME NEW a \in Replies, SrvSends(c, a), held' \in [Conns -> SUBSET Nat]
      PROVE  BenchInv'
  BY <1>1, <1>6, SrvSendsKeeps
<1>7. ASSUME conn' = conn, held' \in [Conns -> SUBSET Nat] PROVE BenchInv'
  <2>1. conn' = [conn EXCEPT ![c] = conn[c]]
    BY <1>2, <1>7
  <2>2. Follows(conn[c], conn[c])
    BY <1>2, ArgsAssumption DEF Follows, Konns
  <2> QED BY <1>1, <1>2, <1>7, <2>1, <2>2, SocketKeeps
<1>8. CASE SrvAnswer(c)
  BY <1>3, <1>4, <1>6, <1>8 DEF SrvAnswer
<1>9. CASE SrvMisbehaves(c)
  <2>1. PICK id \in held[c] :
          \/ (\E a \in Answers \cup {Broken} : SrvSends(c, a)) /\ held' = [held EXCEPT ![c] = @ \ {id}]
          \/ held' = [held EXCEPT ![c] = @ \ {id}] /\ conn' = conn
          \/ SrvSends(c, [id |-> id, intact |-> TRUE]) /\ held' = held
    BY <1>9 DEF SrvMisbehaves
  <2>2. CASE (\E a \in Answers \cup {Broken} : SrvSends(c, a)) /\ held' = [held EXCEPT ![c] = @ \ {id}]
    BY <1>3, <1>5, <1>6, <2>2
  <2>3. CASE held' = [held EXCEPT ![c] = @ \ {id}] /\ conn' = conn
    BY <1>3, <1>7, <2>3
  <2>4. CASE SrvSends(c, [id |-> id, intact |-> TRUE]) /\ held' = held
    BY <1>2, <1>4, <1>6, <2>4
  <2> QED BY <2>1, <2>2, <2>3, <2>4
<1>10. CASE SrvHangsUp(c)
  <2>1. PICK p \in {"fin", "reset"} : conn' = [conn EXCEPT ![c].peer = p]
    BY <1>10 DEF SrvHangsUp
  <2> DEFINE l == [conn[c] EXCEPT !.peer = p]
  <2>2. conn' = [conn EXCEPT ![c] = l]
    BY <1>2, <2>1
  <2>3. WellKept(l) /\ Follows(conn[c], l) /\ l.st = conn[c].st
    BY <1>2, PeerChanged, GoesOnFollows
  <2> HIDE DEF l
  <2>4. held' = held
    BY <1>10 DEF SrvHangsUp
  <2> QED BY <1>1, <1>2, <2>2, <2>3, <2>4, SocketKeeps
<1> QED BY <1>8, <1>9, <1>10

\* A connection is made.
LEMMA ConnectOkKeeps ==
  ASSUME BenchInv, NEW c \in Conns, ConnectOk(c)
  PROVE  BenchInv'
<1> DEFINE k == conn[c]
           l1 == [k EXCEPT !.st = "open"]
           l == [l1 EXCEPT !.ev = {"in"}]
<1>1. /\ WellKept(k) /\ k \in Konns /\ conn \in [Conns -> Konns] /\ held \in [Conns -> SUBSET Nat]
      /\ k.st = "connecting" /\ pc = "connect"
  BY DEF BenchInv, BenchTypes, WellKept, ConnectOk
<1>2. conn' = [conn EXCEPT ![c] = l]
  <2>1. conn' = [conn EXCEPT ![c].st = "open", ![c].ev = {"in"}]
    BY DEF ConnectOk
  <2> QED BY <1>1, <2>1
<1> HIDE DEF k
<1>3. l1 \in Konns /\ l1.up = k.up /\ l1.pending = k.pending /\ l1.next_id = k.next_id /\ l1.st = "open"
  BY <1>1 DEF Konns
<1> HIDE DEF l1
<1>4. l \in Konns /\ l.up = l1.up /\ l.pending = l1.pending /\ l.next_id = l1.next_id /\ l.st = l1.st
  BY <1>3 DEF Konns
<1> HIDE DEF l
<1>5. WellKept(l)
  BY <1>1, <1>3, <1>4 DEF WellKept
<1>6. Follows(k, l)
  <2>1. k.next_id \in 0..PerConn
    BY <1>1 DEF Konns
  <2> QED BY <1>1, <1>3, <1>4, <2>1, ArgsAssumption DEF Follows
<1>7. pc' = pc /\ total' = total /\ got' = got /\ verdict' = verdict /\ batch' = batch /\ held' = held
  BY DEF ConnectOk
<1> QED
  BY <1>1, <1>2, <1>5, <1>6, <1>7, SocketKeeps DEF k

\* A connection is refused.
LEMMA ConnectFailsKeeps ==
  ASSUME BenchInv, NEW c \in Conns, ConnectFails(c)
  PROVE  BenchInv'
<1>1. /\ pc = "connect" /\ pc' = pc /\ total' = total /\ got' = got /\ verdict' = verdict
      /\ batch' = batch /\ held' = held /\ held \in [Conns -> SUBSET Nat]
      /\ conn' = [conn EXCEPT ![c] = Gone]
  BY DEF ConnectFails, BenchInv, BenchTypes
<1>2. WellKept(Gone) /\ Follows(conn[c], Gone)
  BY GoneKept DEF Follows, Gone, Fresh
<1> QED
  BY <1>1, <1>2, SocketKeeps

\* The first requests of a connection.
LEMMA FirstPumpKeeps ==
  ASSUME BenchInv, NEW b \in batch, FirstPump(b)
  PROVE  BenchInv'
<1>1. /\ total' = total /\ got' = got /\ held' = held /\ pc = "pump" /\ held \in [Conns -> SUBSET Nat]
      /\ b.c \in Conns /\ conn[b.c].st = "open" /\ WellKept(conn[b.c])
  BY DEF FirstPump, BenchInv, BatchOpen, BenchTypes
<1>2. CASE SendFails(Fill(conn[b.c])) /\ pc' = "end" /\ verdict' = "FAIL" /\ conn' = conn
  <2>1. BatchOpen' /\ VerdictLast'
    BY <1>2 DEF BatchOpen, VerdictLast
  <2> QED BY <1>1, <1>2, <2>1, QuietKeeps
<1>3. CASE /\ conn' = [conn EXCEPT ![b.c] = PumpSend(@)]
           /\ batch' = batch \ {b} /\ pc' \in {"wait", "pump"} /\ verdict' = verdict
  <2> DEFINE l == PumpSend(conn[b.c])
  <2>1. WellKept(l) /\ Follows(conn[b.c], l) /\ l.st = conn[b.c].st
    BY <1>1, PumpSendKept, GoesOnFollows
  <2>2. conn' = [conn EXCEPT ![b.c] = l]
    BY <1>3, Zenon
  <2> HIDE DEF l
  <2> QED BY <1>1, <1>3, <2>1, <2>2, SocketKeeps
<1> QED BY <1>2, <1>3 DEF FirstPump

\* The other steps take no answer and change no connection.
LEMMA ClientKeeps ==
  ASSUME BenchInv, Connected \/ ConnectDeadline \/ Wait \/ Finish \/ Deadline \/ UNCHANGED vars
  PROVE  BenchInv'
<1>1. conn' = conn /\ held' = held /\ total' = total /\ got' = got
  BY DEF Connected, ConnectDeadline, Wait, Finish, Deadline, Ends, vars
<1>2. CASE Connected
  <2>1. Open = Conns /\ batch' = {[c |-> c, e |-> {}] : c \in Conns} /\ verdict' = verdict /\ pc = "connect"
    BY <1>2 DEF Connected
  <2>2. BatchOpen'
    <3>1. \A c \in Conns : conn'[c].st = "open"
      BY <1>1, <2>1 DEF Open
    <3>2. \A a \in batch' : a.c \in Conns /\ a = [c |-> a.c, e |-> {}]
      BY <2>1
    <3> QED BY <3>1, <3>2 DEF BatchOpen
  <2>3. VerdictLast'
    BY <1>1, <2>1 DEF BenchInv, VerdictLast
  <2> QED BY <1>1, <2>2, <2>3, QuietKeeps
<1>3. CASE ConnectDeadline
  <2>1. BatchOpen' /\ VerdictLast'
    BY <1>3 DEF ConnectDeadline, BatchOpen, VerdictLast
  <2> QED BY <1>1, <2>1, QuietKeeps
<1>4. CASE Wait
  <2>1. /\ batch' = {[c |-> c, e |-> Flags(conn[c])] : c \in {d \in Open : Flags(conn[d]) # {}}}
        /\ verdict' = verdict /\ pc = "wait"
    BY <1>4 DEF Wait
  <2>2. \A a \in batch' : a.c \in Open /\ a = [c |-> a.c, e |-> Flags(conn[a.c])]
    BY <2>1
  <2>3. BatchOpen'
    <3>1. \A a \in batch' : a.c \in Conns /\ conn'[a.c].st = "open"
      BY <1>1, <2>2 DEF Open
    <3>2. \A a, b \in batch' : a.c = b.c => a = b
      BY <2>2
    <3> QED BY <3>1, <3>2 DEF BatchOpen
  <2>4. VerdictLast'
    BY <1>1, <2>1 DEF BenchInv, VerdictLast
  <2> QED BY <1>1, <2>3, <2>4, QuietKeeps
<1>5. CASE Finish \/ Deadline
  <2>1. pc' = "end" /\ verdict' = IF Passed THEN "PASS" ELSE "FAIL"
    BY <1>5 DEF Finish, Deadline, Ends
  <2>2. BatchOpen'
    BY <2>1 DEF BatchOpen
  <2>3. VerdictLast'
    BY <1>1, <2>1 DEF VerdictLast, Passed
  <2> QED BY <1>1, <2>2, <2>3, QuietKeeps
<1>6. CASE UNCHANGED vars
  <2>1. BatchOpen' /\ VerdictLast'
    BY <1>6 DEF vars, BenchInv, BatchOpen, VerdictLast
  <2> QED BY <1>1, <2>1, QuietKeeps
<1> QED BY <1>2, <1>3, <1>4, <1>5, <1>6

\* Every step keeps the invariant.
LEMMA BenchStep == BenchInv /\ [Next]_vars => BenchInv'
<1> SUFFICES ASSUME BenchInv, [Next]_vars PROVE BenchInv'
  OBVIOUS
<1> QED
  BY HandleKeeps, SrvReadKeeps, ServerKeeps, ConnectOkKeeps, ConnectFailsKeeps, FirstPumpKeeps,
     ClientKeeps DEF Next, ClientStep

\* It holds before the first.
LEMMA BenchStart == Init => BenchInv
<1> SUFFICES ASSUME Init PROVE BenchInv
  OBVIOUS
<1>1. <<>> \in Seq(Replies) /\ Len(<<>>) = 0 /\ 1..0 = {}
  BY EmptySeq
<1>2. WellKept(Fresh) /\ Fresh \in Konns
  BY GoneKept DEF WellKept
<1>3. BenchTypes
  BY <1>1, <1>2 DEF Init, BenchTypes, Totals
<1>4. BatchOpen /\ VerdictLast
  BY DEF Init, BatchOpen, VerdictLast
<1>5. \A c \in Conns : got[c] = <<>>
  BY DEF Init
<1>6. Cardinality(Answered(got)) = 0
  <2>1. Answered(got) = {}
    BY <1>1, <1>5 DEF Answered
  <2> QED BY <2>1, FS_EmptySet
<1>7. AnswersCounted
  BY <1>1, <1>5, <1>6 DEF Init, AnswersCounted
<1> QED
  BY <1>3, <1>4, <1>7 DEF BenchInv

\* As many answers as requests, all different: each has one.
LEMMA PassMeansAnswered == BenchInv => PassIsTrue
<1> SUFFICES ASSUME BenchInv, verdict = "PASS"
             PROVE  \A c \in Conns :
                       /\ \A id \in Ids : Cardinality({i \in DOMAIN got[c] : got[c][i].id = id}) = 1
                       /\ \A i \in DOMAIN got[c] : got[c][i].id \in Ids
                       /\ Check => \A i \in DOMAIN got[c] : got[c][i].intact
  BY DEF PassIsTrue
<1>1. /\ \A c \in Conns : \A i \in 1..Len(got[c]) : got[c][i].id \in Ids
      /\ \A c \in Conns : \A i, j \in 1..Len(got[c]) : got[c][i].id = got[c][j].id => i = j
      /\ Cardinality(Answered(got)) = Expected
      /\ Check => \A c \in Conns : \A i \in 1..Len(got[c]) : got[c][i].intact
  BY DEF BenchInv, VerdictLast, AnswersCounted
<1>2. Answered(got) = Conns \X Ids
  <2>1. Answered(got) \in SUBSET (Conns \X Ids)
    BY DEF Answered
  <2> QED BY <1>1, <2>1, RequestsFinite, FS_Subset
<1> TAKE c \in Conns
<1>3. DOMAIN got[c] = 1..Len(got[c])
  <2>1. got[c] \in Seq(Replies)
    BY DEF BenchInv, BenchTypes
  <2> QED BY <2>1, LenProperties
<1>4. ASSUME NEW id \in Ids PROVE Cardinality({i \in DOMAIN got[c] : got[c][i].id = id}) = 1
  <2>1. <<c, id>> \in Answered(got)
    BY <1>2
  <2>2. PICK j \in 1..Len(got[c]) : got[c][j].id = id
    BY <2>1 DEF Answered
  <2>3. {i \in DOMAIN got[c] : got[c][i].id = id} = {j}
    BY <1>1, <1>3, <2>2
  <2> QED BY <2>3, FS_Singleton
<1> QED
  BY <1>1, <1>3, <1>4

\* PASS (bench_client.cpp:359, which looks at sums only) means that every request sent
\* has been answered exactly once, and intact with --check: an answer that is counted
\* takes a pending number away, and numbers do not come back, so that an answer too
\* many and one too few cannot cancel out.  For any connections, requests and depth
\* and any number of faults of the server.
THEOREM VerdictTrue == Spec => []PassIsTrue
<1>1. Init /\ [][Next]_vars => []BenchInv
  BY BenchStart, BenchStep, PTL
<1> QED
  BY <1>1, PassMeansAnswered, PTL DEF Spec
=============================================================================
